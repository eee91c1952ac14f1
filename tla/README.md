# Verification of underling

underling decomposes a three dimensional field into pencils over a two
dimensional grid of MPI ranks, moves it between the three directions in which it
can be "long" with FFTW's MPI transposes, and plans Fourier transforms along the
long direction.  This directory holds TLA+ models of the library and of its
benchmark, the TLC runs that check them on small instances, and theorems about
them that TLAPS proves for all.

Run a model with `tlc -config X.cfg M`, check proofs with `tlapm M.tla`.
`PROJECT.json` lists components, runs, the lines every definition models,
mutants (plausible bugs that each property must notice), findings, hazards and
theorems.  In what follows U, F and B stand for `src/underling/underling.c`,
`src/underling/underling_fftw.c` and `src/apps/underling_bench.c`.

## The system

| Component | State | Operations | Modelled in |
|---|---|---|---|
| Pencil decomposition (U: `underling_problem_create`, `underling_local*`) | per rank and direction: start, size, stride, order, extent; per transpose: matrix sizes, blocks, flags; `local_memory` | computed at creation, read by queries | `Pencils` |
| Memory queries (U: `underling_local_memory*`, `underling_global_memory*`) | none | local, minimum, maximum, optimum, global: reductions | `Pencils`, `BenchJob` |
| Execution (U: `underling_execute_long_n{2,1,0}_to_long_n{1,0,2}`) | the plan, the caller's buffers, messages under way | four transposes, each a collective over `pA_comm` or `pB_comm` | `Underling` |
| Life of grids, problems and plans (U: `*_create`, `*_destroy`) | three communicators per grid, one more per transpose, an FFTW plan per transpose, heap blocks | three creations, three destructions | `Setup` |
| FFT layer (F) | layouts of complex and real fields, plans with reordering before or after | create c2c forward and backward, r2c, c2r and inverses; execute; destroy | `Fftw` |
| Benchmark, main loop (B) | fields, buffers, where every field is | ten stages forth and back, repeated | `Bench` |
| Benchmark, around the loop (B, `apps/mpi_argp.c`) | the terminal, the wisdom file and its lock, exit statuses | parse arguments, load and save wisdom, dump in turns, judge the error | `BenchJob` |
| Error handling, library init, C++ wrappers, test functions, printing, build, vendored gnulib | - | - | not modelled, see below |

Ranks share nothing.  They meet in MPI collectives (communicator creation,
broadcasts of block sizes, FFTW planning, reductions) and in FFTW's exchanges.
The caller owns the buffers; the library tells how many reals they need.  Errors
go to a handler and then return a code or NULL.  Jobs of the benchmark meet in
one file.

What is hard here:

* ranks run at their own pace through collectives over *different* communicators
  (rows and columns of the grid), so that progress is anything but lockstep;
* uneven and empty shares: sizes are rounded up to blocks, trailing ranks may
  hold less or nothing, and a transpose that is trivial must be skipped by
  exactly those whom nobody waits for;
* four storage conventions, in-place and out-of-place plans, packed and rotated
  layouts, buffers that change roles and are destroyed;
* every step of a creation may fail, on one rank or on all;
* the benchmark takes several fields through one scratch buffer;
* jobs read, empty and write one wisdom file at any time, and may be killed.

Correctness, per component: pencils tile the field and fit the memory asked for;
executing loses nothing, comes back where it started, and puts data where the
extents say; creation hands out whole objects only, destruction leaves nothing,
no rank waits for ever and no freed communicator is used; transforms leave data
where their extents describe it and touch nothing else; the benchmark keeps
fields apart, in its buffers and findable; its ranks agree and its wisdom
survives.  The hazards in `PROJECT.json` tie these to source lines.

## Modules

* **`Pencils`** - the arithmetic of `underling_problem_create` as operators on a
  problem record and a rank's coordinates: `Start`, `Size`, `Order`, `Stride`,
  `Extent`, the transposes `BackwardA`, `BackwardB`, `InverseTranspose`,
  `LocalMemory` and the queries made from it, and `Holds`, who has which element.
  FFTW's blocks and data movement (`DefaultBlock`, `LocalRows`, `Source`) are
  external.  No state.
* **`PencilTranspose`** - the abstract promise of executing: a rank's pencil is a
  function of its direction, and returning from a call needs every peer to have
  returned from all earlier ones.
* **`Underling`** - the four `underling_execute_*` on all ranks: `Refuse`
  (argument checks), `ExecuteNothing` (trivial plan), `Enter` (send), `Leave`
  (receive, store, return).  `prob` is `underling_problem_s`, `plan` the four
  `fftw_plan`s, `inPlace` is `plan->in_place`, `buf` the caller's memory, `net`
  the messages (per transpose communicator, sender and receiver), `script` and
  `done` the calls programs have made.  Implements `PencilTranspose` by the
  refinement `Promise`.
* **`Setup`** - the life of grid, problem and plan on all ranks: every call is
  the list of its steps (`GridCreate`, `ProblemCreate`, `PlanCreate`, `Destroy`);
  `Begin`, `Do` (local step), `Enter`/`Return` (collective), `ReturnEarly`
  (collectives that need not wait), `Fail` (one rank alone); `Cleanup` is the
  error path of each creation.  `shape` is `g->pA`, `g->pB`, `held` the live heap
  blocks, communicators and FFTW plans, `pointers` what creation returned.
* **`Fftw`** - what a program on a rank can do with `underling_fftw.h`: `Create`
  (any of four kinds), `Rotate` (a turn of
  `adjust_for_fast_stride_in_long_direction`), `Adjust`, `Settle` (checks,
  assertions, FFTW's answer), `CreateInverse`, `Fill`, `Execute`, `Destroy`.
  Layouts (`ComplexLayout`, `RealLayout`, `Contiguous`) and the dimensions handed
  to FFTW (`C2cParts`, `C2rParts`, `R2cParts`) follow the code; what FFTW does
  with them (`Reordered`, `Transformed`) is external.  A value is known by where
  it belongs on which line, and by the space, real or Fourier, that it is in.
  Nothing here communicates, so one rank suffices.
* **`Bench`** - the main loop: `Execute` (one field through one stage),
  `NextStage`, `NextIteration`.  `opts`, `o`, `f`, `j`, `m` are `d`, `o`, `f`,
  `j`, `m` of the code; `aggregate` is the sum it keeps in {0, 1}.
* **`BenchJob`** - jobs of several ranks around that loop: `Redirect`, `Parse`,
  `Restore` (`mpi_argp_parse`), `Open`, `LockShared`, `Import`, `Unlock` and
  `Reopen`, `LockExclusive`, `Export`, `UnlockExclusive`, `Close` (wisdom, on
  rank 0), `Plan`, `Enter`/`Leave` (the collectives of `main` in their order),
  `PrintDump`, `Flush`, `Abort`; `Launch` and `Kill` come from outside.
* **`MCUnderling`, `MCSetup`, `MCFftw`, `MCBenchJob`** - instances for TLC.
  `Bench` is its own instance.
* **`PencilsProofs`, `TransposeProofs`** (about the operators of `Pencils`),
  **`UnderlingProofs`, `PromiseProofs`** (about `Underling`, the one building on the
  other), **`FftwProofs`, `SetupProofs`, `BenchProofs`, `BenchJobProofs`** - theorems.

`Underling`, `Setup` and `Fftw` all extend `Pencils`: execution, planning and
transforms work on the same extents.  What `Setup` hands out is what `Underling`
starts from, what `Underling` leaves is what `Fftw` is given.

### What is assumed of the outside

Modelled from how the code uses it, and marked external:

* FFTW's default block is the ceiling of n / procs, block k of a matrix goes to
  process k, and `fftw_mpi_local_size_many_transposed` asks for at least both
  sides; a transpose stores column by column all rows, rows in global order (row
  by row of columns with `FFTW_MPI_TRANSPOSED_OUT`, and likewise for input);
* an out-of-place plan destroys its input (`FFTW_DESTROY_INPUT`), planning may
  overwrite both buffers;
* a guru plan does what its loops say, each line or element once; of two loop
  indices that meet in one address nothing can be said;
* FFTW planning fails on all members of a communicator or on none;
* messages between two ranks on one communicator keep their order and arrive;
  collectives complete when all members have entered the same one; a broadcast's
  root and `MPI_Comm_free` may return earlier; ranks that meet in different
  collectives may see anything, success included; `MPI_Comm_free` does not fail;
* `MPI_Cart_sub` numbers ranks by coordinate; `MPI_Dims_create` balances;
* MPI errors and `underling_error` return to the caller.  (With the default
  handlers both abort and the error paths are not reached.)
* `flock` is exclusive or shared among processes and dropped by the kernel at
  their end, or does not work on the file at all; stdio writes an export in
  parts, the last no earlier than `fclose`; importing wisdom takes all of a file
  or nothing; `dup`, `freopen` and `dup2` succeed.

## Runs

Deadlock is not checked: programs, jobs and loops end.

* **`data`** (`MCUnderling`, 90,000 states) - a 2 x 2 grid with one, two and
  unequal shares; two ranks in a row or a column in all four storage orders with
  interleaved fields, uneven blocks, fewer planes than ranks and single planes;
  three ranks of which the last is empty; no field at all.  In place and out of
  place, starting in each direction, all programs of up to four transposes at all
  interleavings.  `RoundTrip`: who is back in the starting direction finds all
  values in place.  `NothingLost`: with all ranks equally far every value is in
  exactly one place.  `OneMessageAhead`: never two messages of one sender on one
  communicator.  `LongWhenOrderKept`: data is where the extents say, on the grids
  of `KeepsOrder`.  `MemoryHoldsPencils`, `FieldIsShared`,
  `AddressesTellElements`, `QueriesAddUp`: the extents share out the field,
  address it without gaps, and the memory queries agree with them and each other.
* **`promise`** (`MCUnderling`) - on a full 2 x 2 grid and on an uneven row the
  exchange implements `PencilTranspose` (`KeepsPromise`), and a call that one rank
  makes is returned from by all (`EveryCallReturns`).  One call may have buffers
  that are NULL or do not suit the plan (`MaxRefused`): nothing moves, ranks stay
  in step.
* **`long`** - violated: `DataIsLong`, finding 1.
* **`life`** (`MCSetup`, 337,000 states) - one and two ranks with wishes for pA
  and pB from -1 to 2, and with all sizes of one and two planes; automatic shapes
  of three and four, empty shares of n0 and n2, an empty problem, refused arguments,
  transposes without a plan; and two ranks with up to two failures at any steps
  of either.  `OnLiveCommunicator`, `CollectivesMatch`, `PointersAreWhole`,
  `NothingElseLeaks`, `GridAligned`, `EveryCallReturns`.
  `CollectivesMatch` speaks of runs without failures of single ranks in which a
  transpose that FFTW has no plan for is trivial on all ranks or on none
  (`PlansFailTogether`): finding 3's request is otherwise a counterexample, the
  rank that goes on meeting others in a different collective.
* **`setup_thin`**, **`setup_noplan`** - violated, findings 2 and 3.
* **`plans`** (`MCFftw`, 228,000 states) - all four kinds of plans, their
  inverses and inverses of those, in and out of place, packed or not, in every
  storage order; a field and two; shares that start inside the field, empty
  shares, lines of length one, no fields; an odd number of reals, no problem and
  a direction that does not exist.  `DataWhereSound`: after any sequence of plans
  each value is where the extents of the last place it, and in the space the
  plans brought it to.  `PlansStayInMemory`: no loop of a plan leaves the local
  memory, padding included.  `BenchChecksData`: the benchmark's comparison reads
  data and never padding.  `ProperCreationReturns`: a proper creation ends.
* **`fft_inverse`** - violated: `InverseReturns`, finding 4.
* **`bench`** (`Bench`) - one to three fields, every mix of in-place and
  out-of-place stages, of transformed directions, forward, backward or both, two
  iterations: `StaysInBuffers`, `OneFieldFollowed`, `BackWhereFilled`.
  `OneFieldFollowed` is exact: a single field is in `f[o[0]]` with every stage
  applied in the iterations that start from it (`StartsFilled`), and in all others
  (backward only, or forward only from the second iteration on, over an odd number
  of moves) the stages work on the buffer that was left over.
* **`bench_fields`** - violated: `FieldsFollowed`, finding 5.
* **`job`** (`MCBenchJob`, 85,000 states) - two jobs on one wisdom file at any
  time relative to each other, of which one may be killed at any step; with locks
  that do not work; with a file that cannot be written; three ranks that dump and
  judge; wrong and empty arguments.  `DumpsInTurn`, `OneComplaint`,
  `SameWisdomEverywhere`, `UniformVerdict`; `KeptWhenAlone`: the file holds what
  every rank of every job found out as long as no job that uses the file is started
  while another one is running and not through with it, and none dies while saving;
  `EveryRankExits`.  (Jobs that overlap lose wisdom even when they save one after
  the other: each writes what it read before it planned.)
* **`job_wisdom`** - violated: `WisdomAccumulates`, finding 6.

### Bounds

`MaxCalls` 4 leads from n2 to n0 and back, so that each way, its inverse and each
change of communicator between consecutive transposes occur; `promise` has three
calls, with a refused one before, between or after.  `MaxRefused` is 1: refused
calls change nothing that a second could build on.  Two ranks per row and column
are the smallest grid with a peer in both; three show a rank left empty while
others are not.  In `Setup` each rank makes six calls, three creations and three
destructions; two failures let both ranks fail, or one fail in two calls.  The
requests of four ranks and one of three are refused their problem: their whole
lives are long, and what they add is the shape of the grid.  `Fftw` holds two
plans at a time (`MaxPlans`), a plan and its inverse or an inverse of that, and
transforms twice (`MaxExecuted`), there and back; further plans start from the
same extents.  Two iterations of `Bench` (`MaxRepeat`) show that an iteration ends
as it began.  `BenchJob` has two jobs of up to three ranks; with three there is one that
prints between two others.

### Fairness

`Underling` has weak fairness of `Follow(r)` for every rank: a rank whose program
has a further call makes it, and what was sent is delivered.  Programs are SPMD,
so a call that one rank makes is in the program of all; that a program makes a
further call at all is not assumed.  `Setup` has weak fairness of each rank's own
steps and of a collective that all members have entered; failures, early returns
and refused calls have none.  `Fftw` has weak fairness of the loop and of the
return of a creation that was begun, and of nothing else.  `BenchJob` has weak
fairness of each rank's steps and of rank 0's work on the file; weak fairness is
enough for locks because jobs are finite in number.  Launching and killing have
none.  `Bench` claims no liveness: its loops are counted.

## Findings

1. **`DataIsLong`** (`long`) - a rank's rows before the transpose over pA are its
   n0 planes times *its* share of n1.  FFTW numbers matrix rows by process, so
   after the transpose they come as (process, n0 plane, n1 line), not (n0 plane,
   n1), which is what `underling.h:247` and the strides say.  The two agree when
   pA = 1 or no rank has two planes of n0; over pB likewise with n2.  Round trips
   are unaffected, and the tests test those only.
2. **`GridAsDocumented`** (`setup_thin`) - the check of n2 >= pA tests n0 and pB
   again.
3. **`EveryCallReturns`** (`setup_noplan`) - when FFTW has no plan for a transpose
   that is trivial on one rank of the other communicator, that rank goes on to
   plan and waits for ranks that have given up.
4. **`InverseReturns`** (`fft_inverse`) - an inverse that could not be created is
   dereferenced by the comparison of extents that follows (F:1057).
5. **`FieldsFollowed`** (`bench_fields`) - with several fields an upward move in
   ascending order overwrites fields before they move.
6. **`WisdomAccumulates`** (`job_wisdom`) - the file is emptied before the lock is
   asked for, not read again, and flushed after the lock is given up: jobs that
   overlap lose each other's wisdom.

Seen while modelling, without a run of their own:

* With `UNDERLING_TRANSPOSED_LONG_N0` FFTW leaves the data as (n2, n0, n1), n1
  fastest, where `underling.h:778-779` and the strides (U:877) have (n0, n1, n2).
  They agree when no rank has two planes of n2; `KeepsOrder` says so.
* `|` for `&` in the tests of the transpose flags (U:1224): all transposes are
  always planned and executable, `underling.h:639-642` notwithstanding.
* `underling_extents_cmp` (U:167-184) is a `memcmp`, on little-endian machines
  not the lexicographic order of `underling.h:138`.
* `underling_local_memory_optimum` reads through a NULL problem where its
  documentation promises zero; the product in U:1080 is computed in int.
* Under `UNDERLING_EXTENTS_INVALID` (a NULL problem or an improper direction, with
  a handler that returns) the rotation never ends (F:241); `ProperCreationReturns`
  is about the others.
* An inverse in place of an out-of-place plan with rotated or packed data is
  created but mixes lines up; `Sound` excludes it from `DataWhereSound`.
* `underling_problem_create` loses its block on a rank where one of its two
  broadcasts fails (U:910, U:917; the FIXME at U:759 admits it).
  `NothingElseLeaks` allows that, on that rank (`brokenOff`), and nothing else:
  every other failure frees everything, the problem included.
* The benchmark starts all fields of a backward run in one buffer (`o[i]` is set
  without `i`, B:995); `OneFieldFollowed` is about one field.
* A backward-only benchmark over an odd number of moves starts in the scratch
  buffer, the later iterations of a forward-only one in the buffer that the first
  iteration left: their stages never see the field.  `OneFieldFollowed` says
  exactly when, and `FieldsFollowed` is about the other runs.
* After creating the problem the benchmark asserts the grid once more (B:683),
  plans are not checked for NULL, `--nfields 0` uses arrays of length zero.
* A job killed between `fopen(..., "w+")` and `fclose` loses the wisdom of all
  earlier jobs (B:833-845); `KeptWhenAlone` excludes it through `disturbed`.

## Proofs

For every value of the constants, from the assumptions the modules name.

**`PencilsProofs`**, for any `WellFormed` problem (positive sizes and processes,
any number of fields), on every rank and in every direction:

* `PencilFits` - the extent of the pencil is at most the local memory.  A block of
  the default size is at least any rank's share (`LocalRowsType`) and equal to
  that of rank 0 (`RootHoldsBlock`), whose block sizes all ranks use; scaling rows
  and blocks scales shares (`LocalRowsScale`); hence rows of a transpose are lines
  of the pencil (`RowsAreLines`), its columns the share of the other direction
  (`ColumnsAreShares`), and local memory is at least either side.
* `PencilsTile` - each element of the field is in exactly one rank's pencil: the
  blocks of a direction tile it (`BlocksTile`), and a rank has one coordinate per
  direction that is split.

* `LeastNumber` - a set of numbers that is not empty has a least one.  It follows
  from the well-foundedness of strict inclusion on finite sets, and stands in for
  the induction theorems that the provers cannot instantiate.

**`TransposeProofs`**, for any `WellFormed` problem:

* `PullsGoBack` - each address of a pencil is filled from one address of one
  peer's pencil, and the inverse transpose fills that one from here.  An address is
  a field and a cell, a cell a row and a column; each of the two divisions is
  undone by a multiplication (`Source` with rows and columns of all four flags).
* `HeldGoesBack` - the same of going some way with two transposes and back.
* `AddressesApart` - the element placed at an address is one that the rank holds,
  and two addresses place two elements: strides are products of the sizes of the
  faster indices, in any order of them.

**`UnderlingProofs`**, for all sets of problems, buffers, bounds:

* `TypeCorrect` - `TypeOK` is inductive because it has `InsideByCall`: the call a
  rank is inside of is in the script and was accepted, without which `Leave` could
  not be shown to store into a buffer.
* `MemorySuffices` and `FieldShared` - `MemoryHoldsPencils` and `FieldIsShared`, from
  `TypeCorrect` with `PencilFits` and `PencilsTile`.
* `MessagesStayApart` - `OneMessageAhead`.  Not inductive: that a second message is
  not sent follows from the shape of the whole program.  `MInv` adds that calls
  chain, each starting in the direction the last led to (`Chain`); that after going
  a way the data stays on its far side until the inverse call (`Far`); that who has
  returned from a transpose has heard from all peers (`Heard`); and that what is
  under way is what was sent and not yet taken (`UnderWay`).  Between two calls of
  one way lies a call of the inverse (`BackBetween`), over the same ranks; nobody
  returns from that before the peers have come to it, so two messages cannot be
  pending (`SinglePending`).  TLC checked `MInv` on the instances first.

**`PromiseProofs`**: what buffers and messages contain, by `DInv`, which extends
`MInv`: plans have settled what they pull (`PlansPull`); each accepted call takes
the data from the buffer the last one left it in (`BufferChain`, `BufferHere`); a
rank holds what its direction says (`DataHeld`); and a message under way is the part
of it that the receiver pulls from the sender (`Carried`).  It is needed as a whole:
that `Leave` stores the right values needs the messages, and that these are right
when they are sent needs the data, in the right buffer.  From it follow

* `TransposesKeepThePromise` - `KeepsPromise`, the refinement of `PencilTranspose`:
  `Leave` and `ExecuteNothing` are steps of the promise, all others stutter;
* `RoundTripRestores` - `RoundTrip`, with `HeldGoesBack`;
* `NothingIsLost` - `NothingLost`: what all ranks hold is a rearrangement of the
  field, `Held` being one to one;
* `StridesTellElements` - `AddressesTellElements`, with `AddressesApart` and the
  fact that as many elements as addresses leave none out;
* `QueriesAgree` - `QueriesAddUp`: a sum over the ranks counts pairs of a rank and an
  address (`Counted`; `SumCounts` by a smallest set of ranks whose sum is wrong), and
  `ElementAt` maps those of a direction one to one onto the field (`PencilsHoldField`,
  with `PencilsTile` and `AddressesApart`);
* `DataLongWhenOrderKept` - `LongWhenOrderKept`: on the grids of `KeepsOrder` FFTW's
  numbering of rows and that of the strides agree, by cases over the four ways and
  the storage orders.

`JunkAssumption` of `Underling` says that what nobody wrote is none of the values,
as a model value is.

**`SetupProofs`**, for any requests, numbers of ranks and failures: `TypesStay`,
`CollectivesOnLiveCommunicators`, `PointersStayWhole`, `OnlyTheKnownLeak`,
`GridsAligned`, `CollectivesAgree`.  The properties speak of ranks between calls or of single steps; the
invariant `IInv` says what a rank has at each step in between.  Who is in a call is
either `Creating`, at some step of the creation and holding what the steps before
it acquire, or `Freeing`, with each resource left of the object freed once by what
remains to do; pointers are to whole objects (`Owns`), and of others there is
nothing but the known leak (`Clean`).  That the parts a creation acquires are those
that its destroy function frees, and that each collective of a creation is on a
communicator which is there by then, is a fact about the lists of steps
(`GridCreateSound`, `ProblemCreateSound`, `PlanCreateSound`); that every error path
frees what there is (`CleanupClears`) is the step the leak was found at: only a
failed broadcast leaves anything.  `TypesStay` needs `Chain` besides, that a plan
lasts no longer than its problem and a problem no longer than its grid.
`GridsAligned` needs that a most balanced grid exists (`BalancedDimsExist`, by
`LeastNumber`).

`CollectivesAgree` - `CollectivesMatch` - relates what two ranks have done, and has
an invariant of its own on top of `IInv`.  `Script` lists the collectives of a rank's
whole life on a communicator, as the arguments alone determine them: a grid that fits,
a problem that is not refused, and for each transpose whether the rank comes to plan
it, which the first transpose without a plan ends.  `HInv` says that, without failures
of single ranks, what a rank has entered is its script up to what is still `Pending`
(`Recorded`); for that it says what the calls so far have made (`Succeeds`) and what
they could begin from (`Grounds`).  `PlansFailTogether` then makes the scripts of the
ranks of a communicator equal (`ScriptShared`), since a transpose is trivial on all of
them or on none, and two beginnings of one list agree (`RecordsAgree`).

TLC checked `IInv` and `HInv` on the instance first.

**`BenchProofs`**, for any number of fields and iterations: `LoopTyped`,
`LoopStaysInBuffers`, `LoopFollows`, `LoopReturns`.  The moves are 0, 1 or -1 and
their aggregate stays in {0, 1} (`AggregateStays`).  `IInv` says where each field is
meant to be as a function of the stage (`Located`), and of a single field, also in the
middle of a stage, either that it is `Here` and all other buffers are junk, or that
both `Here` and where the next iteration starts there is junk (`SingleFollowed`): what
an iteration has lost no later one finds again.

**`BenchJobProofs`**, for any jobs, numbers of ranks and scenes: `JobTyped`,
`DumpsTakeTurns`, `ComplainsOnce`, `WisdomIsShared`, `VerdictsAgree`, `WisdomKept`.
All rest on `Synchronous`: ranks of a job are at most one collective apart, and one that is
behind is waiting inside it.  With it, `Turns` ties who prints and what is shown to
the barriers completed, `Verdicts` makes the exit status a function of the scene
and the collectives completed, `Knowledge` says that what is known of other jobs
comes by the broadcast, and `Silence`, `EarlyFirst` and `Complaints` order what
precedes the first collective.

`WisdomKept` - `KeptWhenAlone` - needs an invariant of its own, `WInv`.  Who has
planned has found out something (`Planned`) and rank 0 has gathered it all when it
saves (`Gathered`); as long as no job is started while another one is not through with
the file and none dies while saving (`~disturbed`), whoever saves lives to
close the file, who has read it knows what all savers before found out, a file that
is being written has what its writer has written so far, and one that nobody is
writing is empty, when there are no savers, or whole (`Undisturbed`).  It goes through
every step on the file, by the job itself or by another, launches and kills.
`HoleAssumption` says that a gap in the file is no knowledge.

**`FftwProofs`**, for any problems, ranks and buffers, and requests the checks let
pass or not: `TypeCorrect`, `PlansWithin`, `DataStaysDescribed`, `BenchReadsValues`.  What they rest on is
`IInv`: the layouts of a plan are those of the pencil with complex or real fields in
some order of the three directions (`ComplexOf`, `RealOf`, `Sides`), a plan is what
`PlanFor` makes of its layouts, and a creation under way has turned the directions of
the pencil some number of times (`FitMaking`) or has nothing but invalid layouts
(`UnfitMaking`).  It is inductive because a rotation permutes the directions, removing
gaps from a layout yields the one that has been without them (`ContiguousListed`,
`ContiguousComplex`, `ContiguousReal`), and the inverse of a plan swaps its two sides.

A plan that is sound takes its input layout to its output in at most three stages
(`Stages`, `SoundStages`): a reordering, lines that are transformed, another
reordering.  In between lie complex layouts and, for real data in place, one with the
parts of all fields of a place apart (`ApartOf`).  All of these are `Laid`: rows of
places in the local memory, with an address of its own for each value (`ComplexLaid`,
`RealLaid`), since 2 (n - 1) real values are no longer than n complex ones
(`LengthIs`) and the extent is at most the local memory by `PencilFits`.  The loops of
a stage visit exactly the addresses of the two layouts it goes between (`FiveVisit`
and `FiveReach`, `ThreeVisit` and `ThreeReach`).

* `PlansWithin` - `PlansStayInMemory`: what a stage touches are addresses of one of its
  two layouts (`StagesStay`).
* `DataStaysDescribed` - `DataWhereSound`.  A reordering takes every value from its
  address in one layout to that in the other (`ReorderingMoves`), a transform every
  line of values to the line of the other space (`TransformMoves`), and in place no
  line is written where another is read (`OneLine`): rows of real values and of complex
  ones with their parts apart are the same rows, which is what `Sound` is about
  (`RowLine`).  So a plan moves the data to where its output describes it, one space
  deeper or less deep (`StagesMove`, `ExecutedMoves`).  The invariant is `DInv`: on top
  of `IInv`, buffers have contents for all of the local memory, and the data that went
  through sound plans is held where its layout says.
* `BenchReadsValues` - `BenchChecksData`: an address is a row and a place on it
  (`RowsAddress`), and the remainder that `check_field` takes is that place.

`JunkAssumption` of `Fftw` says that contents nobody can rely on are no value, as a
model value is none.

### Model-checked only

* All liveness: fairness and `ENABLED` are out of the prover's reach
  (`ProperCreationReturns`, and the termination properties of the other modules).

Every invariant and action property of the passing runs is proved.

## Not modelled

* Error handling (`error.c`): one handler pointer, no concurrency; every module
  takes the handler that returns, which is the hard case for its callers.
* Library initialisation and cleanup: FFTW's own, once, without state here.
* The C++ wrappers: one call of the C function each, ownership follows scope.
* Printing of extents and plans, timing, units and the parsing of single options,
  the numbers in the periodic test functions: no state that outlives them.
* FFTW's rigor flags, which are passed through.
* The debugging dump in plan creation: its barriers run only when a debugger sets
  `debug_comm`.
* int and size_t keep no width: the products that overflow (U:1080) are beyond
  what TLC's own integers hold.
* Tests, build system, documentation sources and gnulib.  gnulib's argp, getopt and
  printf replacements are five sixths of the lines of this repository and no part
  of underling; the project's own C and C++ is about 5,500 lines, and the map has
  what of it keeps state or computes layouts.
