# PIMProf in TLA+

PIMProf decides which basic blocks of a program should run on the CPU and which
on a processor in memory (PIM). This directory holds TLA+ modules that model its
core, TLC configurations that check them, and proofs that TLAPS checks. Line
numbers are those of `src/`.

## The system

A profile is made and used in three stages.

1. An LLVM pass (`LLVMAnalysis/AnnotationInjection.cpp`) puts a start and an end
   call around every basic block. A second pass (`OffloaderInjection.cpp`) makes
   a binary whose calls also say on which site the block is to run.
2. The program runs in the Sniper simulator, which is outside the repository.
   Sniper owns one `ThreadStats` (`PIMProfSolver/Stats.h`) per thread and calls
   it for every annotation, every charge of time and every cache access. At the
   end it merges, numbers and prints what the threads collected.
3. The solver (`CostSolver.cpp`) parses two statistics files, one of a CPU run
   and one of a PIM run, and a reuse file, and searches for a cheap decision.

| Component | State | Operations | Interacts by |
|---|---|---|---|
| Collector, `ThreadStats` | two stacks (block, site), counters per block, switch matrix, one open segment per cache line tag | `BBLStart/End`, `OffloadStart/End`, `Add*`, `InsertSegOnHit`, `SplitSegOnMiss` | calls from Sniper; owns a reuse trie |
| Reuse trie, `DataReuse.h` | nodes with counts, vector `_leaves` | `UpdateTrie`, `ExportSegment`, `SortLeaves`, `DeleteTrie` | pointers shared by several roots through `_leaves` |
| Report and parsing | merged map, ids, text files | `MergeStatsMap`, `GenerateBBLID`, `AssignBBLID`, `Print*`, `ParseStats`, `ParseReuse` | text files, one section per thread |
| Cost | none | `Cost`, `ReuseCost`, `SwitchCost`, `ElapsedTime` | reads a decision and a trie |
| Reuse search, `PrintReuseStats` | decision, running total, partial trie, best so far | scan, permute, fill, flip | changes `_leaves` while it walks it |
| Other strategies | none or a decision file | MPKI, greedy, SCA, CTS, `Debug_*` | a decision per strategy |
| Clustering | union-find, pairs of blocks | `TopReuseBBPairs` | corrects the decision of the static-analysis file |
| Driver | command line | `initialize`, `PrintSolution`, `PrintDecision` | runs the strategies |
| Cache model, `Storage.cpp` | sets of each cache of each site, statistics, costs by block, open segments, a reuse trie | `ReadConfig`, `InstrCacheRef`, `DataCacheRef` | called by the Pin front end; part of an earlier collector that is no longer compiled |
| Pin front end, `PinInstrument.cpp`, `Simulation.cpp` | one `CostPackage` for all threads under a read-write lock | start and end of threads, six magic operations, callbacks of instructions | Pin calls it in the program's threads |
| LLVM passes | hash of a block, decision map | injection of calls, `initDecisionMap`, lookup | the binary; the solver's report |
| VTune runtime, `PIMProfAnnotation.cpp` | the last call, a domain per block | `PIMProfVTuneAnnotation` | calls from the binary |

In the present collector and in the solver sequence and aliasing are hard, not
concurrency: threads share no `ThreadStats`, and the solver is one thread. In the
earlier collector all threads share everything, and change it under a lock that
they hold for reading. The hard behaviours are
calls that do not nest, `back()` of a vector that was just popped, a switch
matrix filled from the block started last and not from the stack, a segment
whose stale head survives `clear()`, sets ordered by pointer in one process and
by id in the other, one leaf vector shared by tries that come and go, loops that
leave an index one past the end, totals that must follow a decision changed
in place, callbacks of several threads that read a word before another one
writes it back, vectors that grow while another thread indexes them, and caches that are charged for one thread in the name of all. `PROJECT.json` lists these hazards at their lines.

What makes each component correct:

- Collector: the blocks and sites stacked agree, a charge goes to a known block,
  switch counts are the edges of one path, crossings agree with the site.
- Reuse trie: it counts exactly the segments of the access chains, and every
  leaf is listed once.
- Report: ids agree between threads and with the order in which times are
  stored, and no count is lost on the way.
- Clustering: blocks are together exactly when heavy pairs connect them, and each
  cluster is counted whole and put on one site.
- LLVM passes: the calls injected nest as the program does, whatever it is, and
  every block finds the decision made for it.
- VTune runtime: VTune is told of the frames the program is in.
- Caches: each keeps the lines used last, every access is looked up once at each level it
  reaches, and the segments are those of what the caches hit and missed.
- Pin front end: one thread at a time uses the caches, in the name of those that
  run, no charge is lost unless a new block met it, and shared state follows the threads' own
  calls unless two calls met.
- Driver: it comes to an end, and lists the blocks that are worst placed.
- Search: it ends, never leaves its arrays (or only in cases we can name), and
  the total it reports is that of the decision it returns.

## Modules

**`ReuseTrie`** has the operators of `DataReuse.h` on values. A segment is a
record, a trie root the set of its node paths with the count of each leaf. Since
`_leaves` belongs to the `DataReuse` object and not to a root, it is a variable
of the modules that use the trie. `Rank` is the order in which `std::set`
iterates: addresses in the collector, ids in the solver.

**`ThreadStats`** has one action per public operation of the class that changes
its state. `EnterBbl` and `LeaveBbl` are the bodies of `BBLStart` and `BBLEnd`,
which `OffloadStart` and `OffloadEnd` call. `Offloaded` says which blocks have
offload calls and which the plain ones: no block has them in a binary for
profiling, and in an offloading binary all that are bracketed have them but main,
which has the plain calls when it stays on the CPU (`OffloaderInjection.cpp:196`).
A failed assertion
sets `aborted`, which ends the process. `back()` of an empty `vector<bool>` is
undefined, so `SiteAfterEnd` allows both values. The `RunStats` that
`last_begin_bblstats` points to at first is in no map; it is `Phantom`. Sniper's
own code is external: `CallStep`, `TickStep` and `ReuseStep` let it make any call
at any time. `starts` and `chain` are history variables.

**`ReuseChains`** is the abstract specification of reuse: it keeps the whole
chain of accesses to each line and defines the segments as what lies between two
cuts. It has no trie, no leaves and no open segments. A segment weighs as much as
its heaviest access: always one in `ThreadStats`, the number of threads an access
stands for in `Storage`. Both implement it.

**`Storage`** is the cache model. `hierarchy` is what `ReadConfig` makes of a file:
for each site the levels it has, each with its policy, sets, ways and cost.
A set of an `lru` cache is the list of its lines, latest first (`Found` and
`Replaced` are the splices of `Storage.h:267-345`); a set of the other two is an
array with the index of the next victim. An access goes down the levels while
they miss and allocate (`Reached`), and `AccessSingleLine` is that whole descent:
sets, statistics, costs and segments of all levels on the way. `InstrCacheRef` and
`DataCacheRef` send one reference through the CPU's levels and then the PIM's. A
site without caches (as in eight of the configurations, `floatpim` and `drisa`
among them) gives `InstrCacheRef` an object that is not a cache, whose line size it
reads; `FetchOutcomes` allows what can come of it, none, one or two accesses of
memory. `recency` and `chain` are history variables. Lines are those of a file in
which all levels agree on them; every configuration has 64 bytes.

**`PinFrontEnd`** is what calls it. A callback is two steps: it takes the lock and
reads what it will change (`HeadEnter`, `RoiEnter`, `ReferenceEnter`...), then
writes that back and releases the lock (`DoAtAnnotationHead`, `DoAtROI`...). Others
that hold the lock for reading may do the same in between, so an update may be
lost: that is what the data races of this code can do to a word. A
`vector<bool>` is one word. A block seen for the first time makes the hash map and the
vectors of costs grow, also under the lock for reading (`CostPackage.cpp:24-56`), while another
annotation searches the map or a charged reference indexes the vectors
(`Simulation.cpp:62, 86`, `Storage.cpp:192, 201`). That may end the program (`GrowthRace`), and
what `InstructionCount` adds may go to a copy that nobody reads (`Charge`, `GrewBeside`). A test of
`_roi_decision.empty()` beside the growth reads two pointers that may be of two moments; once the vector
has an element it stays non-empty, and in the model the test has the options' answer. A thread without a slot reads
past a vector (`OutOfBounds`). What two observers of `_thread_count` do to the caches is the
module `Storage`; `PinFrontEnd` says who calls it and when. The state is that of the
declarations which `CostPackage.h:33-108` has as comments and the initialisation in
`CostPackage.cpp:24-56`: these files are not in the build any more, and
`PinInstrument.cpp:32` would not compile. `open`, `inside`, `overlapped`,
`overtaken` and `charged` are history variables.

**`ProfileReport`** extends `ThreadStats` with the end of the simulation and the
solver's parser. Threads are merged, numbered and parsed one by one in any order.
The text files are not modelled character by character: a printed line is a
record, and what printing does to the data is (blocks in address order, ids for
blocks, zero rows left out, the phantom block printed as block 0). Parsing
overwrites a switch row that an earlier thread's section had inserted.

**`OffloadCost`** has the cost functions. Costs are integers in nanoseconds.

**`ReuseSearch`** follows `PrintReuseStats` and the two functions that repeat its
text for a single initial decision, `Debug_HierarchicalDecision` and
`Debug_StartFromUnimportantSegment`, of which the second does not widen segments
(`widens`) and is called by nothing: `Scan` finds the node to start from,
`TryBatch` is one iteration of the loop over leaves, `Fill` places what is left,
`Flip` is one iteration of the sweeps and `Keep` compares with the best run.
Where the code would read outside `_leaves`, a deleted leaf or a row that does
not exist, `phase` becomes `undefined` and the search stops.

**`Partition`** is the abstract specification of a disjoint set: classes of
blocks, of which two at a time become one. **`BlockClusters`** has the decision
read from the static-analysis file and its correction: the movements that
`ParseReuse` sums, the union of the heavy pairs (`UnionPair`), the counts of each
cluster (`CountBlock`) and the sites (`DecideBlock`). `Found` is what `Find` does
to the parents, path halving included. The sorted
vector of pairs is a set from which the lightest is taken; equal costs may come
in either order.

**`SolverRun`** is the driver: command line, opening of files, alignment of the
two sites' statistics, the strategies in the order of each mode and the report's
list of misplaced blocks. The reuse search appears in it as any decision at all,
or as undefined behaviour; the corrected static decision, which the code
computes and drops, only as the read of the first pair. Ids are positions among
the blocks of the CPU run, so blocks that only the PIM run knows do not exist in
the model, as they do not in the aligned vectors.

**`AnnotatedProgram`** is what surrounds the collector: functions made of blocks,
what the passes inject into them (`InjectBlock`, `InjectFunction`, in the order
of `RunOnModule`) for each mode and each decision, and a machine that executes
the result. The machine (branches, calls, returns, exceptions) is external; the
calls it reaches are the actions of `ThreadStats` or, for VTune, of
**`VTuneAnnotation`**, the runtime that drops a call which repeats the one before.
The hash of a block is a number, chosen so that two equal blocks of two functions
have one when the key leaves out the function. `unwound` and `recursed` are
history variables; an exception that nobody catches ends all threads and counts as `unwound`.

**`DecisionLookup`** is the way of a decision from the table of the solver's
report into `decision_map` and out of it. A line is its fields; what a stream
extraction makes of a number with a fraction, and of a header, is modelled. The
lists that follow the table in the report are left out: they add more lines of
the same two kinds.

The `MC` modules give values to constants.
Operators named `Mut...` are what a plausible bug would make of the definition
that follows them. They are not used by any specification; each property of a
passing run is known to fail when its operator is put in place.

`ProfileReport` builds on `ThreadStats` (EXTENDS), both use `ReuseTrie`
(INSTANCE with different elements and orders), and `ReuseSearch` builds on
`OffloadCost`, as does `SolverRun`. `AnnotatedProgram` composes a program with
`ThreadStats` and `VTuneAnnotation`; its steps use their actions as they are. `BlockClusters` stands alone; its classes
are substituted into `Partition`. `ThreadStats` and `Storage` share `ReuseTrie` and `ReuseChains`.
`ReuseSearch` does not start from `ProfileReport`: its profiles
are written down in `MCReuseSearch`, in the form `ProfileReport` delivers.

## Runs

| Run | Question | Bounds |
|---|---|---|
| `ThreadStats.cfg` | Do stacks, switch counts and crossings agree? Does the trie implement the chains, and is each leaf listed once? | 1 thread, main with plain calls and 2 offloaded blocks, 2 tags, at most 7 calls, ends unbounded, depth 3: 5 starts, or 2 starts and 5 accesses |
| `ProfileReport.cfg` | Does the profile reach the solver intact? | 2 threads, 3 blocks, 1 tag, at most 6 calls in all: 4 accesses and a charge, or 2 charges |
| `ReuseSearch.cfg` | Does the search end with a total that is right? | every profile of 3 blocks with up to 2 segments, 5 paths, 8 time vectors |
| `BlockClusters.cfg` | Does the union-find keep a partition, and is each cluster put on one site? | 4 blocks; paths of up to 3 starts with up to one segment for 3 static decisions; 2 longer paths for all 256 |
| `SolverRun.cfg` | Which runs in reuse mode reach the end, what does the sweep keep, what is listed? | every command line; 3 blocks, 72 profiles, with and without a main, 28 decision files, 8 configurations |
| `AnnotatedProgram.cfg` | Can the receivers follow the calls injected? | 2 functions of 8 blocks; 4 modes, and every decision on 6 keys and main; 4 frames, 10 starts, 5 open frames of a domain |
| `CacheModel.cfg` | Do the caches keep the lines their policies say, look each access up once per level and cut the chains where they should? | 2 hierarchies (three and two levels of caches at the CPU, one and none at the PIM), 14 references, 5 of them made |
| `PinThreads.cfg` | What stays true of shared state under a lock for reading? | 3 threads, 2 blocks, 3 callbacks, 2 open annotations, all command lines |
| `UnwoundBlocks.cfg` | Do the ends match the starts, as asserted? | as `AnnotatedProgram` |
| `DecisionLookup.cfg` | Does every block find its decision? | 2 blocks and main, every decision, 4 pairs of times for each |
| `MpkiMode.cfg` | Does the mode `mpki` generate a decision? | as `SolverRun` |
| `StaticDecision.cfg` | Is a static decision of CPU followed where the rest are followers, as commented? | as `BlockClusters` |

Eight pass. `UnwoundBlocks`, `DecisionLookup`, `MpkiMode` and `StaticDecision` are violated: those are disagreements between what is written
and what the code does, listed under findings.

*Why these bounds are enough.* Collectors share nothing, so one thread shows all
a collector can do. `FocusedSpec` keeps behaviours with many calls apart from those that access cache lines:
calls do not read what accesses write, and a segment reads of the calls only the block on top, so
two starts of two blocks on one site show what reuse depends on. Counters are charged in
`ProfileReport.cfg` only, where they have readers; there, too, a second charge, perhaps of the same block by the other
thread, excludes accesses, which have other columns. Three blocks (one of them the region outside main) are the fewest with which a
segment's address order, id order and insertion order all differ. Five accesses
to a line give a store, a split by a miss, a stale head and a leaf that is
counted twice. Two tags are needed for a leaf reached from two lines. Threads
meet only in the report, where two of them suffice for a block known to one, to
both or to none. In the search a `BatchSize` of 3 replaces 10 so that a segment
of three blocks is too long, and a threshold of 1 replaces 1/1000 so that counts
1 and 40 fall on both sides of it. Four blocks are the fewest that give a forest
deep enough for path halving to move a block past another, and three switches
with a segment give pairs of every kind: with itself, heavy, light and equal. In
`SolverRun` three blocks suffice for one that is always on the CPU, one that is
main and one the PIM run never met; `IntMax` of 1000 ns puts totals on both
sides of it, and a first threshold of 100 is divided down to 0, where the code's
reaches the same comparison after some hundred passes. The program has a loop, recursion, an exception that
is caught two frames down, one that a landing pad resumes and one that is not caught, and equal blocks in a caller and
its callee; four frames let all of them meet. The two hierarchies have all policies, one to
four sets, one to three ways, a cache that does not allocate stores and a site without caches; five references fill
a set of three ways, use it and replace in it, and bring a line into one level that another has dropped. With three Pin threads there is one
that is charged, one that is not and one that comes late or overtakes; three callbacks
let two of them meet while a third one depends on the outcome. The references
and the callbacks bound only how many there are: which, by whom and in what
order is free. Symmetry is used for tags, threads and blocks, but not for Pin's threads, whose
numbers matter, and in no run that checks liveness.

*Fairness.* `ReuseSearch` and `SolverRun` state it: weak fairness of `Next`. The
solver is one thread, waits for nothing and takes no lock, so it makes its next
step. `BlockClusters` needs none: that `Find` ends is the invariant `ParentsEnd`.
`ThreadStats`, `ProfileReport`, `AnnotatedProgram`, `Storage`, `PinFrontEnd` and
`DecisionLookup` state none, since nothing obliges a program to
make another call. Deadlock is not checked: the program ends, the process aborts
or the solver is done.

## Results of the runs

- `ImplementsReuseChains` is the refinement: what the leaves of a thread's trie
  say is what the chains say, whatever the pointer order. Two details that look
  wrong are harmless: `clear()` keeps the stale head, and the leaf is keyed by a
  block that is already on its path.
- `SwitchCountsFollowOnePath` holds although the phantom block of `Stats.h:146`
  takes the first switch. It is printed as block 0.
- `SwitchRowsSurviveReport` states what survives and what does not:
  `interBB_REG_DM` adds up all threads, the switch list keeps a row of the last
  section that had it.
- `UndefinedOnlyIfUnlisted` names the profiles for which the search reads outside
  its arrays: no segment is below the threshold, or a segment holds a block whose
  id is above that of every block switched from.
- `ImplementsPartition` and `CountsCoverClusters` hold although roots are found
  while `Find` still rewrites the forest: halving changes parents, never roots.
  What the counts then decide is not what the comment says of a cluster of one
  (`FollowsStaticDecision`): half of one, rounded down, is no PIM block at all, so
  a loop block decided for the CPU moves to the PIM.
- `EndsOnlyIfMisplaced` and `MisplacedIsFound` together say when the solver comes
  to an end in reuse mode: if and only if the decision file misplaces a block. A
  file that agrees with the times makes the report loop for ever.
- `MpkiModeDecides` is what `README.md:70-75` of the repository says of the mode `mpki`, that the
  solver generates a decision. It does not: the report reads the decision of the `-t` file next to it, which only
  reuse mode has read (`CostSolver.cpp:338, 461`). So does the mode `debug`, which that page does not name.
- The command line: `README.md:81` of the
  repository shows a command without `-s` and `-t`, which `Util.cpp:91` answers
  with the usage, and `README.md:75` a mode `para`, which `Util.cpp:74` aborts. A threshold
  that is no number makes `std::stod` throw (`Util.cpp:43`), which ends the process.
- `SweepKeepsFirstCheapest` holds with a proviso: the best starts at `INT_MAX`
  nanoseconds, 2.1 seconds of program time, and a longer run leaves no result.
- `AbortsOnlyAfterUnwind` and `OpenCallsFollowProgram` discharge what `ThreadStats`
  assumes nothing of: calls nest in every program that throws no exception out
  of a started block, since main's calls are injected last and end up outermost,
  and since equal hashes are open on the stack together without harm. If an
  exception does leave a started block, the next end aborts (`EndsMatchStarts`).
- `FramesFollowProgram` needs that no function calls itself. If `f` calls `f` and
  then `g`, the inner begin is dropped and both ends are passed on. No document
  promises otherwise, so this is no finding.
- `BlocksFindTheirDecision` fails for every block: the reader expects the table
  of an earlier report, which the solver has as a comment (`CostSolver.cpp:345-385`),
  and looks blocks up without the hash of their function.
- `OneThreadIsCharged` is why the caches, which have no lock, see no two
  threads at once: the count of threads cannot change while a callback holds the
  lock for reading, and it names one thread. The name is fixed, though: thread 1,
  as soon as there are two. If thread 1 has finished while 0 and 2 go on,
  no thread is charged, against the comment on `Simulation.cpp:78`.
- The rest of the shared state has no such protection. `CostPackage.h:45` says the
  lock protects everything in its region, yet what `HandleMagic` changes there it
  changes under a lock for reading. `AnnotationsFollowCalls`, `RoiFollowsCalls` and `FailsOnlyAfterRace`
  say how far the damage goes: only callbacks of the same kind that met, a
  thread that overtook another's start, or a block seen for the first time by one thread while
  another was charged. For the last, one annotation beside one counted instruction is enough.
- `ChargesAreKept` says that such a growth is the only thing that loses a charge: `+=` on the costs
  is no atomic operation, but no other thread is charged between its read and its write. The sums that
  `AddMemCost` makes of memory costs are written the same way, and are not in `PinFrontEnd`.
- `ImplementsReuseChains` of `Storage` says what `PIMProfSolver/README.md:12` says
  of chains, with two details that the words leave out: the access that brings a
  line in belongs to no segment, and a region outside main does not extend one.
- `LastFetchedLineIsResident` holds because only fetches enter `IL1` and the last line
  is the one used last. The caches are not inclusive, though the comment on
  `Storage.cpp:279-280` says so: a line stays above after it was replaced below.
- The search keeps its promise about totals (`TotalFollowsDecision`,
  `ResultIsCheapestRun`) but not the comment about
  the minimum: it may return a decision dearer than no offloading. Nor does it keep
  three other comments: the scan stops on the first leaf below
  the threshold and does not skip it (`CostSolver.cpp:1148`), a partial trie with
  segments too long to be permuted is priced while their blocks are unplaced
  (`:1450`), and two sweeps of flips are made, not as many as it takes (`:1224`).

## Proofs

Each module of proofs extends the module it is about, except `FiniteSums`, which
has the lemmas that the others share: induction over numbers and finite sets for
sets that are written out (`AllNumbers`, `AllFiniteSets`), the first element of a
strict total order on a finite set (`FirstExists`) and with it the least and greatest
number (`LeastAndGreatest`), the one list of a finite set in the order of a rank (`SortedExists`, `SortedHasAll`), and what `SumFunction` makes of a function that is
extended, changed at one place, zero, zero outside a part, or added up by keys (`SumNat`, `SumChange`, `SumZero`,
`SumOfNats`, `SumOutside`, `SumByKey`). The model writes its sums with `SumFunction` for that reason.

**`ThreadStats_proofs`** is for any number of threads, blocks and tags, any
bounds, any addresses of the blocks and any choice of the blocks that are offloaded:

- `CallTypeInvariant`, `TickInvariant`, `TypeTheorem`: types, in the end the whole `TypeOK`;
- `StackInvariant`, and from it `SiteStackTheorem` and `CrossingsTheorem`;
- `OpenBlocksTheorem`;
- `TotalsTheorem`, `PathTheorem`: `SwitchCountsFollowOnePath`;
- `ReuseInvariant`, `LeavesTheorem`: `LeavesAreListedOnce`;
- `ChainInvariant`, `RefinementTheorem`: `ImplementsReuseChains`;
- `ReportInvariant`, and from it `IdTheorem` and `ConservedTheorem`:
  `IdIsSortedPosition` and `CountersAreConserved`;
- `StartedInvariant`, `SwitchInvariant`, and from them `SwitchTheorem`: `SwitchRowsSurviveReport`;
- `EventsInvariant`, `SegmentsInvariant`, and from them and `ChainInvariant` `SegmentsTheorem`: `SegmentsSurviveReport`.

The assumptions are those of the module `ThreadStats`; those that carry the
arguments are `HashAssumption`, that no annotated block has the hash of the region
outside main and that there are finitely many blocks, and `AddressAssumption`, that no two blocks have one address.
The report needs `ThreadsAssumption`, that the threads are finitely many.

`CrossingsMatchSite` is not inductive. Its step for `OffloadEnd` needs that the
site stack has two elements, or the value counted against is arbitrary. That the
code leaves `BBLEnd` without an abort means that the block it names was on top of
the block stack; it is an offloaded one, and the site stack has one site more
than the block stack has offloaded blocks. The pop never reaches the bottom of
the block stack, which is `GLOBAL_BBLHASH` and which no call names. So the
invariant is

    StackInv == CallTypeOK /\ BottomStays /\ SiteStackFollowsBlocks /\ CrossingsMatchSite

and the pop of an empty stack can only happen in a call that then aborts. The
step has one case per operation; the calls that do not touch the stacks are dealt
with once (`OtherSteps`). `OpenBlocksTheorem` adds to it that counters are never
removed. `PathTheorem` shows that a start adds one to a single entry of the matrix,
so to the sum of one row and of one column, of which the one is the block started last and
the other the block started now; every other sum stays.

`ReuseInv` says of each collector that its open segments have a head among
their blocks, that every node of the trie is on the way to a leaf, that a leaf's
path rises in the order of addresses up to its last node but one and ends with a
head that is on it already, and that `_leaves` has each leaf once. A path cannot rise where it meets a
block for the second time, which is why no leaf is on the way to another one. That
the blocks of a segment have a sorted sequence at all is a lemma: the place of a
block is the number of blocks up to it. The step needs from `StackInv` that the
block executed is known.

The refinement of `ReuseChains` needs in addition

    ChainInv == the chains keep their types, and of each thread
      every line's segment is the one its chain has open  (IsOpen)
      every leaf's count is the number of cuts that lead to it  (CountsOK)

A cut is a line and a position at which the chain of that line closes a segment of
two blocks or more. `IsOpen` compares the segment with the accesses since the last
cut: the same blocks, and the first of them as head unless there are none, when the head
is stale. `OpenKeeps` and `CutsGrow` are about one chain that grows by an access: the open
segment goes on or is cut off as it stands, and no earlier cut changes. `CountsGrow` is about the
trie: of all leaves the one for the closed segment alone counts one cut more. A leaf's path can be read back as one segment
(`PathSegment`), so the leaves and the cuts say the same of each segment (`ExportsCuts`), which is
`Exported(t) = Chains!SegmentsOf(chain[t])`; with it an access is a `Touch` of its line and every
other step a stutter. A sum over cuts of several lines is one sum over pairs (`Cuts` of `ReuseChains`), and
the sums take the lemmas of `FiniteSums`.

The report's steps are those of the collectors or leave them alone (`ReportsCollectors`), so
what is proved of `ThreadStats` holds of `ProfileReport`. `ReportInv` goes the way of a counter:

    ReportInv == MergeInv /\ IdInv /\ ReadInv

The merged map has, block by block, the sums over the threads merged (`MergeInv`); the ids given
are positions in it, and it is complete by the time the first is given (`IdInv`); the solver has the lines of
the sections read, each added to those before it, and a time for each thread (`ReadInv`). The two properties compare
the ends of that way. For the counters the merged map is the witness that each thread was added once.

For the switch rows the collectors have to say two things more (`StartedInv`): only annotated blocks are
started, which then have counters, and all entries of a matrix add up to the starts. With the first no two rows of
a section have one id (`RowIdsDiffer`): the phantom's is `GLOBAL_BBLID`, and so is that of the region outside main,
but no switch leaves that region, and every other block has a smaller one before it in the merged map. So a section inserts each of
its rows once (`RowsInv`: a row that no other section has stays what it was). With the second the entries of a section, of which the
rows not printed have none (`EntriesAreAll`), are as many as the starts, and adding them up by pairs of ids first makes no
difference (`SumByKey`), although several pairs of blocks have one pair of ids (`MovesInv`).

For the segments the collector has to say that every block of a chain has counters (`EventsInv`). So the blocks of a leaf have
an id each, no two of them the same (`IdsDiffer`), and a printed line names as many blocks as the leaf has (`LinesInvariant`). The parser's trie has ids for addresses; its path, the ids in order and the head, still tells
segments apart (`IdPathsDiffer`). `ParseSegments` folds over the lines of a section. That
fold is unfolded as what its definition is, one recursive function on the subsets of the positions (`ParseIsFold`, `ParseExists`), so that
an induction over finite sets can follow it: each line adds its count to one leaf (`ParsePasses`, `LineCounts`). `SegmentsInv` says
of every segment that the solver counts it as often as the threads read so far did together.

**`AnnotatedProgram_proofs`** is for any program of functions and blocks (`ProgramAssumption`: what
LLVM guarantees, such as that no branch goes to the first block of a function), any threads, keys, passes and decisions:

- `ProgramInvariant`, and from it `AbortsTheorem` and `OpenCallsTheorem`:
  `AbortsOnlyAfterUnwind` and `OpenCallsFollowProgram`;
- `DomainsTheorem`: `DomainsAreEnabled`;
- `FramesTheorem`: `FramesFollowProgram`.

The properties speak of moments when a thread executes code of its own, and the thread may be in the middle of
a row of calls. The lemma `CodeLayout` says what the passes make of a block: the function's starts, the block's starts,
the block's own instructions, the block's ends in reverse, the function's ends in reverse, the terminator. With it
`Opened` says for every place in a block which calls are open there, as a piece of the function's and the
block's calls that grows at the start and shrinks at the end (`OpenedFacts`), and
`Opens` what is open on a whole program stack. The invariant is

    ShapeInv == each thread is at a place in the code, and waits in a call in every frame but the last
    StacksInv == (aborted => unwound) /\
                 (no exception left what was started => both stacks are those of Opens)

Each start appends a call to `Opens` and each end removes its last one, so that the block that the end names
is on top and no assertion fails; a branch, a call, a return or a caught exception that leaves nothing started leaves
`Opens` as it is, because nothing of a block is open at its terminator, nor of a function at its return, and
nothing at the beginning of a function. That hashes may collide does not matter here.

`DomainsInv` adds to `DomainsAreEnabled` that every begun frame of a thread, whatever unwound, has a
domain, and so has the last call if it was a begin. `FramesInv` says that no function is on
the stack twice unless one was called recursively, that the counts are those of `Opens`, and that the last call
passed on tells the truth: a frame begun last is open and one ended last is not. Each activation has at most one frame open
(`VTuneOpened`), and no two activations share a key (`KeyIsFresh`), so a begin never repeats the call
before it. That needs hypotheses which are not the module's assumptions but the theorem's: `OneThread`, since
`prev` is one for all threads, and `NoCollisions`, since two functions with one hash would be one frame.

**`PinFrontEnd_proofs`** is for any finite set of threads numbered from 0, any
blocks, options and bounds (`ThreadAssumption`):

- `ChargeInvariant`, and from it `OneThreadTheorem` and `LiveThreadsTheorem`;
- `RegionInvariant`, and from it `RoiTheorem`: `RoiFollowsCalls`;
- `CostInvariant`, and from it `ChargesTheorem`: `ChargesAreKept`;
- `CallInvariant`, and from it `FailuresTheorem` and `AnnotationsTheorem`:
  `FailsOnlyAfterRace` and `AnnotationsFollowCalls`.

That two threads are not charged at once needs
that what they read of `_thread_count` is still so, which needs that no
thread starts or finishes while a callback is on its way. The invariant is

    ChargeInv == LockTypeOK /\ LockFollowsPlaces /\ CountIsLive /\ ChargesAreCurrent

where `LockFollowsPlaces` says who holds the lock by where each thread is, and
`CountIsLive` that the count is the cardinality of the threads that run, by
which the one thread that a count of one charges is the one that runs. The proof has one lemma for each operation of the
lock, and each action is one of those with `thread_count` left alone or
changed with the set of live threads.

`CostInv` says that until a growth meets a charge the costs are what was charged, and what a charged callback
has read of them is current; that the callback is alone is `OneIsCharged`, from `ChargeInv`, and that no
vector has grown beside it is what `overlapped` remembers.

The flags of all threads are one word, so a callback that writes its own flag
writes the others back as it read them. `RegionInv` therefore says that what the one
callback under way has read is what the word says now, which stays so because another
callback of the kind is remembered as a meeting and a thread that starts, and so
lengthens the word, waits for the lock. The two counts differ by a cardinality that
changes with the flag.

`CallInv` holds what the last two properties share: a slot is at its thread's id as long as nobody was
overtaken (the only use of the assumption that ids have no gaps), what the one
annotation under way has read is current, ids are below the next one, and each slot is
`StackOf` the calls open. `StackPush` and `StackPop` say what the push and the pop of the
code do to that stack, `RegionPushed` and `RegionPopped` what they do to the set that the depth
of parallel regions counts.

**`Storage_proofs`** is for any hierarchies, policies, numbers of sets and ways and
any references (`HierarchyAssumption`, `ReferenceAssumption`; the last theorem also uses
`BblAssumption` and `HitCostAssumption`):

- `LastFetchedLine`: `LastFetchedLineIsResident`;
- `CountInvariant`, and from it `MissesTheorem`: `MissesFeedNextLevel`;
- `KeepInvariant`, and from it `KeepsTheorem`: `KeepsMostRecent`;
- `ReuseInvariant`, and from it `RefinementTheorem`: `ImplementsReuseChains`.

The invariant of the first adds to the property that each set of the instruction cache has as many tags as
ways and an index among them. Only fetches enter that cache (`OtherAccess`), and a
fetch, of one line or of two, leaves the last of them in it (`FetchAccess`), be it
found, promoted or brought in. That of the second says the same as the property for each site, for every level and type, and that the
statistics are numbers. `WayDown` says which levels one access reaches: each below the
first only if the one before it missed and allocates (`Descends`), in each of the shapes that
`ReadConfig` accepts. `CountFacts` says what a level then adds to its statistics, and `BalanceKeeps`
that what one adds to its misses the next adds to its look-ups. A site without caches, where a
fetch may access memory any of three ways, owes nothing.

The third is about two orders, that of the tags in a set and that of `recency`. `Aged` lists the tags of a
set from the newest to the oldest: an lru set has them so, the other policies go down from the victim and
around. `FoundIsPushed` and `ReplacedIsPushed` say that with either policy a line found or brought in comes to
the front of that list and those up to its place, or all of them, move one on; `MovedFacts` says the same of the order
of use. `KeepInv` says of every set that what is before a line in its list are just the lines used after
it that belong to the set (`Rivals`), and that a line that the set has lost has at least as many rivals as there are ways, all
the tags among them (`KeepsNewest`). Cardinalities, which the property speaks of, come in at the end only
(`LevelHasNewest`). Which levels an access reaches does not matter for it.

For the fourth it is all that matters. `Branches` says that an access is one of three things, and that
the chain of its line remembers it accordingly: a miss of all caches, where the last cache splits the segment;
a hit in one of the CPU's caches by a block that is charged, which goes into the segment; anything else, which changes
neither. It needs that every cache of the CPU is known as one, by the cost of its hits (`Storage.cpp:288`). That is
`HitCostAssumption`, which all configurations meet: with a cache whose hits are free the code would skip
segments. `ReuseInv` says that the segment of each line is the open one of its chain, with the weight of the
heaviest access since the last cut (`IsOpen`, `Heaviest`), and that the trie's leaves are the paths of the segments cut
off, each with the sum of their weights (`CountsOK`). Paths are ordered by block ids, which are integers
(`BblAssumption`: `BBLID` is an `int64_t`). `Advance` is the argument for one access and `SitesTouch` for a reference:
it touches up to two lines at the CPU, and what it does at the PIM site no chain remembers. A step is therefore a `Touch` of
the lines whose chains grew, or a stutter if none did.

**`BlockClusters_proofs`** is for any number of blocks and any inputs:

- `ClusterInvariant`, and from it `ParentsTheorem`: the loop of `Find` ends;
- `PartitionTheorem`: the detailed disjoint set implements `Partition`;
- `CountInvariant`, and from it `CountsTheorem` and `TogetherTheorem`:
  `CountsCoverClusters` and `HeavyPairsStayTogether`.

`ParentsEnd` alone does not say how long the walks are once two trees are joined.
`ClusterInv` says instead that the parents form a
forest: there are a function that gives the root of each block and one that gives
the blocks still above it, a set that shrinks with each step. Halving keeps both functions, a new
block gets values of its own, and `Union` adds the new root above every block of the old
one. `RootFacts` then shows that the root of the model, the end of a walk of as many steps as there are
blocks, is the one of that function. `Union` therefore does to the classes
what `Merge` does, and every other step stutters.

What the clusters are for needs in addition that two blocks have one root
if and only if the heavy pairs taken so far connect them (`RootsFollowPairs`), where being connected
means being together in every set of blocks that no such pair leaves, and that the table has for each root
the blocks of its cluster counted so far (`DecisionInv`). The counts and sites are kept by root, and the
roots do not change once the pairs are used up, though `Find` goes on to rewrite parents.

**`ReuseSearch_proofs`** is for any profiles, costs, batch sizes and thresholds
(`CostAssumption`, `BatchAssumption`, `ProfilesAssumption`: what a parsed
profile looks like, with numbers for times and counts and blocks that exist):

- `SearchInvariant`, and from it `TotalTheorem`, `ResultTheorem` and `UndefinedTheorem`:
  `TotalFollowsDecision`, `ResultIsCheapestRun` and `UndefinedOnlyIfUnlisted`;
- `SegmentTheorem`: `ReuseCostIsBySegment`.

    SearchInv == SearchTypeOK /\ LeavesInv /\ TotalFollowsDecision /\ KeptInv /\ UndefinedOnlyIfUnlisted

The total is right only while every block that is priced is placed, so `SearchTypeOK` says in
which phases the decision is complete. `PermuteFacts` shows that the permutation of a batch finds a
placement and that none is cheaper: the placements of a finite set of blocks are finitely many, and
the order by cost and place in the loop is strict and total. That the walk along `_leaves` never goes past its end
unless no segment is below the threshold needs `LeavesInv`: the leaves of the main trie
come first and stay, those of partial tries, which are deleted, follow.

**`SolverRun_proofs`** is for any command line, files, configurations, numbers of blocks and
thresholds (`SolverAssumption`, with a first threshold that is one of the powers of ten up to the code's
10,000,000; `InputsAssumption`: what parsed files look like):

- `RunInvariant`, and from it `SweepTheorem`, `EndsTheorem` and `ListTheorem`:
  `SweepKeepsFirstCheapest`, `EndsOnlyIfMisplaced` and `ListsTheWorst`.

`RunInv` has a part for each. `ModeInv` says which mode each phase belongs to, so that the listing is reached with
a decision to compare with. `SweepInv` says that the best so far is the first of the cheapest of the configurations
tried, or still `INT_MAX`, which `BestOf` says with bounds instead of a minimum. `ListInv` says that the list holds, once
each, the misplaced blocks before `at` above the threshold, that the potential is zero
exactly as long as the list is empty, by which the loop knows that it found nothing, and that no misplaced block is above
ten times the threshold unless the threshold is the first (`SearchedAbove`). The step from 1 to 0 is why the property
says 1 there.

Model-checked only, and why:

- liveness (`SearchEnds`, `MisplacedIsFound`) is outside what TLAPS proves;
- that ends match starts, that blocks find their decision, that `mpki` decides and that a static decision is followed are false.

## Not modelled

The mode `PIMPROF` of the passes, which injects calls for the Pin front end: the
front end is run with any calls that nest. Of the front end: decoding of magic
instructions when code is instrumented, the trace and MPKI macros, the report of
`FinishInstrument`, and the accelerator calls, which no instruction is instrumented with. Of
the cache model: `Flush`, `ResetStats` and `CountMemoryCost`, which nothing calls
(`Flush` would start one set past the end), and a hierarchy with an `IL1` alone, which `ReadConfig`
accepts and leaves without a next level, and which no configuration has. The VTune runtime is modelled for one thread, since its
globals have no lock. `PrintDisjointSets` is called by nothing. What `PrintDecision` prints besides the misplaced blocks, and
a static-analysis file that cannot be parsed in more detail than "aborted", are
left out. MurmurHash3 and INIReader are third-party;
configurations, scripts and `test/setInsert.cpp` have no behaviour to check.
Floating point is replaced by integers, so rounding is outside the model, and so
are the widths of counters. The printed files' wording and layout are left out.
The last open segment of each line is dropped by the code and by the model.

## Plan

Done, in this order, the most important behaviour first: `ReuseTrie`,
`ReuseChains`, `ThreadStats` and its proofs, `ProfileReport`, `OffloadCost`,
`ReuseSearch`, `Partition`, `BlockClusters`, `SolverRun`, `AnnotatedProgram` with
`VTuneAnnotation`, `DecisionLookup`, `Storage`, `PinFrontEnd` and its proofs, and the
proofs of the trie's leaves and of the reuse segments it counts, of the caches' fetched lines, statistics, lines kept and reuse segments, of the
clusters, of the search, of the driver, of the report's ids, counters, switch rows and segments and of the annotated programs.

Left, of the system:

1. A composition of `SolverRun` with `ReuseSearch` and `BlockClusters`, in which
   the search is no longer any decision at all.
2. `PinFrontEnd` with `Storage` in place of `CacheRef`, for the costs of a whole run.
3. The `PIMPROF` mode of the passes in `AnnotatedProgram`, with `PinFrontEnd` as the receiver.

Left, of the proofs: nothing that TLAPS can state; liveness stays with TLC.
