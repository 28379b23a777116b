---------------------------- MODULE ProfileReport ----------------------------
(***************************************************************************)
(* From the collectors to the solver.  When the program has run, the       *)
(* simulator has every ThreadStats merged into one map, numbers the blocks *)
(* and gives each thread the numbers, and prints one section per thread    *)
(* (MergeStatsMap, GenerateBBLID, AssignBBLID, Print* in Stats.h; the      *)
(* simulator's loop over the threads is external).  The solver parses the  *)
(* sections (ParseStats and ParseReuse in CostSolver.cpp).                 *)
(***************************************************************************)
EXTENDS ThreadStats, SequencesExt

VARIABLES
  merged,     \* threads whose counters are in statsmap
  statsmap,   \* the map of all blocks that MergeStatsMap fills
  bblid,      \* bblid[t][h]: the id in thread t's RunStats of block h
  numbered,   \* threads AssignBBLID was called on
  read,       \* threads whose section the solver has parsed
  solverStats,   \* _bbl_hash2stats[CPU]: counters, id and time per thread
  switchRows,    \* _bbl_switch_count: the row inserted last for each id
  solverTrie,    \* _bbl_data_reuse: the trie over ids
  clMoves, regMoves  \* interBB_CL_DM, interBB_REG_DM: moves between two ids

collectorVars == vars
mergeVars == <<merged, statsmap>>
solverVars == <<read, solverStats, switchRows, solverTrie, clMoves, regMoves>>
reportVars == <<mergeVars, bblid, numbered, solverVars>>

GLOBAL_BBLID == 0
Ids == 0 .. Cardinality(Hashes)

\* The solver's trie orders a segment by id, not by the address of a RunStats.
IdTrie == INSTANCE ReuseTrie WITH Elem <- Ids, Rank <- [i \in Ids |-> i], NoHead <- -1

ReportInit ==
  /\ Init
  /\ merged = {} /\ statsmap = << >>
  /\ bblid = [t \in Threads |-> [h \in Hashes |-> GLOBAL_BBLID]]
  /\ numbered = {} /\ read = {}
  /\ solverStats = << >> /\ switchRows = << >>
  /\ solverTrie = IdTrie!EmptyRoot /\ clMoves = << >> /\ regMoves = << >>

-----------------------------------------------------------------------------
AddCounters(c, d) ==
  [time |-> c.time + d.time, instr |-> c.instr + d.instr, mem |-> c.mem + d.mem]

At(f, k, default) == IF k \in DOMAIN f THEN f[k] ELSE default
Zero == [time |-> 0, instr |-> 0, mem |-> 0]

\* Once the first thread is merged the program has ended: Run is disabled.
Run == merged = {} /\ Next /\ UNCHANGED reportVars

MutMergeOverwrites(t) ==
  [h \in DOMAIN statsmap \cup DOMAIN stats[t] |->
     IF h \in DOMAIN stats[t] THEN AddCounters(Zero, stats[t][h]) ELSE statsmap[h]]
MergedMap(t) ==
  [h \in DOMAIN statsmap \cup DOMAIN stats[t] |->
     AddCounters(At(statsmap, h, Zero), At(stats[t], h, Zero))]

MergeStatsMap(t) ==
  /\ ~aborted /\ t \notin merged
  /\ merged' = merged \cup {t}
  /\ statsmap' = MergedMap(t)
  /\ UNCHANGED <<collectorVars, bblid, numbered, solverVars>>

\* GenerateBBLID: the position of the block in the map sorted by hash
MutIdByAddress(h) == Cardinality({g \in DOMAIN statsmap : Address[g] < Address[h]})
GeneratedId(h) == Cardinality({g \in DOMAIN statsmap : g < h})

AssignedId(t, h) == GeneratedId(h)

AssignBBLID(t) ==
  /\ merged = Threads /\ t \notin numbered
  /\ DOMAIN stats[t] \subseteq DOMAIN statsmap   \* assert(p != statsmap.end())
  /\ numbered' = numbered \cup {t}
  /\ bblid' = [bblid EXCEPT ![t] =
                 [h \in Hashes |-> IF h \in DOMAIN stats[t] THEN AssignedId(t, h) ELSE @[h]]]
  /\ UNCHANGED <<collectorVars, mergeVars, solverVars>>

-----------------------------------------------------------------------------
(* What a thread's section says. *)

\* The phantom RunStats is in no map, so its id stays GLOBAL_BBLID.
PrintedId(t, n) == IF n = Phantom THEN GLOBAL_BBLID ELSE bblid[t][n]

\* SwitchCountMatrix::print leaves out the rows and the entries that are zero.
PrintedRow(t, from) ==
  LET targets == {h \in Hashes : matrix[t][<<from, h>>] > 0}
  IN [i \in {PrintedId(t, h) : h \in targets} |->
        SumFunctionOnSet([h \in targets |-> matrix[t][<<from, h>>]],
                         {h \in targets : PrintedId(t, h) = i})]

MutPrintedRows(t) == {from \in Hashes \cup {Phantom} : total[t][from] > 1}
PrintedRows(t) == {from \in Hashes \cup {Phantom} : total[t][from] > 0}

\* A segment is printed as its head, its count and its blocks, by address.
PrintedSegments(t) ==
  [i \in DOMAIN leaves[t] |->
     LET seg == Trie!ExportSegment(root[t], leaves[t][i])
         order == Trie!Sorted(seg.set)
     IN [head |-> PrintedId(t, seg.head), count |-> seg.count,
         order |-> [k \in DOMAIN order |-> PrintedId(t, order[k])]]]

-----------------------------------------------------------------------------
(* The solver. *)

\* The first section with the block makes its entry, the others add to it; the
\* elapsed times are kept per thread.
NewThreadRunStats(t, h) ==
  LET line == stats[t][h]
  IN [id |-> PrintedId(t, h), instr |-> line.instr, mem |-> line.mem,
      time |-> [u \in Threads |-> IF u = t THEN line.time ELSE 0]]

MergeLine(old, t, h) ==
  LET line == stats[t][h]
  IN [id |-> old.id, instr |-> old.instr + line.instr, mem |-> old.mem + line.mem,
      time |-> [old.time EXCEPT ![t] = line.time]]

ParseStats(t) ==
  solverStats' =
    [h \in DOMAIN solverStats \cup DOMAIN stats[t] |->
       IF h \notin DOMAIN stats[t] THEN solverStats[h]
       ELSE IF h \in DOMAIN solverStats THEN MergeLine(solverStats[h], t, h)
       ELSE NewThreadRunStats(t, h)]

\* RowInsert makes empty rows up to the one it needs, and replaces the row that
\* an earlier section may have inserted.
RowInsert(rows, t) ==
  LET ids == {PrintedId(t, f) : f \in PrintedRows(t)}
  IN [i \in DOMAIN rows \cup UNION {0 .. id : id \in ids} |->
        IF i \in ids THEN PrintedRow(t, CHOOSE f \in PrintedRows(t) : PrintedId(t, f) = i)
        ELSE At(rows, i, << >>)]

\* The entries of the printed rows, and the two ids that one is a move between.
Entries(t) == {p \in PrintedRows(t) \X Hashes : matrix[t][p] > 0}
Ends(t, p) == {PrintedId(t, p[1]), PrintedId(t, p[2])}

ParseSwitchRows(t) ==
  /\ switchRows' = RowInsert(switchRows, t)
  /\ regMoves' = [e \in DOMAIN regMoves \cup {Ends(t, p) : p \in Entries(t)} |->
                    At(regMoves, e, 0)
                    + SumFunctionOnSet(matrix[t], {p \in Entries(t) : Ends(t, p) = e})]

MutParsedSegment(line) ==
  [head |-> line.order[1], set |-> Range(line.order), count |-> line.count]
ParsedSegment(line) ==
  [head |-> line.head, set |-> Range(line.order), count |-> line.count]

\* Each block of the line is moved to from the one printed before it.
MovesOnLine(line, e) ==
  line.count * Cardinality({k \in DOMAIN line.order :
                              {line.order[k], (<<line.head>> \o line.order)[k]} = e})

ParseSegments(t) ==
  LET lines == PrintedSegments(t)
      moved(e) == FoldLeft(LAMBDA n, line : n + MovesOnLine(line, e), 0, lines)
      pairs == {e \in {{a, b} : a, b \in Ids} : moved(e) > 0}
  IN /\ solverTrie' = FoldLeft(LAMBDA r, line : IdTrie!UpdateTrie(r, ParsedSegment(line)),
                               solverTrie, lines)
     /\ clMoves' = [e \in DOMAIN clMoves \cup pairs |-> At(clMoves, e, 0) + moved(e)]

ParseSection(t) ==
  /\ numbered = Threads /\ t \notin read
  /\ read' = read \cup {t}
  /\ ParseStats(t) /\ ParseSwitchRows(t) /\ ParseSegments(t)
  /\ UNCHANGED <<collectorVars, mergeVars, bblid, numbered>>

ReportNext ==
  \/ Run
  \/ \E t \in Threads : MergeStatsMap(t) \/ AssignBBLID(t) \/ ParseSection(t)

ReportSpec == ReportInit /\ [][ReportNext]_<<collectorVars, reportVars>>

-----------------------------------------------------------------------------
(* Properties *)

AllRead == read = Threads

\* The solver uses the id of a block, read from the reuse file, as the index of
\* its decision, and the position of the block among the sorted statistics as
\* the index of its times (CostSolver.cpp:91-107, 1413-1416): they are equal.
IdIsSortedPosition ==
  AllRead => \A h \in DOMAIN solverStats :
               solverStats[h].id = Cardinality({g \in DOMAIN solverStats : g < h})

\* What the collectors of some threads charged to a block, together.
Charged(h, threads) ==
  [time |-> SumFunction([t \in threads |-> At(stats[t], h, ZeroStats).time]),
   instr |-> SumFunction([t \in threads |-> At(stats[t], h, ZeroStats).instr]),
   mem |-> SumFunction([t \in threads |-> At(stats[t], h, ZeroStats).mem])]

\* Nothing a collector charged is lost on the way: the solver's totals are
\* those of the merged map and of the threads (Stats.h:331-345,
\* CostSolver.h:48-57, CostSolver.cpp:186-194).
CountersAreConserved ==
  /\ merged = Threads => \A h \in Hashes : At(statsmap, h, Zero) = Charged(h, Threads)
  /\ AllRead =>
       \A h \in DOMAIN statsmap :
         /\ solverStats[h].instr = statsmap[h].instr
         /\ solverStats[h].mem = statsmap[h].mem
         /\ SumFunction(solverStats[h].time) = statsmap[h].time

ReadLines == UNION {Range(PrintedSegments(t)) : t \in read}
CountIn(t, head, set) ==
  LET lines == PrintedSegments(t)
  IN SumFunctionOnSet([i \in DOMAIN lines |-> lines[i].count],
                      {i \in DOMAIN lines : lines[i].head = head /\ Range(lines[i].order) = set})
PathOf(line) == IdTrie!LeafPath([head |-> line.head, set |-> Range(line.order)])

\* The solver's trie counts each segment as often as all threads together did,
\* although the threads ordered its blocks by address and the solver orders
\* them by id (DataReuse.h:353-388, 512-521, CostSolver.cpp:249-271).
SegmentsSurviveReport ==
  /\ \A line \in ReadLines :
       IdTrie!LeafCount(solverTrie, PathOf(line))
         = SumFunction([t \in read |-> CountIn(t, line.head, Range(line.order))])
  /\ DOMAIN solverTrie.count = {PathOf(line) : line \in ReadLines}

\* A switch row that only one thread printed reaches the solver as counted;
\* RowInsert keeps one thread's row where several printed one
\* (CostSolver.cpp:285, DataReuse.h:160-166), which regMoves does not lose.
SwitchRowsSurviveReport ==
  /\ \A t \in read : \A f \in PrintedRows(t) :
       (\A u \in read \ {t} : PrintedId(t, f) \notin {PrintedId(u, g) : g \in PrintedRows(u)})
         => switchRows[PrintedId(t, f)] = PrintedRow(t, f)
  /\ SumFunction(regMoves) = SumFunction([t \in read |-> SumFunction(starts[t])])
=============================================================================
