------------------------------ MODULE SolverRun ------------------------------
(***************************************************************************)
(* One run of the solver, from its command line to the report (main.cpp,   *)
(* CommandLineParser in Util.cpp, initialize, PrintSolution, PrintDecision *)
(* and the strategies that look at each block by itself in CostSolver.cpp).*)
(***************************************************************************)
EXTENDS OffloadCost, SequencesExt

CONSTANTS
  Inputs,          \* what the files may hold: see Aligned and ParseDecision
  MpkiThreshold, ParaThreshold,  \* _mpki_threshold, _parallelism_threshold: 5 and 15
  InstrPermille,   \* of all instructions a block must have for MPKI: 10
  Configs,         \* the thresholds of the SCA sweep, in the order of its loops
  IntMax,          \* INT_MAX
  FirstThreshold   \* 1e7 ns

ASSUME SolverAssumption ==
  /\ {MpkiThreshold, ParaThreshold, InstrPermille, IntMax} \subseteq Nat
  /\ Configs \in Seq([mpki : Nat, para : Nat, instr : Nat]) /\ Configs # << >>
  /\ FirstThreshold \in {1, 10, 100, 1000, 10000, 100000, 1000000, 10000000}

\* The statistics of a block: its time on each thread of a run, its
\* instructions and its memory accesses.
Stats == [times : Seq(Nat) \ {<< >>}, instr : Nat, mem : Nat]
IsInput(files) ==
  /\ files.cpu \in [Ids -> Stats] /\ files.pim \in [DOMAIN files.pim -> Stats]
  /\ AreMoves(files.rows, files.root)
ASSUME InputsAssumption == \A files \in Inputs : IsInput(files)

GLOBAL == 0   \* GLOBAL_BBLHASH is the least hash

VARIABLES
  mode, options,  \* the command line
  input,          \* the files' contents, << >> until they are read
  phase,
  decision,       \* decision and ctsPrintDecision of PrintSolution,
  cts,            \* the latter << >> until it is read
  printed,        \* history: the decision of each strategy printed so far
  config, best,   \* index into Configs, and minSCAResult
  at, threshold, potential,  \* i, threshold and potential of PrintDecision
  listed          \* the ids in IncorrectCPUDecision and IncorrectPIMDecision

commandVars == <<mode, options>>
printVars == <<at, threshold, potential, listed>>
vars == <<commandVars, input, phase, decision, cts, printed, config, best, printVars>>

-----------------------------------------------------------------------------
(* The command line.  "data" is --data, which takes no argument, and "d" -d. *)

Modes == {"mpki", "para", "reuse", "debug", "unknown", "none"}
Options == {"t", "s", "c", "p", "r", "o", "d", "data", "h"}

Known(m) == IF m = "reuse" THEN Options ELSE {"c", "p", "r", "o", "h"}
Required(m) == CASE m = "mpki" -> {"c", "p", "o"}
                 [] m = "debug" -> {"c", "p", "r", "o"}
                 [] m = "reuse" -> {"c", "p", "r", "o", "s", "t"}

Init ==
  /\ mode \in Modes /\ options \in SUBSET Options
  /\ input = << >>
  /\ phase = "command"
  /\ decision = << >> /\ cts = << >> /\ printed = << >>
  /\ config = 1 /\ best = [total |-> IntMax, config |-> 0]
  /\ at = 0 /\ threshold = FirstThreshold /\ potential = 0 /\ listed = << >>

\* Options are read in turn: the first that is wrong, or for help, prints the
\* usage, --data makes a string of a null pointer and what follows -d may be no
\* number, which std::stod throws for.
Outcomes ==
  IF mode \in {"unknown", "none"} THEN {"usage"}
  ELSE IF mode = "para" THEN {"aborted"}
  ELSE LET stops == (IF options \subseteq Known(mode) \ {"h"} THEN {} ELSE {"usage"})
                      \cup (IF "data" \in options \cap Known(mode) THEN {"undefined"} ELSE {})
           throws == IF "d" \in options \cap Known(mode) THEN {"aborted"} ELSE {}
       IN throws \cup IF stops # {} THEN stops
                      ELSE IF Required(mode) \subseteq options THEN {"open"} ELSE {"usage"}

ParseCommand ==
  /\ phase = "command"
  /\ phase' \in Outcomes
  /\ UNCHANGED <<commandVars, input, decision, cts, printed, config, best, printVars>>

-----------------------------------------------------------------------------
(* The files.  input.file is what the decision file of option -t says of     *)
(* each block; only CPU and PIM may be written there.                        *)

\* The statistics and reuse files may not be there, those not given are not, and
\* the file of option -s may be malformed. Without -t, as in the other modes,
\* there is nothing to parse.
Initialize ==
  /\ phase = "open"
  /\ \/ phase' = "aborted" /\ UNCHANGED input
     \/ /\ {"c", "p", "r"} \subseteq options
        /\ input' \in Inputs
        /\ phase' = IF "t" \in options /\ \E i \in Ids : input'.file[i] \notin Sites \cup {"none"}
                    THEN "aborted" ELSE mode
  /\ UNCHANGED <<commandVars, decision, cts, printed, config, best, printVars>>

MaxElapsedTime(stats) == Max(Range(stats.times))
Parallelism(stats) == Cardinality({t \in DOMAIN stats.times : stats.times[t] > 0})

Placeholder == [times |-> <<0>>, instr |-> 0, mem |-> 0]
PimStats(i) == IF i \in DOMAIN input.pim THEN input.pim[i] ELSE Placeholder

(***************************************************************************)
(* getBBLSortedStats: ids are positions among the blocks of the CPU run;   *)
(* what only the PIM run knows is dropped, what it does not know takes no  *)
(* time.                                                                   *)
(***************************************************************************)
Aligned ==
  [time |-> [CPU |-> [i \in Ids |-> MaxElapsedTime(input.cpu[i])],
             PIM |-> [i \in Ids |-> MaxElapsedTime(PimStats(i))]],
   rows |-> input.rows, root |-> input.root]

PimInstructions == SumFunction([i \in Ids |-> PimStats(i).instr])

-----------------------------------------------------------------------------
(* The strategies *)

\* The quotient of no accesses and no instructions is not a number.
HasMpki(stats) == stats.mem > 0 \/ stats.instr > 0

MPKIDecision ==
  [i \in Ids |->
     IF /\ i # GLOBAL
        /\ HasMpki(PimStats(i))
        /\ PimStats(i).mem * 1000 > MpkiThreshold * PimStats(i).instr
        /\ Parallelism(PimStats(i)) > ParaThreshold
        /\ PimStats(i).instr > (PimInstructions * InstrPermille) \div 1000
     THEN "PIM" ELSE "CPU"]

SCADecision(c) ==
  [i \in Ids |->
     IF /\ i # GLOBAL
        /\ HasMpki(PimStats(i))
        /\ PimStats(i).mem * 1000 >= c.mpki * PimStats(i).instr
        /\ Parallelism(PimStats(i)) > c.para
        /\ PimStats(i).instr >= (PimInstructions * c.instr) \div 1000
     THEN "PIM" ELSE "CPU"]

GreedyDecision == [i \in Ids |-> Greedy(Aligned, i)]

CTSDecision ==
  [i \in Ids |-> IF i = input.main THEN Greedy(Aligned, i)
                 ELSE IF input.file[i] = "none" THEN "CPU" ELSE input.file[i]]

Report(strategy, d) == printed' = (strategy :> d) @@ printed

\* PrintMPKIStats, whose decision is the one of this mode only
PrintMPKI ==
  /\ phase \in {"mpki", "reuse"}
  /\ Report("mpki", MPKIDecision)
  /\ IF mode = "mpki" THEN decision' = MPKIDecision /\ phase' = "decision"
                      ELSE UNCHANGED decision /\ phase' = "greedy"
  /\ UNCHANGED <<commandVars, input, cts, config, best, printVars>>

PrintGreedy ==
  /\ phase = "greedy"
  /\ Report("greedy", GreedyDecision)
  /\ phase' = "search"
  /\ UNCHANGED <<commandVars, input, decision, cts, config, best, printVars>>

\* PrintReuseStats and Debug_HierarchicalDecision find some decision, or leave
\* their arrays.
PrintSearch ==
  /\ phase \in {"search", "debug"}
  /\ \/ /\ \E d \in [Ids -> Sites] : decision' = d /\ Report("search", d)
        /\ phase' = IF mode = "debug" THEN "decision" ELSE "cts"
     \/ phase' = "undefined" /\ UNCHANGED <<decision, printed>>
  /\ UNCHANGED <<commandVars, input, cts, config, best, printVars>>

PrintCTS ==
  /\ phase = "cts"
  /\ cts' = CTSDecision /\ Report("cts", CTSDecision)
  /\ phase' = "sca"
  /\ UNCHANGED <<commandVars, input, decision, config, best, printVars>>

\* PrintSCAStatsFromfile returns a decision that is not used.  To correct it,
\* the first of the pairs that move data is read, even if there is none.
PrintSCAFromFile ==
  /\ phase = "sca"
  /\ phase' = IF input.root = Trie!EmptyRoot /\ \A from \in DOMAIN input.rows : input.rows[from] = << >>
              THEN "undefined" ELSE "sweep"
  /\ UNCHANGED <<commandVars, input, decision, cts, printed, config, best, printVars>>

\* std::min(minSCAResult, result)
MutBetter(total) == total <= best.total
Better(total) == total < best.total

SCATotal(c) == Cost(Aligned, SCADecision(c), input.root)

Sweep ==
  /\ phase = "sweep"
  /\ LET total == SCATotal(Configs[config])
     IN best' = IF Better(total) THEN [total |-> total, config |-> config] ELSE best
  /\ IF config = Len(Configs)
     THEN phase' = "decision" /\ UNCHANGED config
     ELSE config' = config + 1 /\ UNCHANGED phase
  /\ UNCHANGED <<commandVars, input, decision, cts, printed, printVars>>

-----------------------------------------------------------------------------
(* PrintDecision lists the blocks that the decision of the file misplaces,   *)
(* with a difference in time above a threshold that shrinks until there is   *)
(* one.  In the other modes that decision is empty, and its blocks are read. *)

BeginDecision ==
  /\ phase = "decision"
  /\ phase' = IF cts = << >> THEN "undefined" ELSE "list"
  /\ UNCHANGED <<commandVars, input, decision, cts, printed, config, best, printVars>>

Diff(i) == Aligned.time["CPU"][i] - Aligned.time["PIM"][i]
AbsDiff(i) == Max({Diff(i), -Diff(i)})

MutIsWrong(i) == Diff(i) > threshold /\ cts[i] = "CPU"
IsWrong(i) ==
  \/ Diff(i) > threshold /\ cts[i] = "CPU"
  \/ Diff(i) < -threshold /\ cts[i] = "PIM"

\* At the end of a pass over the blocks that found nothing, the next one begins.
MutOnePass(found) == phase' = "done" /\ UNCHANGED <<at, threshold>>
EndPass(found) ==
  IF found > 0 THEN phase' = "done" /\ UNCHANGED <<at, threshold>>
  ELSE at' = 0 /\ threshold' = threshold \div 10 /\ UNCHANGED phase

ListBlock ==
  /\ phase = "list"
  /\ IF IsWrong(at)
     THEN potential' = potential + AbsDiff(at) /\ listed' = Append(listed, at)
     ELSE UNCHANGED <<potential, listed>>
  /\ IF at = N - 1 THEN EndPass(potential')
     ELSE at' = at + 1 /\ UNCHANGED <<phase, threshold>>
  /\ UNCHANGED <<commandVars, input, decision, cts, printed, config, best>>

Next ==
  \/ ParseCommand \/ Initialize
  \/ PrintMPKI \/ PrintGreedy \/ PrintSearch \/ PrintCTS \/ PrintSCAFromFile \/ Sweep
  \/ BeginDecision \/ ListBlock

\* One thread that waits for nothing.
Spec == Init /\ [][Next]_vars /\ WF_vars(Next)

-----------------------------------------------------------------------------
(* Properties *)

\* The sweep returns the first of its cheapest configurations, unless none is
\* cheaper than INT_MAX nanoseconds (CostSolver.cpp:322-330, CostSolver.h:149).
SweepKeepsFirstCheapest ==
  phase = "list" =>
    LET totals == {SCATotal(Configs[c]) : c \in DOMAIN Configs}
    IN /\ best.total = Min(totals \cup {IntMax})
       /\ best.total < IntMax =>
            /\ SCATotal(Configs[best.config]) = best.total
            /\ \A c \in 1 .. best.config - 1 : SCATotal(Configs[c]) > best.total

\* A block is misplaced if the decision file names its slower site.
Misplaced ==
  {i \in Ids : \/ Diff(i) > 0 /\ cts[i] = "CPU"
               \/ Diff(i) < 0 /\ cts[i] = "PIM"}

\* In reuse mode the report ends only if the decision file misplaces a block: the
\* loop that lowers the threshold has no other end (CostSolver.cpp:517).
EndsOnlyIfMisplaced == phase = "done" /\ mode = "reuse" => Misplaced # {}

\* What src/README.md:70-75 says of the mode mpki: it generates a decision. The
\* report of that decision indexes the one of the -t file, which this mode does not
\* read (CostSolver.cpp:338, 461).
MpkiModeDecides == mode = "mpki" => phase # "undefined"

\* If a block is misplaced the loop gets down to it, however small the
\* difference (CostSolver.cpp:517-558).
MisplacedIsFound == (phase = "list" /\ Misplaced # {}) ~> (phase = "done")

\* The report lists each of the worst misplaced blocks once, those above a
\* threshold below which it need not have gone (CostSolver.cpp:481-557).
ListsTheWorst ==
  phase = "done" =>
    /\ IsInjective(listed)
    /\ Range(listed) = {i \in Misplaced : AbsDiff(i) > threshold}
    /\ threshold < FirstThreshold =>
         \A i \in Misplaced : AbsDiff(i) <= (IF threshold = 0 THEN 1 ELSE 10 * threshold)
=============================================================================
