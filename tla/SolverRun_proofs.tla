--------------------------- MODULE SolverRun_proofs ---------------------------
(***************************************************************************)
(* Proofs about a run of the solver, for any command line, files, numbers  *)
(* of blocks and configurations: the sweep keeps the first of its cheapest *)
(* configurations, and in reuse mode the report ends only if the decision  *)
(* file misplaces a block, with the worst of those blocks in its list.     *)
(***************************************************************************)
EXTENDS SolverRun, FiniteSums, SequenceTheorems, TLAPS

-----------------------------------------------------------------------------
(* What is measured and what it costs are numbers. *)

\* There are blocks, finitely many.
LEMMA IdsAreFinite == IsFiniteSet(Ids) /\ 0 \in Ids /\ Ids \subseteq Nat
<1>1. N - 1 \in Nat
  BY NAssumption
<1>2. IsFiniteSet(0 .. N - 1)
  BY <1>1, FS_Interval
<1> QED
  BY <1>1, <1>2 DEF Ids

\* The elapsed time of a block is that of one of its threads.
LEMMA MaxTimeIsNat == \A stats \in Stats : MaxElapsedTime(stats) \in Nat
<1> SUFFICES ASSUME NEW stats \in Stats PROVE MaxElapsedTime(stats) \in Nat
  OBVIOUS
<1> DEFINE S == Range(stats.times)
<1>1. PICK times : times = stats.times /\ times \in Seq(Nat) /\ times # << >>
  BY DEF Stats
<1>2. S \in SUBSET Nat /\ S # {}
  <2>1. DOMAIN times = 1 .. Len(times) /\ 1 \in DOMAIN times
    BY <1>1
  <2>2. S = {times[k] : k \in DOMAIN times}
    BY <1>1 DEF Range
  <2>3. \A k \in DOMAIN times : times[k] \in Nat
    BY <1>1
  <2> HIDE DEF S
  <2> QED
    BY <2>1, <2>2, <2>3
<1>3. IsFiniteSet(S)
  <2>1. IsFiniteSet(1 .. Len(times))
    BY <1>1, FS_Interval
  <2>2. times \in Surjection(1 .. Len(times), S)
    BY <1>1 DEF Surjection, Range
  <2> HIDE DEF S
  <2> QED
    BY <2>1, <2>2, FS_Surjection
<1> HIDE DEF S
<1>4. S \in SUBSET Int
  BY <1>2
<1>5. Max(S) \in S
  BY <1>2, <1>3, <1>4, LeastAndGreatest
<1> QED
  BY <1>2, <1>5 DEF MaxElapsedTime, S

\* The statistics of the two runs, laid side by side, are a profile.
LEMMA AlignedIsProfile == input \in Inputs => IsProfile(Aligned)
<1> SUFFICES ASSUME input \in Inputs PROVE IsProfile(Aligned)
  OBVIOUS
<1>1. IsInput(input)
  BY InputsAssumption
<1>2. \A i \in Ids : input.cpu[i] \in Stats
  BY <1>1 DEF IsInput
<1>3. Placeholder \in Stats
  BY DEF Placeholder, Stats
<1>4. \A i \in Ids : PimStats(i) \in Stats
  BY <1>1, <1>3 DEF PimStats, IsInput
<1> DEFINE cpu == [i \in Ids |-> MaxElapsedTime(input.cpu[i])]
           pim == [i \in Ids |-> MaxElapsedTime(PimStats(i))]
<1>5. cpu \in [Ids -> Nat] /\ pim \in [Ids -> Nat]
  BY <1>2, <1>4, MaxTimeIsNat
<1>6. Aligned = [time |-> [CPU |-> cpu, PIM |-> pim], rows |-> input.rows, root |-> input.root]
  BY DEF Aligned
<1> HIDE DEF cpu, pim
<1>7. Aligned.time \in [Sites -> [Ids -> Nat]]
  BY <1>5, <1>6 DEF Sites
<1>8. AreMoves(Aligned.rows, Aligned.root)
  BY <1>1, <1>6 DEF IsInput
<1> QED
  BY <1>7, <1>8 DEF IsProfile

\* A decision that places every block has a cost.
LEMMA CostIsNat ==
  ASSUME NEW p, IsProfile(p), NEW d \in [Ids -> Sites]
  PROVE  Cost(p, d, p.root) \in Nat
<1>1. /\ \A site : MoveCost(site) \in Nat
      /\ \A site \in Sites : SwitchSiteCost[site] \in Nat
  BY CostAssumption DEF MoveCost, Sites
<1>2. ASSUME NEW site \in Sites PROVE ElapsedTime(p, d, site) \in Nat
  <2> DEFINE f == [i \in Ids |-> IF d[i] = site THEN p.time[site][i] ELSE 0]
  <2>1. f \in [Ids -> Nat]
    BY DEF IsProfile
  <2> HIDE DEF f
  <2>2. SumFunction(f) \in Nat
    BY <2>1, IdsAreFinite, SumOfNats
  <2> QED
    BY <2>2 DEF ElapsedTime, f
<1>3. ASSUME NEW from \in DOMAIN p.rows PROVE RowCost(p.rows[from], from, d) \in Nat
  <2> DEFINE row == p.rows[from]
             f == [to \in DOMAIN row |->
                     IF d[from] # INVALID /\ d[to] # INVALID /\ d[from] # d[to]
                     THEN SwitchSiteCost[d[from]] * row[to] ELSE 0]
  <2>1. from \in Ids /\ DOMAIN row \subseteq Ids /\ row \in [DOMAIN row -> Nat]
    BY DEF IsProfile, AreMoves
  <2>2. SwitchSiteCost[d[from]] \in Nat
    BY <1>1, <2>1
  <2>3. ASSUME NEW to \in DOMAIN row PROVE SwitchSiteCost[d[from]] * row[to] \in Nat
    BY <2>1, <2>2
  <2>4. IsFiniteSet(DOMAIN row)
    BY <2>1, IdsAreFinite, FS_Subset
  <2>5. f \in [DOMAIN row -> Nat]
    <3> HIDE DEF row
    <3> QED
      BY <2>3
  <2> HIDE DEF f
  <2>6. SumFunction(f) \in Nat
    BY <2>4, <2>5, SumOfNats
  <2> QED
    BY <2>6 DEF RowCost, f
<1>4. SwitchCost(p, d) \in Nat
  <2> DEFINE f == [from \in DOMAIN p.rows |-> RowCost(p.rows[from], from, d)]
  <2>1. f \in [DOMAIN p.rows -> Nat]
    BY <1>3
  <2>2. IsFiniteSet(DOMAIN p.rows)
    BY IdsAreFinite, FS_Subset DEF IsProfile, AreMoves
  <2> HIDE DEF f
  <2>3. SumFunction(f) \in Nat
    BY <2>1, <2>2, SumOfNats
  <2> QED
    BY <2>3 DEF SwitchCost, f
<1>5. ReuseCost(p.root, d) \in Nat
  <2> DEFINE S == DOMAIN p.root.count
             f == [leaf \in S |-> IF IsDifferent(d, leaf)
                                 THEN p.root.count[leaf] * PriceOf(d, leaf) ELSE 0]
  <2>1. IsFiniteSet(S) /\ p.root.count \in [S -> Nat]
    BY DEF IsProfile, AreMoves, CountsLeaves
  <2>2. ASSUME NEW leaf \in S PROVE p.root.count[leaf] * PriceOf(d, leaf) \in Nat
    <3>1. p.root.count[leaf] \in Nat /\ PriceOf(d, leaf) \in Nat
      BY <1>1, <2>1 DEF PriceOf
    <3> QED
      BY <3>1
  <2>3. f \in [S -> Nat]
    <3> HIDE DEF S
    <3> QED
      BY <2>2
  <2> HIDE DEF f
  <2>4. SumFunction(f) \in Nat
    BY <2>1, <2>3, SumOfNats
  <2> QED
    BY <2>4 DEF ReuseCost, f
<1>6. ElapsedTime(p, d, "CPU") \in Nat /\ ElapsedTime(p, d, "PIM") \in Nat
  BY <1>2 DEF Sites
<1> QED
  BY <1>4, <1>5, <1>6 DEF Cost

\* So the total of every configuration is a number.
LEMMA TotalIsNat ==
  ASSUME input \in Inputs, NEW c
  PROVE  SCATotal(c) \in Nat
<1>1. SCADecision(c) \in [Ids -> Sites]
  BY DEF SCADecision, Sites
<1>2. IsProfile(Aligned) /\ Aligned.root = input.root
  BY AlignedIsProfile DEF Aligned
<1> QED
  BY <1>1, <1>2, CostIsNat DEF SCATotal

-----------------------------------------------------------------------------
(* The run. *)

Phases == Modes \cup {"command", "usage", "undefined", "aborted", "open", "greedy", "search",
                      "cts", "sca", "sweep", "decision", "list", "done"}
ReusePhases == {"greedy", "search", "cts", "sca", "sweep", "list", "done"}
AfterFiles == {"mpki", "debug", "reuse", "decision"} \cup ReusePhases
Thresholds == {1, 10, 100, 1000, 10000, 100000, 1000000, 10000000}

\* Only reuse mode gets to the decision file, and to the list of blocks.
ModeInv ==
  /\ phase \in Phases
  /\ phase = "open" => mode \in {"mpki", "debug", "reuse"}
  /\ phase \in {"mpki", "debug", "reuse"} => mode = phase
  /\ phase \in ReusePhases => mode = "reuse"
  /\ phase \in AfterFiles => input \in Inputs
  /\ cts # << >> => mode = "reuse"

\* best is the first of the cheapest of the first n configurations, unless none
\* of them is cheaper than INT_MAX.
BestOf(n) ==
  /\ best.total \in Int /\ best.total <= IntMax
  /\ \A c \in 1 .. n : best.total <= SCATotal(Configs[c])
  /\ \/ best.total = IntMax
     \/ /\ best.config \in 1 .. n /\ SCATotal(Configs[best.config]) = best.total
        /\ \A c \in 1 .. best.config - 1 : SCATotal(Configs[c]) > best.total

\* The sweep has seen the configurations before config, in the end all.
SweepInv ==
  /\ config \in 1 .. Len(Configs)
  /\ phase \notin {"sweep", "decision", "list", "done", "undefined"} =>
       config = 1 /\ best = [total |-> IntMax, config |-> 0]
  /\ phase = "sweep" => BestOf(config - 1)
  /\ phase \in {"decision", "list", "done"} /\ mode = "reuse" => BestOf(Len(Configs))

\* No misplaced block is above the last threshold, up to the step of it.
SearchedAbove ==
  \/ threshold = FirstThreshold
  \/ \A i \in Misplaced : AbsDiff(i) <= (IF threshold = 0 THEN 1 ELSE 10 * threshold)

\* In a pass the list holds, once each, the blocks before at that are misplaced
\* by more than the threshold, and the potential is zero as long as it is empty.
ListInv ==
  /\ threshold \in Thresholds \cup {0} /\ at \in Ids
  /\ listed \in Seq(Ids) /\ IsInjective(listed)
  /\ potential \in Nat /\ (potential = 0 <=> listed = << >>)
  /\ phase \notin {"list", "done"} => at = 0 /\ threshold = FirstThreshold /\ listed = << >>
  /\ phase = "list" => SearchedAbove /\ Range(listed) = {i \in Ids : i < at /\ IsWrong(i)}
  /\ phase = "done" => SearchedAbove /\ listed # << >> /\ Range(listed) = {i \in Ids : IsWrong(i)}

RunInv == mode \in Modes /\ ModeInv /\ SweepInv /\ ListInv

\* The command line is in order only for three modes.
LEMMA OutcomeFacts ==
  /\ Outcomes \subseteq {"usage", "aborted", "undefined", "open"}
  /\ "open" \in Outcomes => mode \notin {"unknown", "none", "para"}
<1>1. CASE mode \in {"unknown", "none"}
  BY <1>1 DEF Outcomes
<1>2. CASE mode \notin {"unknown", "none"} /\ mode = "para"
  BY <1>2 DEF Outcomes
<1>3. CASE mode \notin {"unknown", "none", "para"}
  <2> DEFINE stops == (IF options \subseteq Known(mode) \ {"h"} THEN {} ELSE {"usage"})
                        \cup (IF "data" \in options \cap Known(mode) THEN {"undefined"} ELSE {})
               throws == IF "d" \in options \cap Known(mode) THEN {"aborted"} ELSE {}
  <2>1. stops \subseteq {"usage", "undefined"} /\ throws \subseteq {"aborted"}
    OBVIOUS
  <2>2. Outcomes = throws \cup IF stops # {} THEN stops
                               ELSE IF Required(mode) \subseteq options THEN {"open"} ELSE {"usage"}
    BY <1>3 DEF Outcomes
  <2> HIDE DEF stops, throws
  <2> QED
    BY <1>3, <2>1, <2>2
<1> QED
  BY <1>1, <1>2, <1>3

\* No step changes the mode, and each phase follows from it.
LEMMA ModeStep ==
  ASSUME ModeInv, mode \in Modes, [Next]_vars
  PROVE  ModeInv' /\ mode' = mode
<1>1. CASE ParseCommand
  <2>1. phase' \in {"usage", "aborted", "undefined", "open"} /\ UNCHANGED <<mode, input, cts>>
          /\ (phase' = "open" => mode \notin {"unknown", "none", "para"})
    BY <1>1, OutcomeFacts DEF ParseCommand, commandVars
  <2> QED
    BY <2>1 DEF ModeInv, Modes, Phases, ReusePhases, AfterFiles
<1>2. CASE Initialize
  <2>1. /\ phase = "open" /\ UNCHANGED <<mode, cts>>
        /\ phase' = "aborted" \/ (phase' = mode /\ input' \in Inputs)
    BY <1>2 DEF Initialize, commandVars
  <2> QED
    BY <2>1 DEF ModeInv, Modes, Phases, ReusePhases, AfterFiles
<1>3. CASE PrintMPKI \/ PrintGreedy \/ PrintSearch \/ PrintSCAFromFile \/ Sweep \/ BeginDecision
             \/ ListBlock
  <2>1. /\ UNCHANGED <<mode, input, cts>>
        /\ \/ phase \in {"mpki", "reuse"} /\ phase' = IF mode = "mpki" THEN "decision" ELSE "greedy"
           \/ phase = "greedy" /\ phase' = "search"
           \/ /\ phase \in {"search", "debug"}
              /\ phase' \in {"undefined", IF mode = "debug" THEN "decision" ELSE "cts"}
           \/ phase = "sca" /\ phase' \in {"undefined", "sweep"}
           \/ phase = "sweep" /\ phase' \in {"sweep", "decision"}
           \/ phase = "decision" /\ phase' = IF cts = << >> THEN "undefined" ELSE "list"
           \/ phase = "list" /\ phase' \in {"list", "done"}
    <3>1. CASE PrintMPKI \/ PrintGreedy \/ PrintSearch
      BY <3>1 DEF PrintMPKI, PrintGreedy, PrintSearch, commandVars
    <3>2. CASE PrintSCAFromFile \/ BeginDecision
      BY <3>2 DEF PrintSCAFromFile, BeginDecision, commandVars
    <3>3. CASE Sweep
      BY <3>3 DEF Sweep, commandVars
    <3>4. CASE ListBlock
      BY <3>4 DEF ListBlock, EndPass, commandVars
    <3> QED
      BY <1>3, <3>1, <3>2, <3>3, <3>4
  <2> QED
    BY <2>1 DEF ModeInv, Modes, Phases, ReusePhases, AfterFiles
<1>4. CASE PrintCTS
  <2>1. phase = "cts" /\ phase' = "sca" /\ UNCHANGED <<mode, input>>
    BY <1>4 DEF PrintCTS, commandVars
  <2> QED
    BY <2>1 DEF ModeInv, Modes, Phases, ReusePhases, AfterFiles
<1>5. CASE UNCHANGED vars
  BY <1>5 DEF ModeInv, vars, commandVars
<1> QED
  BY <1>1, <1>2, <1>3, <1>4, <1>5 DEF Next

\* What is computed from the files stays the same while they do.
LEMMA SameInput ==
  ASSUME input' = input
  PROVE  /\ \A c : SCATotal(c)' = SCATotal(c)
         /\ \A i : Diff(i)' = Diff(i) /\ AbsDiff(i)' = AbsDiff(i)
<1>1. \A i : PimStats(i)' = PimStats(i)
  BY DEF PimStats
<1>2. Aligned' = Aligned
  BY DEF PimStats, Aligned
<1>3. \A c : SCADecision(c)' = SCADecision(c)
  BY <1>1 DEF SCADecision, PimStats, PimInstructions
<1>4. ASSUME NEW c PROVE SCATotal(c)' = SCATotal(c)
  BY <1>2, <1>3 DEF SCATotal
<1>5. ASSUME NEW i PROVE Diff(i)' = Diff(i) /\ AbsDiff(i)' = AbsDiff(i)
  BY <1>2 DEF Diff, AbsDiff
<1> QED
  BY <1>4, <1>5

\* No other step has to do with the sweep, or with the files once they are read.
LEMMA OtherSteps ==
  ASSUME ModeInv, mode \in Modes, [Next]_vars
  PROVE  /\ ~Sweep => UNCHANGED <<config, best>>
         /\ ~ListBlock => UNCHANGED printVars
         /\ phase \in AfterFiles => UNCHANGED <<input, mode>>
         /\ phase \in {"list", "done"} => UNCHANGED cts
         /\ phase' = "sweep" => phase = "sca" \/ Sweep \/ UNCHANGED vars
         /\ phase' = "decision" => Sweep \/ mode # "reuse" \/ UNCHANGED vars
         /\ phase' = "list" => phase = "decision" \/ ListBlock \/ UNCHANGED vars
         /\ phase' = "done" => ListBlock \/ UNCHANGED vars
         /\ phase \in {"list", "done"} => ListBlock \/ UNCHANGED vars
         /\ phase \in {"sweep", "decision", "list", "done", "undefined"} =>
              phase' \in {"sweep", "decision", "list", "done", "undefined"}
<1>1. CASE ParseCommand
  <2>1. phase = "command" /\ phase' \in {"usage", "aborted", "undefined", "open"}
    BY <1>1, OutcomeFacts DEF ParseCommand
  <2> QED
    BY <1>1, <2>1 DEF ParseCommand, AfterFiles, ReusePhases
<1>2. CASE Initialize
  <2>1. phase = "open" /\ phase' \in {"aborted", mode}
    BY <1>2 DEF Initialize
  <2> QED
    BY <1>2, <2>1 DEF Initialize, AfterFiles, ReusePhases, Modes
<1>3. CASE PrintMPKI
  BY <1>3 DEF PrintMPKI, commandVars, ModeInv
<1>4. CASE PrintGreedy
  BY <1>4 DEF PrintGreedy, commandVars
<1>5. CASE PrintSearch
  BY <1>5 DEF PrintSearch, commandVars, ModeInv, ReusePhases
<1>6. CASE PrintCTS
  BY <1>6 DEF PrintCTS, commandVars
<1>7. CASE PrintSCAFromFile
  BY <1>7 DEF PrintSCAFromFile, commandVars
<1>8. CASE Sweep
  BY <1>8 DEF Sweep, commandVars
<1>9. CASE BeginDecision
  BY <1>9 DEF BeginDecision, commandVars
<1>10. CASE ListBlock
  BY <1>10 DEF ListBlock, EndPass, commandVars
<1>11. CASE UNCHANGED vars
  BY <1>11 DEF vars, commandVars
<1> QED
  BY <1>1, <1>2, <1>3, <1>4, <1>5, <1>6, <1>7, <1>8, <1>9, <1>10, <1>11 DEF Next

-----------------------------------------------------------------------------
(* The sweep. *)

\* One configuration more: the first of the cheapest so far is kept.
LEMMA SweepKeeps ==
  ASSUME ModeInv, mode \in Modes, SweepInv, Sweep
  PROVE  SweepInv'
<1>1. phase = "sweep" /\ input \in Inputs /\ mode = "reuse" /\ UNCHANGED <<input, mode>>
  BY DEF Sweep, ModeInv, AfterFiles, ReusePhases, commandVars
<1>2. BestOf(config - 1) /\ config \in 1 .. Len(Configs)
  BY <1>1 DEF SweepInv
<1>3. PICK total : /\ total = SCATotal(Configs[config])
                   /\ best' = IF total < best.total THEN [total |-> total, config |-> config] ELSE best
  BY DEF Sweep, Better
<1>4. total \in Nat /\ IntMax \in Nat /\ Len(Configs) \in Nat
  BY <1>1, <1>3, TotalIsNat, SolverAssumption
<1>5. PICK f : f = [c \in 1 .. Len(Configs) |-> SCATotal(Configs[c])]
  OBVIOUS
<1>6. /\ \A c \in 1 .. Len(Configs) : SCATotal(Configs[c]) = f[c] /\ SCATotal(Configs[c])' = f[c]
      /\ \A c \in 1 .. Len(Configs) : f[c] \in Nat
  <2>1. \A c \in 1 .. Len(Configs) : SCATotal(Configs[c]) = f[c] /\ f[c] \in Nat
    BY <1>1, <1>5, TotalIsNat
  <2> QED
    BY <1>1, <2>1, SameInput
<1>7. PICK n : n = config
  OBVIOUS
<1>8. n \in 1 .. Len(Configs)
  BY <1>2, <1>7
<1>9. /\ best.total \in Int /\ best.total <= IntMax
      /\ \A c \in 1 .. n - 1 : best.total <= f[c]
      /\ \/ best.total = IntMax
         \/ \E first \in 1 .. n - 1 :
              /\ best.config = first /\ f[first] = best.total
              /\ \A c \in 1 .. first - 1 : f[c] > best.total
  <2>1. \A c \in 1 .. n - 1 : c \in 1 .. Len(Configs) /\ \A b \in 1 .. c - 1 : b \in 1 .. Len(Configs)
    BY <1>4, <1>8
  <2>2. BestOf(n - 1)
    BY <1>2, <1>7
  <2> QED
    BY <1>6, <2>1, <2>2 DEF BestOf
<1>10. /\ best'.total \in Int /\ best'.total <= IntMax
       /\ \A c \in 1 .. n : best'.total <= f[c]
       /\ \/ best'.total = IntMax
          \/ \E first \in 1 .. n :
               /\ best'.config = first /\ f[first] = best'.total
               /\ \A c \in 1 .. first - 1 : f[c] > best'.total
  <2>1. f[n] = total
    BY <1>3, <1>6, <1>7, <1>8
  <2>2. CASE total < best.total
    <3>1. best'.total = total /\ best'.config = n
      BY <1>3, <1>7, <2>2
    <3>2. \A c \in 1 .. n - 1 : f[c] > total
      BY <1>4, <1>6, <1>8, <1>9, <2>2
    <3>3. \A c \in 1 .. n : total <= f[c]
      BY <1>4, <1>6, <1>8, <2>1, <3>2
    <3> QED
      BY <1>4, <1>8, <1>9, <2>1, <2>2, <3>1, <3>2, <3>3
  <2>3. CASE ~(total < best.total)
    BY <1>3, <1>4, <1>8, <1>9, <2>1, <2>3
  <2> QED
    BY <2>2, <2>3
<1>11. BestOf(n)'
  <2>1. \A c \in 1 .. n : c \in 1 .. Len(Configs) /\ \A b \in 1 .. c - 1 : b \in 1 .. Len(Configs)
    BY <1>4, <1>8
  <2> QED
    BY <1>6, <1>10, <2>1 DEF BestOf
<1>12. \/ phase' = "decision" /\ n = Len(Configs) /\ config' = n
       \/ phase' = "sweep" /\ config' = n + 1 /\ n # Len(Configs)
  BY <1>1, <1>7 DEF Sweep
<1>13. CASE phase' = "decision"
  BY <1>8, <1>11, <1>12, <1>13 DEF SweepInv
<1>14. CASE phase' = "sweep"
  <2>1. config' \in 1 .. Len(Configs) /\ config' - 1 = n
    BY <1>4, <1>8, <1>12, <1>14
  <2>2. BestOf(config - 1)'
    BY <1>11, <2>1 DEF BestOf
  <2> QED
    BY <1>14, <2>1, <2>2 DEF SweepInv
<1> QED
  BY <1>12, <1>13, <1>14

\* Before the sweep nothing has been searched, after it best stays.
LEMMA SweepStep ==
  ASSUME ModeInv, mode \in Modes, SweepInv, [Next]_vars
  PROVE  SweepInv'
<1>1. CASE Sweep
  BY <1>1, SweepKeeps
<1>2. CASE ~Sweep
  <2>1. UNCHANGED <<config, best>>
    BY <1>2, OtherSteps
  <2>2. mode' = mode /\ IntMax \in Nat /\ Len(Configs) \in Nat
    BY ModeStep, SolverAssumption
  <2>3. phase \in AfterFiles => input' = input
    BY OtherSteps
  <2>4. ASSUME input' = input, NEW n, BestOf(n) PROVE BestOf(n)'
    BY <2>1, <2>4, SameInput DEF BestOf
  <2>5. config' \in 1 .. Len(Configs)
    BY <2>1 DEF SweepInv
  <2>6. phase' \notin {"sweep", "decision", "list", "done", "undefined"} =>
          config' = 1 /\ best' = [total |-> IntMax, config |-> 0]
    BY <2>1, OtherSteps DEF SweepInv
  <2>7. ASSUME phase' = "sweep" PROVE BestOf(config - 1)'
    <3>1. PICK n : n = config - 1
      OBVIOUS
    <3>2. phase = "sca" \/ UNCHANGED vars
      BY <1>2, <2>7, OtherSteps
    <3>3. BestOf(n) /\ input' = input
      <4>1. CASE phase = "sca"
        <5>1. n = 0 /\ best = [total |-> IntMax, config |-> 0]
          BY <3>1, <4>1 DEF SweepInv
        <5> QED
          BY <2>2, <2>3, <4>1, <5>1 DEF BestOf, AfterFiles, ReusePhases
      <4>2. CASE UNCHANGED vars
        BY <2>7, <3>1, <4>2 DEF vars, SweepInv
      <4> QED
        BY <3>2, <4>1, <4>2
    <3> QED
      BY <2>1, <2>4, <3>1, <3>3 DEF BestOf
  <2>8. ASSUME phase' \in {"decision", "list", "done"}, mode' = "reuse" PROVE BestOf(Len(Configs))'
    <3>1. phase \in {"decision", "list", "done"}
      BY <1>2, <2>2, <2>8, OtherSteps DEF vars, ListBlock
    <3>2. input' = input
      BY <2>3, <3>1 DEF AfterFiles, ReusePhases
    <3> QED
      BY <2>2, <2>4, <2>8, <3>1, <3>2 DEF SweepInv
  <2> QED
    BY <2>5, <2>6, <2>7, <2>8 DEF SweepInv
<1> QED
  BY <1>1, <1>2

-----------------------------------------------------------------------------
(* The list. *)

\* The difference is the time of the one site less that of the other.
LEMMA AbsDiffFacts ==
  ASSUME input \in Inputs, NEW i \in Ids
  PROVE  /\ Diff(i) \in Int /\ AbsDiff(i) \in Nat
         /\ AbsDiff(i) = IF Diff(i) < 0 THEN -Diff(i) ELSE Diff(i)
<1>1. Aligned.time["CPU"][i] \in Nat /\ Aligned.time["PIM"][i] \in Nat
  BY AlignedIsProfile DEF IsProfile, Sites
<1>2. Diff(i) \in Int
  BY <1>1 DEF Diff
<1>3. PICK d : d = Diff(i)
  OBVIOUS
<1>4. IsFiniteSet({d, -d}) /\ {d, -d} \in SUBSET Int /\ {d, -d} # {}
  <2>1. {d, -d} = {d} \cup {-d}
    OBVIOUS
  <2>2. IsFiniteSet({d} \cup {-d})
    BY FS_Singleton, FS_AddElement
  <2> QED
    BY <1>2, <1>3, <2>1, <2>2
<1>5. Max({d, -d}) \in {d, -d} /\ \A e \in {d, -d} : e <= Max({d, -d})
  BY <1>4, LeastAndGreatest
<1>6. AbsDiff(i) = Max({d, -d})
  BY <1>3 DEF AbsDiff
<1> QED
  BY <1>2, <1>3, <1>5, <1>6

\* The loop looks for the misplaced blocks above the threshold.
LEMMA WrongFacts ==
  ASSUME input \in Inputs, threshold \in Nat, NEW i \in Ids
  PROVE  IsWrong(i) <=> i \in Misplaced /\ AbsDiff(i) > threshold
BY AbsDiffFacts DEF IsWrong, Misplaced

\* Which blocks they are follows from the files, the decision and the threshold.
LEMMA SameBlocks ==
  ASSUME input' = input, cts' = cts
  PROVE  /\ Misplaced' = Misplaced
         /\ threshold' = threshold => \A i : IsWrong(i)' = IsWrong(i)
<1>1. \A i \in Ids : Diff(i)' = Diff(i)
  BY SameInput
<1>2. Misplaced' = Misplaced
  BY <1>1 DEF Misplaced
<1>3. ASSUME threshold' = threshold, NEW i PROVE IsWrong(i)' = IsWrong(i)
  BY <1>3, SameInput DEF IsWrong
<1> QED
  BY <1>2, <1>3

\* One block more is listed if it is wrong.
LEMMA Listed ==
  ASSUME input \in Inputs, phase = "list", ListInv, ListBlock
  PROVE  /\ listed' \in Seq(Ids) /\ IsInjective(listed')
         /\ potential' \in Nat /\ (potential' = 0 <=> listed' = << >>)
         /\ Range(listed') = {i \in Ids : i < at + 1 /\ IsWrong(i)}
<1>1. /\ threshold \in Nat /\ at \in Ids /\ at \in Nat /\ N \in Nat
      /\ listed \in Seq(Ids) /\ IsInjective(listed)
      /\ potential \in Nat /\ (potential = 0 <=> listed = << >>)
      /\ Range(listed) = {i \in Ids : i < at /\ IsWrong(i)}
  BY NAssumption DEF ListInv, Thresholds, Ids
<1>2. Ids \subseteq Nat
  BY IdsAreFinite
<1>3. \A i \in Ids : i < at + 1 <=> i < at \/ i = at
  BY <1>1, <1>2
<1>4. CASE ~IsWrong(at)
  <2>1. UNCHANGED <<potential, listed>>
    BY <1>4 DEF ListBlock
  <2>2. {i \in Ids : i < at + 1 /\ IsWrong(i)} = {i \in Ids : i < at /\ IsWrong(i)}
    BY <1>4, <1>3
  <2> QED
    BY <1>1, <2>1, <2>2
<1>5. CASE IsWrong(at)
  <2>1. potential' = potential + AbsDiff(at) /\ listed' = Append(listed, at)
    BY <1>5 DEF ListBlock
  <2>2. AbsDiff(at) \in Nat /\ AbsDiff(at) > 0
    BY <1>1, <1>5, AbsDiffFacts, WrongFacts
  <2>3. at \notin Range(listed)
    BY <1>1
  <2>4. Range(listed') = Range(listed) \cup {at} /\ listed' \in Seq(Ids) /\ listed' # << >>
    BY <1>1, <2>1, AppendProperties DEF Range
  <2>5. IsInjective(listed')
    BY <1>1, <2>1, <2>3 DEF IsInjective, Range
  <2>6. {i \in Ids : i < at + 1 /\ IsWrong(i)} = {i \in Ids : i < at /\ IsWrong(i)} \cup {at}
    BY <1>1, <1>5, <1>3
  <2>7. potential' \in Nat /\ potential' # 0
    BY <1>1, <2>1, <2>2
  <2> QED
    BY <1>1, <2>4, <2>5, <2>6, <2>7
<1> QED
  BY <1>4, <1>5

\* A threshold is left for the next only if no misplaced block is above it.
LEMMA ListBlockKeeps ==
  ASSUME ModeInv, ListInv, ListBlock
  PROVE  ListInv'
<1>1. phase = "list" /\ input \in Inputs /\ UNCHANGED <<input, cts>>
  BY DEF ListBlock, ModeInv, AfterFiles, ReusePhases
<1>2. /\ threshold \in Thresholds \cup {0} /\ at \in Ids /\ SearchedAbove
      /\ Thresholds \subseteq Nat /\ N \in Nat /\ N > 0 /\ Ids = 0 .. N - 1
  BY <1>1, NAssumption DEF ListInv, Thresholds, Ids
<1>3. /\ listed' \in Seq(Ids) /\ IsInjective(listed)'
      /\ potential' \in Nat /\ (potential' = 0 <=> listed' = << >>)
      /\ Range(listed)' = {i \in Ids : i < at + 1 /\ IsWrong(i)}
  BY <1>1, Listed DEF IsInjective, Range
<1>4. Misplaced' = Misplaced /\ \A i : AbsDiff(i)' = AbsDiff(i)
  BY <1>1, SameBlocks, SameInput
<1>5. threshold' = threshold => SearchedAbove' /\ \A i : IsWrong(i)' = IsWrong(i)
  BY <1>1, <1>2, <1>4, SameBlocks DEF SearchedAbove
<1>6. CASE at # N - 1
  <2>1. phase' = "list" /\ threshold' = threshold /\ at' = at + 1
    BY <1>1, <1>6 DEF ListBlock
  <2>2. at' \in Ids
    BY <1>2, <1>6, <2>1
  <2>3. Range(listed)' = {i \in Ids : i < at' /\ IsWrong(i)'}
    BY <1>3, <1>5, <2>1
  <2> QED
    BY <1>2, <1>3, <1>5, <2>1, <2>2, <2>3 DEF ListInv
<1>7. CASE at = N - 1
  <2>1. Range(listed)' = {i \in Ids : IsWrong(i)}
    BY <1>2, <1>3, <1>7
  <2>2. CASE potential' > 0
    <3>1. phase' = "done" /\ threshold' = threshold /\ at' = at
      BY <1>7, <2>2 DEF ListBlock, EndPass
    <3>2. Range(listed)' = {i \in Ids : IsWrong(i)'}
      BY <1>5, <2>1, <3>1
    <3> QED
      BY <1>2, <1>3, <1>5, <2>2, <3>1, <3>2 DEF ListInv
  <2>3. CASE ~(potential' > 0)
    <3>1. phase' = "list" /\ threshold' = threshold \div 10 /\ at' = 0
      BY <1>1, <1>7, <2>3 DEF ListBlock, EndPass
    <3>2. listed' = << >> /\ Range(listed)' = {}
      BY <1>3, <2>3 DEF Range
    <3>3. \A i \in Misplaced : AbsDiff(i) \in Nat /\ AbsDiff(i) <= threshold
      <4>1. \A i \in Misplaced : i \in Ids /\ ~IsWrong(i)
        BY <2>1, <3>2 DEF Misplaced
      <4> QED
        BY <1>1, <1>2, <4>1, AbsDiffFacts, WrongFacts
    <3>4. /\ threshold' \in Thresholds \cup {0}
          /\ threshold' = 0 => threshold <= 1
          /\ threshold' # 0 => threshold <= 10 * threshold'
      BY <1>2, <3>1 DEF Thresholds
    <3>5. SearchedAbove'
      <4>1. threshold \in Nat /\ threshold' \in Nat
        BY <1>2, <3>4
      <4>2. \A i \in Misplaced : AbsDiff(i) <= IF threshold' = 0 THEN 1 ELSE 10 * threshold'
        <5>1. CASE threshold' = 0
          BY <3>3, <3>4, <4>1, <5>1
        <5>2. CASE threshold' # 0
          <6>1. PICK t, u : t = threshold /\ u = threshold'
            OBVIOUS
          <6>2. t \in Nat /\ u \in Nat /\ t <= 10 * u
            BY <3>4, <4>1, <5>2, <6>1
          <6>3. ASSUME NEW i \in Misplaced PROVE AbsDiff(i) <= 10 * u
            <7>1. PICK d : d = AbsDiff(i)
              OBVIOUS
            <7>2. d \in Nat /\ d <= t
              BY <3>3, <6>1, <7>1
            <7>3. d <= 10 * u
              BY <6>2, <7>2
            <7> QED
              BY <7>1, <7>3
          <6> QED
            BY <5>2, <6>1, <6>3
        <5> QED
          BY <5>1, <5>2
      <4> QED
        BY <1>4, <4>2 DEF SearchedAbove
    <3>6. Range(listed)' = {i \in Ids : i < at' /\ IsWrong(i)'} /\ at' \in Ids
      BY <1>2, <3>1, <3>2
    <3> QED
      BY <1>3, <3>1, <3>4, <3>5, <3>6 DEF ListInv
  <2> QED
    BY <2>2, <2>3
<1> QED
  BY <1>6, <1>7

\* The report begins with an empty list and the first threshold.
LEMMA ListStep ==
  ASSUME ModeInv, mode \in Modes, ListInv, [Next]_vars
  PROVE  ListInv'
<1>1. CASE ListBlock
  BY <1>1, ListBlockKeeps
<1>2. CASE ~ListBlock /\ phase' \in {"list", "done"} /\ phase' = phase
  <2>1. UNCHANGED <<printVars, input, cts, phase>>
    BY <1>2, OtherSteps DEF AfterFiles, ReusePhases
  <2>2. /\ Misplaced' = Misplaced
        /\ \A i : AbsDiff(i)' = AbsDiff(i)
        /\ \A i : IsWrong(i)' = IsWrong(i)
    BY <2>1, SameBlocks, SameInput DEF printVars
  <2>3. SearchedAbove' = SearchedAbove
    BY <2>1, <2>2 DEF SearchedAbove, printVars
  <2> QED
    BY <2>1, <2>2, <2>3 DEF ListInv, printVars, IsInjective, Range
<1>3. CASE ~ListBlock /\ ~(phase' \in {"list", "done"} /\ phase' = phase)
  <2>1. UNCHANGED printVars /\ phase \notin {"list", "done"} /\ phase' # "done"
    BY <1>3, OtherSteps DEF vars
  <2>2. /\ at' = 0 /\ threshold' = FirstThreshold /\ listed' = << >>
        /\ threshold' \in Thresholds \cup {0} /\ at' \in Ids
        /\ potential' \in Nat /\ (potential' = 0 <=> listed' = << >>)
        /\ listed' \in Seq(Ids) /\ IsInjective(listed)'
    BY <2>1 DEF ListInv, printVars, IsInjective
  <2>3. SearchedAbove'
    BY <2>2 DEF SearchedAbove
  <2>4. Range(listed)' = {i \in Ids : i < at' /\ IsWrong(i)'}
    <3>1. \A i \in Ids : ~(i < 0)
      BY IdsAreFinite
    <3>2. Range(listed)' = {}
      BY <2>2 DEF Range
    <3> QED
      BY <2>2, <3>1, <3>2
  <2> QED
    BY <2>1, <2>2, <2>3, <2>4 DEF ListInv
<1> QED
  BY <1>1, <1>2, <1>3

-----------------------------------------------------------------------------
(* Theorems *)

\* Every reachable state has the invariant above: the decision file is read in
\* reuse mode only, best is the first of the cheapest configurations tried, and
\* the list holds the blocks of the pass that are misplaced by more than the
\* threshold (CostSolver.cpp:298-338, 469-561).
THEOREM RunInvariant == Spec => []RunInv
<1>1. Init => RunInv
  <2> SUFFICES ASSUME Init PROVE RunInv
    OBVIOUS
  <2>1. ModeInv /\ mode \in Modes
    BY DEF Init, ModeInv, Modes, Phases, ReusePhases, AfterFiles
  <2>2. SweepInv
    BY SolverAssumption DEF Init, SweepInv
  <2>3. ListInv
    BY SolverAssumption, IdsAreFinite DEF Init, ListInv, Thresholds, IsInjective
  <2> QED
    BY <2>1, <2>2, <2>3 DEF RunInv
<1>2. RunInv /\ [Next]_vars => RunInv'
  BY ModeStep, SweepStep, ListStep DEF RunInv
<1> QED
  BY <1>1, <1>2, PTL DEF Spec

\* Of the configurations of the sweep the first of the cheapest is kept, unless
\* all cost more than an int holds (CostSolver.cpp:322-330, CostSolver.h:149).
THEOREM SweepTheorem == Spec => []SweepKeepsFirstCheapest
<1>1. RunInv => SweepKeepsFirstCheapest
  <2> SUFFICES ASSUME RunInv, phase = "list" PROVE SweepKeepsFirstCheapest
    BY DEF SweepKeepsFirstCheapest
  <2>1. BestOf(Len(Configs)) /\ input \in Inputs
    BY DEF RunInv, SweepInv, ModeInv, AfterFiles, ReusePhases
  <2>2. DOMAIN Configs = 1 .. Len(Configs) /\ Len(Configs) \in Nat /\ IntMax \in Nat
    BY SolverAssumption
  <2> DEFINE totals == {SCATotal(Configs[c]) : c \in DOMAIN Configs}
             S == totals \cup {IntMax}
  <2>3. totals \subseteq Nat
    BY <2>1, TotalIsNat
  <2>4. IsFiniteSet(totals)
    <3>1. IsFiniteSet(DOMAIN Configs)
      BY <2>2, FS_Interval
    <3>2. PICK f : f = [c \in DOMAIN Configs |-> SCATotal(Configs[c])]
      OBVIOUS
    <3>3. f \in Surjection(DOMAIN Configs, totals)
      BY <3>2 DEF Surjection
    <3> HIDE DEF totals
    <3> QED
      BY <3>1, <3>3, FS_Surjection
  <2>5. best.total \in S /\ \A t \in S : best.total <= t
    BY <2>1, <2>2 DEF BestOf
  <2> HIDE DEF totals
  <2>6. IsFiniteSet(S) /\ S \in SUBSET Int /\ S # {}
    BY <2>2, <2>3, <2>4, FS_AddElement
  <2> HIDE DEF S
  <2>7. Min(S) \in S /\ \A t \in S : Min(S) <= t
    BY <2>6, LeastAndGreatest
  <2>8. best.total = Min(S)
    <3>1. \A s, t \in S : s <= t /\ t <= s => s = t
      BY <2>6
    <3> QED
      BY <2>5, <2>7, <3>1
  <2>9. best.total < IntMax =>
          /\ SCATotal(Configs[best.config]) = best.total
          /\ \A c \in 1 .. best.config - 1 : SCATotal(Configs[c]) > best.total
    BY <2>1, <2>2 DEF BestOf
  <2> QED
    BY <2>8, <2>9 DEF SweepKeepsFirstCheapest, S, totals
<1> QED
  BY <1>1, RunInvariant, PTL

\* In reuse mode the report ends only if the decision file misplaces a block
\* (CostSolver.cpp:517).
THEOREM EndsTheorem == Spec => []EndsOnlyIfMisplaced
<1>1. RunInv => EndsOnlyIfMisplaced
  <2> SUFFICES ASSUME RunInv, phase = "done", mode = "reuse" PROVE Misplaced # {}
    BY DEF EndsOnlyIfMisplaced
  <2>1. input \in Inputs
    BY DEF RunInv, ModeInv, AfterFiles, ReusePhases
  <2>2. /\ listed \in Seq(Ids) /\ listed # << >> /\ threshold \in Nat
        /\ Range(listed) = {i \in Ids : IsWrong(i)}
    BY DEF RunInv, ListInv, Thresholds
  <2>3. listed[1] \in Range(listed)
    BY <2>2 DEF Range
  <2> QED
    BY <2>1, <2>2, <2>3, WrongFacts
<1> QED
  BY <1>1, RunInvariant, PTL

\* The report lists each of the worst misplaced blocks once
\* (CostSolver.cpp:481-557).
THEOREM ListTheorem == Spec => []ListsTheWorst
<1>1. RunInv => ListsTheWorst
  <2> SUFFICES ASSUME RunInv, phase = "done" PROVE ListsTheWorst
    BY DEF ListsTheWorst
  <2>1. input \in Inputs
    BY DEF RunInv, ModeInv, AfterFiles, ReusePhases
  <2>2. /\ IsInjective(listed) /\ threshold \in Nat /\ SearchedAbove
        /\ Range(listed) = {i \in Ids : IsWrong(i)}
    BY DEF RunInv, ListInv, Thresholds
  <2>3. Range(listed) = {i \in Misplaced : AbsDiff(i) > threshold}
    BY <2>1, <2>2, WrongFacts DEF Misplaced
  <2>4. FirstThreshold \in Nat
    BY SolverAssumption
  <2> QED
    BY <2>2, <2>3, <2>4 DEF ListsTheWorst, SearchedAbove
<1> QED
  BY <1>1, RunInvariant, PTL
=============================================================================
