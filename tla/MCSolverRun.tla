----------------------------- MODULE MCSolverRun -----------------------------
(* Small inputs for SolverRun: three blocks, the second being main or none   *)
(* and the third one that the PIM run of the program may not have met.       *)
EXTENDS SolverRun

MCFlush == [s \in {"CPU", "PIM"} |-> IF s = "CPU" THEN 60 ELSE 30]
MCFetch == MCFlush
MCSwitch == [s \in {"CPU", "PIM"} |-> 800]

\* One thread on the CPU, two on the PIM.
CpuStats(time) == [times |-> <<time>>, instr |-> 100, mem |-> 1]
PimTimes == {<<300, 300>>, <<305, 0>>, <<1000, 200>>}

Idle == [times |-> <<50, 0>>, instr |-> 0, mem |-> 0]
PimRuns ==
  {(0 :> Idle @@ 1 :> [times |-> t, instr |-> 100, mem |-> mem]) :
     t \in PimTimes, mem \in {0, 1}}
PimRunsOfAll == {r @@ (2 :> [times |-> t, instr |-> 50, mem |-> 9]) : r \in PimRuns, t \in PimTimes}

\* A program that starts main and the third block once, or no block at all.
Rows == (0 :> (1 :> 1) @@ 1 :> (2 :> 1))
NoRows == << >>

\* The decision file may be that of another kind, with followers.
Files == [Ids -> {"CPU", "PIM", "none"}] \cup {[i \in Ids |-> "Follower"]}

CpuRun(t) == [i \in Ids |-> CpuStats(t[i + 1])]
Measured(t, mains) ==
  [cpu : {CpuRun(t)}, pim : PimRuns \cup PimRunsOfAll, rows : {Rows},
   root : {Trie!EmptyRoot}, main : mains, file : Files]

\* Without a main, the file may misplace blocks on both sites at once.
MCInputs ==
  Measured(<<50, 300, 300>>, {1})
    \cup Measured(<<50, 1000, 300>>, {1, -1})
    \cup [cpu : {CpuRun(<<50, 50, 50>>)}, pim : {<< >>}, rows : {NoRows},
          root : {Trie!EmptyRoot}, main : {-1}, file : {[i \in Ids |-> "none"]}]

\* i, k and j of the three loops, and what they stand for in the code: the
\* values 0 to 90, 0 to 9 and 0 to 2 percent.
MCConfigs ==
  [n \in 1 .. 8 |-> [mpki |-> 50 * ((n - 1) \div 4), para |-> ((n - 1) \div 2) % 2,
                     instr |-> 400 * ((n - 1) % 2)]]
=============================================================================
