----------------------------- MODULE OffloadCost -----------------------------
(***************************************************************************)
(* What a decision costs (CostSolver.cpp: Cost and what it calls).  Basic  *)
(* blocks are known by id; a decision puts each on a site, or nowhere yet. *)
(***************************************************************************)
EXTENDS Integers, Sequences, FiniteSetsExt, Functions

CONSTANTS
  N,              \* number of basic blocks, the one outside main included
  FlushCost, FetchCost, SwitchSiteCost  \* per site, in nanoseconds

ASSUME NAssumption == N \in Nat \ {0}
ASSUME CostAssumption ==
  {FlushCost, FetchCost, SwitchSiteCost} \subseteq [{"CPU", "PIM"} -> Nat]

Ids == 0 .. N - 1
Sites == {"CPU", "PIM"}
INVALID == "INVALID"   \* CostSite::INVALID: not yet placed
Decision == [Ids -> Sites \cup {INVALID}]
Other(site) == IF site = "CPU" THEN "PIM" ELSE "CPU"

Trie == INSTANCE ReuseTrie WITH Elem <- Ids, Rank <- [i \in Ids |-> i], NoHead <- -1

(***************************************************************************)
(* A profile is what the solver parsed: the elapsed time of each block on  *)
(* each site, the rows of the switch list (ids up to the last one that has *)
(* a row) and the reuse trie.                                              *)
(***************************************************************************)
CountsLeaves(root) ==
  IsFiniteSet(DOMAIN root.count) /\ root.count \in [DOMAIN root.count -> Nat]

AreMoves(rows, root) ==
  /\ DOMAIN rows \subseteq Ids
  /\ \A from \in DOMAIN rows :
       DOMAIN rows[from] \subseteq Ids /\ rows[from] \in [DOMAIN rows[from] -> Nat]
  /\ CountsLeaves(root)
  /\ \A leaf \in DOMAIN root.count : leaf \in Seq(Ids) /\ leaf # << >>

IsProfile(profile) ==
  profile.time \in [Sites -> [Ids -> Nat]] /\ AreMoves(profile.rows, profile.root)

ElapsedTime(profile, d, site) ==
  SumFunction([i \in Ids |-> IF d[i] = site THEN profile.time[site][i] ELSE 0])

SiteOnlyTime(profile, site) == SumFunction(profile.time[site])

RowCost(row, from, d) ==
  SumFunction([to \in DOMAIN row |->
                 IF d[from] # INVALID /\ d[to] # INVALID /\ d[from] # d[to]
                 THEN SwitchSiteCost[d[from]] * row[to] ELSE 0])

SwitchCost(profile, d) ==
  SumFunction([from \in DOMAIN profile.rows |-> RowCost(profile.rows[from], from, d)])

\* Anything that is not CPU is priced as PIM, INVALID included.
MoveCost(site) ==
  IF site = "CPU" THEN FlushCost["CPU"] + FetchCost["PIM"]
                  ELSE FlushCost["PIM"] + FetchCost["CPU"]

SingleSegMaxReuseCost == Max({MoveCost("CPU"), MoveCost("PIM")})

\* TrieBFS compares each node's site with its parent's on the way down to a
\* leaf; the children of the root have no parent to differ from.
MutDiffersFromHead(d, path) == d[path[1]] # d[path[Len(path)]]
IsDifferent(d, path) == \E i \in 1 .. Len(path) - 1 : d[path[i]] # d[path[i + 1]]

PriceOf(d, path) == MoveCost(d[path[Len(path)]])

ReuseCost(root, d) ==
  SumFunction([leaf \in DOMAIN root.count |->
                 IF IsDifferent(d, leaf) THEN root.count[leaf] * PriceOf(d, leaf) ELSE 0])

Cost(profile, d, root) ==
  ReuseCost(root, d) + SwitchCost(profile, d)
    + ElapsedTime(profile, d, "CPU") + ElapsedTime(profile, d, "PIM")

-----------------------------------------------------------------------------
\* PrintGreedyStats and the filling of INVALID entries: the faster site, the CPU on a tie
Greedy(profile, i) == IF profile.time["CPU"][i] <= profile.time["PIM"][i] THEN "CPU" ELSE "PIM"
=============================================================================
