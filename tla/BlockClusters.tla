---------------------------- MODULE BlockClusters ----------------------------
(***************************************************************************)
(* The decision read from the static-analysis file, and its correction by  *)
(* data movement (PrintSCAStatsFromfile and TopReuseBBPairs in             *)
(* CostSolver.cpp, DisjointSet in Util.h): pairs of blocks that move much  *)
(* data between them are clustered, and each cluster is put on one site.   *)
(***************************************************************************)
EXTENDS Integers, Sequences, FiniteSetsExt, SequencesExt

CONSTANTS
  N,              \* number of basic blocks, known by id
  Inputs,         \* what was parsed: see Input
  MoveThreshold,  \* _dataMoveThreshold is 1/MoveThreshold, 1/100 in the code
  ClMoveCost, RegMoveCost  \* _flush_cost[CPU] + _fetch_cost[PIM], _switch_cost[CPU]

ASSUME NAssumption == N \in Nat \ {0}
ASSUME CostAssumption == {MoveThreshold, ClMoveCost, RegMoveCost} \subseteq Nat \ {0}

Blocks == 0 .. N - 1
Sites == {"CPU", "PIM"}
Pairs == {{a, b} : a, b \in Blocks}   \* {a} is the pair of a with itself

(***************************************************************************)
(* An input is the site the static-analysis file names for each block, or  *)
(* "none"; the faster site of the block MAIN_BBLHASH names (-1 if none     *)
(* does); and the reuse file: the segments with their blocks in the order  *)
(* printed, which is that of addresses, and the switches counted.          *)
(***************************************************************************)
Input ==
  [file : [Blocks -> Sites \cup {"Follower", "none"}], main : Blocks \cup {-1},
   mainSite : Sites, segments : SUBSET [head : Blocks, blocks : Seq(Blocks), count : Nat],
   switches : [Blocks \X Blocks -> Nat]]

VARIABLES
  input,
  decision,  \* the decision under correction
  vec,       \* the pairs and their costs
  left,      \* the pairs the union loop has not come to yet
  parent,    \* DisjointSet::parent
  redecide,  \* toRedecideBBL
  dsCount,   \* dsCount: [pim, other] of each root
  todo,      \* the part of toRedecideBBL the current loop has left
  phase

vars == <<input, decision, vec, left, parent, redecide, dsCount, todo, phase>>

-----------------------------------------------------------------------------
(* The decision of the file.  Blocks are in the order of their hashes. *)

SiteFor(in, i, previous) ==
  IF i = in.main THEN in.mainSite
  ELSE CASE in.file[i] = "Follower" -> previous
         [] in.file[i] = "none" -> "CPU"
         [] OTHER -> in.file[i]

ScaFromFile(in) ==
  LET site[i \in Blocks] == SiteFor(in, i, IF i = 0 THEN "PIM" ELSE site[i - 1])
  IN site

-----------------------------------------------------------------------------
(* DisjointSet.  Walk is the chain of parents of l. *)

Walk(p, l) ==
  LET step[k \in 0 .. Cardinality(DOMAIN p)] == IF k = 0 THEN l ELSE p[step[k - 1]]
  IN step
Root(p, l) == IF l \in DOMAIN p THEN Walk(p, l)[Cardinality(DOMAIN p)] ELSE l

Insert(p, l) == [x \in (DOMAIN p) \cup {l} |-> IF x \in DOMAIN p THEN p[x] ELSE l]

\* Find(l): a new block becomes its own parent; from a known one every second
\* block on the way to the root skips a generation.
Found(p, l) ==
  IF l \notin DOMAIN p THEN Insert(p, l)
  ELSE LET skipping == {Walk(p, l)[k] : k \in {k \in 0 .. Cardinality(DOMAIN p) : k % 2 = 0}}
       IN [x \in DOMAIN p |-> IF x \in skipping THEN p[p[x]] ELSE p[x]]

\* Union(m, n)
MutUnion(p, m, n) == [Found(Found(p, m), n) EXCEPT ![m] = Root(p, n)]
MutUnionRootless(p, m, n) == [Found(Found(p, m), n) EXCEPT ![Root(p, m)] = n]
Union(p, m, n) == [Found(Found(p, m), n) EXCEPT ![Root(p, m)] = Root(p, n)]

-----------------------------------------------------------------------------
(* TopReuseBBPairs *)

\* interBB_CL_DM: a segment moves its line from the head to the first block
\* printed, which may be the head, and from each to the next.
InterBBClDm(in, pair) ==
  LET moves(seg) ==
        LET chain == <<seg.head>> \o seg.blocks
        IN seg.count * Cardinality({i \in 1 .. Len(seg.blocks) : {chain[i], chain[i + 1]} = pair})
  IN MapThenSumSet(moves, in.segments)

\* interBB_REG_DM
InterBBRegDm(in, pair) ==
  LET count(e) == in.switches[e]
  IN MapThenSumSet(count, {e \in Blocks \X Blocks : {e[1], e[2]} = pair})

TotalCost(in, pair) ==
  InterBBClDm(in, pair) * ClMoveCost + InterBBRegDm(in, pair) * RegMoveCost

PairCosts(in) ==
  {v \in {[pair |-> pair, cost |-> TotalCost(in, pair)] : pair \in Pairs} : v.cost > 0}

\* vec[0] is read without a look at the size.
Init ==
  /\ input \in Inputs
  /\ decision = ScaFromFile(input)
  /\ vec = PairCosts(input) /\ left = vec
  /\ parent = << >> /\ redecide = {} /\ dsCount = << >> /\ todo = {}
  /\ phase = IF vec = {} THEN "undefined" ELSE "union"

\* vec[0] is the heaviest pair
Heavy(v) == \A w \in vec : v.cost * MoveThreshold >= w.cost

\* From the lightest pair to the heaviest; std::sort may order pairs of equal cost
\* either way.
UnionPair ==
  /\ phase = "union"
  /\ \E v \in left :
       /\ \A w \in left : w.cost >= v.cost
       /\ left' = left \ {v}
       /\ IF Heavy(v)
          THEN /\ redecide' = redecide \cup v.pair
               /\ parent' = Union(parent, Min(v.pair), Max(v.pair))
          ELSE UNCHANGED <<redecide, parent>>
  /\ phase' = IF left' = {} THEN "count" ELSE "union"
  /\ todo' = IF left' = {} THEN redecide' ELSE {}
  /\ UNCHANGED <<input, decision, vec, dsCount>>

\* The loops over toRedecideBBL, a std::set, take the blocks in order.
Comes(b) == \A a \in todo : b <= a

Advance(b, following) ==
  /\ todo' = IF todo = {b} THEN redecide ELSE todo \ {b}
  /\ phase' = IF todo = {b} THEN following ELSE phase

\* dsCount counts a block of the file's Followers with those of the CPU.
MutIsPim(b) == decision[b] = "PIM"
IsPim(b) == input.file[b] = "PIM"

CountOf(r) == IF r \in DOMAIN dsCount THEN dsCount[r] ELSE [pim |-> 0, other |-> 0]

CountBlock ==
  /\ phase = "count"
  /\ \E b \in todo :
       /\ Comes(b)
       /\ LET r == Root(parent, b)
              count == IF IsPim(b) THEN [CountOf(r) EXCEPT !.pim = @ + 1]
                                   ELSE [CountOf(r) EXCEPT !.other = @ + 1]
          IN dsCount' = [x \in (DOMAIN dsCount) \cup {r} |-> IF x = r THEN count ELSE dsCount[x]]
       /\ parent' = Found(Found(Found(parent, b), b), b)
       /\ Advance(b, "decide")
  /\ UNCHANGED <<input, decision, vec, left, redecide>>

\* ">=" against half of the blocks that are not for the PIM, rounded down
MutSiteOfCluster(c, b) == IF IsPim(b) THEN "PIM" ELSE "CPU"
SiteOfCluster(c, b) == IF c.pim >= c.other \div 2 THEN "PIM" ELSE "CPU"

DecideBlock ==
  /\ phase = "decide"
  /\ \E b \in todo :
       /\ Comes(b)
       /\ decision' = [decision EXCEPT ![b] = SiteOfCluster(dsCount[Root(parent, b)], b)]
       /\ parent' = Found(Found(parent, b), b)
       /\ Advance(b, "done")
  /\ UNCHANGED <<input, vec, left, redecide, dsCount>>

Next == UnionPair \/ CountBlock \/ DecideBlock

Spec == Init /\ [][Next]_vars

-----------------------------------------------------------------------------
(* Properties *)

\* From every block the parents lead to a block that is its own, so the loop of
\* Find ends, whatever was halved and joined before (Util.h:31-49).
ParentsEnd == \A b \in DOMAIN parent : parent[Root(parent, b)] = Root(parent, b)

\* The classes that the parents stand for, blocks never seen being alone.
Classes == {{b \in Blocks : Root(parent, b) = r} : r \in {Root(parent, b) : b \in Blocks}}

Clusters == INSTANCE Partition WITH classes <- Classes

\* The disjoint set keeps a partition: Union merges two classes, and Find,
\* although it moves blocks to other parents, changes none (Util.h:31-49).
ImplementsPartition == Clusters!Spec

\* Blocks are in one cluster exactly when heavy pairs connect them: no set that
\* keeps the blocks of each heavy pair together has one without the other.
KeepsPairs(S) == \A v \in vec : Heavy(v) /\ v.pair \cap S # {} => v.pair \subseteq S
Connected(a, b) == \A S \in SUBSET Blocks : KeepsPairs(S) /\ a \in S => b \in S

\* The counts that decide a cluster are those of all its blocks, although they
\* are filed under roots found while the forest was still being halved
\* (CostSolver.cpp:1500-1508).
CountsCoverClusters ==
  phase = "decide" =>
    \A b \in redecide :
      LET cluster == {a \in Blocks : Connected(a, b)}
      IN dsCount[Root(parent, b)]
           = [pim |-> Cardinality({a \in cluster : input.file[a] = "PIM"}),
              other |-> Cardinality({a \in cluster : input.file[a] # "PIM"})]

\* In the end blocks that move much data between them are on one site, and the
\* blocks of light pairs are where the file put them (CostSolver.cpp:1527-1536).
HeavyPairsStayTogether ==
  phase = "done" =>
    /\ \A a, b \in Blocks : Connected(a, b) => decision[a] = decision[b]
    /\ \A b \in Blocks \ redecide : decision[b] = ScaFromFile(input)[b]

-----------------------------------------------------------------------------
(* What a comment says and the code does not do *)

\* CostSolver.cpp:390 "Decide follows static decision if others is Follower": a
\* cluster in which the file names the CPU, for every block it does not call a
\* follower, is put on the CPU.
FollowsStaticDecision ==
  phase = "done" =>
    \A b \in redecide :
      LET cluster == {a \in redecide : Connected(a, b)}
      IN (/\ \A a \in cluster : input.file[a] \in {"CPU", "Follower"}
          /\ \E a \in cluster : input.file[a] = "CPU")
           => decision[b] = "CPU"
=============================================================================
