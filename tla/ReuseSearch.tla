----------------------------- MODULE ReuseSearch -----------------------------
(***************************************************************************)
(* PrintReuseStats (CostSolver.cpp): the search for an offloading decision *)
(* in reuse mode.  Three times, starting from all blocks on the CPU, all   *)
(* on the PIM and none placed, it tries every placement of the blocks of   *)
(* one reuse segment after another, places what is left, flips single      *)
(* blocks and keeps the cheapest result.  The Debug_ variants search once.  *)
(***************************************************************************)
EXTENDS OffloadCost, SequencesExt

CONSTANTS
  Profiles,         \* the parsed inputs to search
  BatchSize,        \* _batch_size, 10 in the code
  BatchThreshold    \* _batch_threshold is 1/BatchThreshold, 1/1000 in the code

ASSUME BatchAssumption == BatchSize \in Nat /\ BatchThreshold \in Nat \ {0}
ASSUME ProfilesAssumption == \A p \in Profiles : IsProfile(p)

MaxSweeps == 2

VARIABLES
  profile,      \* the input; it does not change
  initDecisions,  \* init_decisions; neither does this
  widens,       \* whether a segment is widened by the blocks it switches to; nor this
  leaves,       \* _leaves: <<run, path>>, run 0 being the main trie
  phase,        \* where in PrintReuseStats the program is
  run,          \* which initial decision is being tried
  curNode,      \* cur_node, an index into _leaves that starts at 1 here
  partial,      \* partial_root
  decision, curTotal,
  sweep, id,    \* the two loop counters of the flips
  minDecision, minTotal,  \* min_decision is << >> until the first result
  results       \* history: what each run ended with

inputVars == <<profile, initDecisions, widens>>
searchVars == <<leaves, curNode, partial>>
flipVars == <<sweep, id>>
minVars == <<minDecision, minTotal, results>>
vars == <<inputVars, searchVars, phase, run, decision, curTotal, flipVars, minVars>>

NoNode == 0

Importance(leaf) == profile.root.count[leaf] * SingleSegMaxReuseCost
ElapsedTimeMin ==
  Min({SiteOnlyTime(profile, "CPU"), SiteOnlyTime(profile, "PIM")})
BelowThreshold(leaf) == Importance(leaf) * BatchThreshold < ElapsedTimeMin

\* SortLeaves: by descending count; std::sort may order equals either way
SortedLeaves(root) ==
  {s \in SetToSeqs(DOMAIN root.count) :
     \A i, j \in DOMAIN s : i < j => root.count[s[i]] >= root.count[s[j]]}

Start(inits, widening) ==
  /\ profile \in Profiles
  /\ initDecisions = inits /\ widens = widening
  /\ \E s \in SortedLeaves(profile.root) : leaves = [i \in DOMAIN s |-> <<0, s[i]>>]
  /\ phase = "scan" /\ run = 1
  /\ curNode = NoNode /\ partial = Trie!EmptyRoot
  /\ decision = [i \in Ids |-> INVALID] /\ curTotal = 0
  /\ sweep = 1 /\ id = 0
  /\ minDecision = << >> /\ minTotal = 0 /\ results = << >>

\* PrintReuseStats makes the search three times.  Debug_HierarchicalDecision
\* repeats its text, but makes the search once, and so does
\* Debug_StartFromUnimportantSegment, which permutes the blocks of a segment as
\* they are.
PrintReuseStats == Start(<<"CPU", "PIM", INVALID>>, TRUE)
Debug_HierarchicalDecision == Start(<<INVALID>>, TRUE)
Debug_StartFromUnimportantSegment == Start(<<INVALID>>, FALSE)

Init == PrintReuseStats \/ Debug_HierarchicalDecision \/ Debug_StartFromUnimportantSegment

-----------------------------------------------------------------------------
\* The leaves of earlier runs were deleted with their trie, but not removed.
Dangling(n) == leaves[n][1] # 0

(***************************************************************************)
(* The scan reads one leaf after the other and stops at the first below    *)
(* the threshold.  If there is none among the leaves of the main trie it   *)
(* reads a deleted one or past the end: undefined behaviour.               *)
(***************************************************************************)
ScanStops == {n \in DOMAIN leaves : Dangling(n) \/ BelowThreshold(leaves[n][2])}

NewPartial == Trie!EmptyRoot

Scan ==
  /\ phase = "scan"
  /\ decision' = [i \in Ids |-> initDecisions[run]]
  /\ partial' = NewPartial
  /\ IF ScanStops = {} \/ Dangling(Min(ScanStops))
     THEN phase' = "undefined" /\ curNode' = NoNode
     ELSE phase' = "batch" /\ curNode' = Min(ScanStops)
  /\ UNCHANGED <<inputVars, leaves, run, curTotal, flipVars, minVars>>

Placements(d, batch) ==
  {[i \in Ids |-> IF i \in batch THEN p[i] ELSE d[i]] : p \in [batch -> Sites]}

\* The permutation counter runs from all-PIM to all-CPU, its high bits being
\* the high ids: d comes before e.
TriedBefore(d, e) ==
  \E i \in Ids : /\ d[i] = "PIM" /\ e[i] = "CPU"
                 /\ \A j \in Ids : j > i => d[j] = e[j]

\* PermuteDecision: the first of the cheapest
PermuteDecision(d, batch, root) ==
  CHOOSE best \in Placements(d, batch) :
    \A e \in Placements(d, batch) \ {best} :
      LET b == Cost(profile, best, root)
          c == Cost(profile, e, root)
      IN b < c \/ (b = c /\ TriedBefore(best, e))

SwitchesInto(seg, to) ==
  SumFunction([from \in seg |->
                 IF to \in DOMAIN profile.rows[from] THEN profile.rows[from][to] ELSE 0])

\* The segment grows to BatchSize with the blocks it most often switches to;
\* std::sort of an unordered_map may order equals either way.
Batches(seg) ==
  LET targets == UNION {DOMAIN profile.rows[from] : from \in seg}
      room == Min({BatchSize - Cardinality(seg), Cardinality(targets \ seg)})
  IN {seg \cup extra : extra \in
        {e \in kSubset(room, targets \ seg) :
           \A a \in e, b \in (targets \ seg) \ e : SwitchesInto(seg, a) >= SwitchesInto(seg, b)}}

TooLong(seg) == Cardinality(seg.set) >= BatchSize

\* ++ of the loop over cur_node, downwards
NextNode ==
  /\ curNode' = curNode - 1
  /\ phase' = IF curNode = 1 THEN "fill" ELSE "batch"

MutPushLeaf(seg) == <<<<run, Trie!LeafPath(seg)>>>> \o leaves
PushLeaf(seg) == Append(leaves, <<run, Trie!LeafPath(seg)>>)

InsertPartial(seg) ==
  /\ partial' = Trie!UpdateTrie(partial, seg)
  /\ leaves' = IF Trie!NewLeaf(partial, seg) THEN PushLeaf(seg) ELSE leaves

TryBatch ==
  /\ phase = "batch"
  /\ LET seg == Trie!ExportSegment(profile.root, leaves[curNode][2])
     IN /\ InsertPartial(seg)
        /\ IF TooLong(seg)
           THEN NextNode /\ UNCHANGED <<decision, curTotal>>
           ELSE IF widens /\ ~(seg.set \subseteq DOMAIN profile.rows)
           THEN phase' = "undefined" /\ UNCHANGED <<curNode, decision, curTotal>>  \* getRow
           ELSE /\ NextNode
                /\ \E batch \in (IF widens THEN Batches(seg.set) ELSE {seg.set}) :
                     decision' = PermuteDecision(decision, batch, partial')
                /\ curTotal' = Cost(profile, decision', partial')
  /\ UNCHANGED <<inputVars, run, flipVars, minVars>>

-----------------------------------------------------------------------------
FilledSite(i) == IF decision[i] = INVALID THEN Greedy(profile, i) ELSE decision[i]

\* DeleteTrie(partial_root), then the blocks no segment placed
Fill ==
  /\ phase = "fill"
  /\ decision' = [i \in Ids |-> FilledSite(i)]
  /\ curTotal' = Cost(profile, decision', profile.root)
  /\ phase' = "flip" /\ sweep' = 1 /\ id' = 0
  /\ UNCHANGED <<inputVars, searchVars, run, minVars>>

MutUntilCheaper ==
  /\ id' = IF id < N - 1 THEN id + 1 ELSE 0
  /\ UNCHANGED sweep
  /\ phase' = IF curTotal' < curTotal THEN "keep" ELSE "flip"
NextFlip ==
  IF id < N - 1 THEN id' = id + 1 /\ UNCHANGED <<sweep, phase>>
  ELSE /\ id' = 0 /\ sweep' = sweep + 1
       /\ phase' = IF sweep = MaxSweeps THEN "keep" ELSE "flip"

MutKeepsFlip(old, flipped, total) == flipped
AfterFlip(old, flipped, total) == IF total > curTotal THEN old ELSE flipped

\* One block moves to the other site, and back if that costs more.
Flip ==
  /\ phase = "flip"
  /\ LET flipped == [decision EXCEPT ![id] = Other(@)]
         total == Cost(profile, flipped, profile.root)
     IN /\ decision' = AfterFlip(decision, flipped, total)
        /\ curTotal' = IF total > curTotal THEN curTotal ELSE total
  /\ NextFlip
  /\ UNCHANGED <<inputVars, searchVars, run, minVars>>

MutIsCheaper == minDecision = << >> \/ minTotal < curTotal
IsCheaper == minDecision = << >> \/ minTotal > curTotal

\* min_total starts at FLT_MAX: the first result is always kept.
Keep ==
  /\ phase = "keep"
  /\ minDecision' = IF IsCheaper THEN decision ELSE minDecision
  /\ minTotal' = IF IsCheaper THEN curTotal ELSE minTotal
  /\ results' = Append(results, curTotal)
  /\ run' = run + 1
  /\ phase' = IF run = Len(initDecisions) THEN "done" ELSE "scan"
  /\ UNCHANGED <<inputVars, searchVars, decision, curTotal, flipVars>>

Next == Scan \/ TryBatch \/ Fill \/ Flip \/ Keep

\* The solver is one thread that nothing blocks.
Spec == Init /\ [][Next]_vars /\ WF_vars(Next)

-----------------------------------------------------------------------------
(* Properties *)

Placed == [Ids -> Sites]

\* While blocks are flipped, every block is placed and cur_total is what the
\* decision costs over the whole trie, the undone flips included
\* (CostSolver.cpp:1222-1236).
TotalFollowsDecision ==
  phase \in {"flip", "keep"} =>
    decision \in Placed /\ curTotal = Cost(profile, decision, profile.root)

\* What is returned is complete, its total is what it costs, and no run of the
\* search ended with less (CostSolver.cpp:1239-1251).
ResultIsCheapestRun ==
  minDecision # << >> =>
    /\ minDecision \in Placed
    /\ minTotal = Cost(profile, minDecision, profile.root)
    /\ \A r \in DOMAIN results : minTotal <= results[r]

\* TrieBFS over the nodes of a trie prices a segment as the comment at
\* DataReuse.h:333-338 says: nothing when all its blocks are on one site, else
\* a flush and a fetch by the site of the head.
SegmentPrice(seg, d) ==
  IF \A a, b \in seg.set : d[a] = d[b] THEN 0 ELSE seg.count * MoveCost(d[seg.head])
ReuseCostIsBySegment ==
  phase \in {"flip", "keep"} =>
    ReuseCost(profile.root, decision)
      = SumFunction([leaf \in DOMAIN profile.root.count |->
                       SegmentPrice(Trie!ExportSegment(profile.root, leaf), decision)])

\* The search ends, or has left the bounds of _leaves or of the switch rows.
SearchEnds == <>(phase \in {"done", "undefined"})

\* _leaves also collects the leaves of every partial trie, deleted by then, and
\* is scanned again by the next run (DataReuse.h:383, CostSolver.cpp:1151, 1158,
\* 1203), yet the search reads none of them unless its first run was already
\* out of bounds: reading outside _leaves or outside the switch rows needs a profile with no
\* segment below the threshold, or one whose segment holds a block with a
\* higher id than every block that was ever switched from.
UndefinedOnlyIfUnlisted ==
  phase = "undefined" =>
    \/ \A leaf \in DOMAIN profile.root.count : ~BelowThreshold(leaf)
    \/ widens /\ \E leaf \in DOMAIN profile.root.count : ~(Range(leaf) \subseteq DOMAIN profile.rows)
=============================================================================
