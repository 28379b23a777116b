-------------------------- MODULE ReuseSearch_proofs --------------------------
(***************************************************************************)
(* Proofs about the search for a decision, for any profiles, numbers of    *)
(* blocks and batch sizes: the running total is what the decision costs,   *)
(* no run ended with less than what is returned, a segment is priced by    *)
(* its head's site if it is split, and the search reads outside its arrays *)
(* only for profiles that lack a segment or a row.                         *)
(***************************************************************************)
EXTENDS ReuseSearch, FiniteSums, SequenceTheorems, TLAPS

-----------------------------------------------------------------------------
(* What a decision costs is a number. *)

\* There are blocks, finitely many.
LEMMA IdsAreFinite == IsFiniteSet(Ids) /\ 0 \in Ids /\ Ids \subseteq Nat
<1>1. N - 1 \in Nat
  BY NAssumption
<1>2. IsFiniteSet(0 .. N - 1)
  BY <1>1, FS_Interval
<1> QED
  BY <1>1, <1>2 DEF Ids

\* The elapsed time of a site is a sum over the blocks that are on it.
LEMMA ElapsedTimeIsNat ==
  ASSUME NEW p, IsProfile(p), NEW d, NEW site \in Sites
  PROVE  ElapsedTime(p, d, site) \in Nat
<1> DEFINE f == [i \in Ids |-> IF d[i] = site THEN p.time[site][i] ELSE 0]
<1>1. p.time \in [Sites -> [Ids -> Nat]]
  BY DEF IsProfile, AreMoves
<1>2. f \in [Ids -> Nat]
  BY <1>1
<1> HIDE DEF f
<1>3. SumFunction(f) \in Nat
  BY <1>2, IdsAreFinite, SumOfNats
<1> QED
  BY <1>3 DEF ElapsedTime, f

\* The prices of a move and of a switch are numbers, for whatever is a site.
LEMMA PricesAreNat ==
  /\ \A site : MoveCost(site) \in Nat
  /\ \A site \in Sites : SwitchSiteCost[site] \in Nat
BY CostAssumption DEF MoveCost, Sites

\* What the switches of one row cost.
LEMMA RowCostIsNat ==
  ASSUME NEW row, DOMAIN row \subseteq Ids, row \in [DOMAIN row -> Nat],
         NEW d \in Decision, NEW from \in Ids
  PROVE  RowCost(row, from, d) \in Nat
<1> DEFINE f == [to \in DOMAIN row |->
                   IF d[from] # INVALID /\ d[to] # INVALID /\ d[from] # d[to]
                   THEN SwitchSiteCost[d[from]] * row[to] ELSE 0]
<1>1. ASSUME NEW to \in DOMAIN row PROVE f[to] \in Nat
  <2>1. CASE d[from] # INVALID /\ d[to] # INVALID /\ d[from] # d[to]
    <3>1. d[from] \in Sites
      BY <2>1 DEF Decision
    <3>2. SwitchSiteCost[d[from]] \in Nat /\ row[to] \in Nat
      BY <3>1, PricesAreNat
    <3>3. SwitchSiteCost[d[from]] * row[to] \in Nat
      BY <3>2
    <3> QED
      BY <2>1, <3>3
  <2>2. CASE ~(d[from] # INVALID /\ d[to] # INVALID /\ d[from] # d[to])
    BY <2>2
  <2> QED
    BY <2>1, <2>2
<1>2. f \in [DOMAIN row -> Nat] /\ IsFiniteSet(DOMAIN row)
  BY <1>1, IdsAreFinite, FS_Subset
<1> HIDE DEF f
<1>3. SumFunction(f) \in Nat
  BY <1>2, SumOfNats
<1> QED
  BY <1>3 DEF RowCost, f

\* What all the switches cost.
LEMMA SwitchCostIsNat ==
  ASSUME NEW p, IsProfile(p), NEW d \in Decision
  PROVE  SwitchCost(p, d) \in Nat
<1> DEFINE f == [from \in DOMAIN p.rows |-> RowCost(p.rows[from], from, d)]
<1>1. ASSUME NEW from \in DOMAIN p.rows PROVE f[from] \in Nat
  <2>1. from \in Ids /\ DOMAIN p.rows[from] \subseteq Ids
          /\ p.rows[from] \in [DOMAIN p.rows[from] -> Nat]
    BY DEF IsProfile, AreMoves
  <2> QED
    BY <2>1, RowCostIsNat
<1>2. f \in [DOMAIN p.rows -> Nat] /\ IsFiniteSet(DOMAIN p.rows)
  BY <1>1, IdsAreFinite, FS_Subset DEF IsProfile, AreMoves
<1> HIDE DEF f
<1>3. SumFunction(f) \in Nat
  BY <1>2, SumOfNats
<1> QED
  BY <1>3 DEF SwitchCost, f

\* What the segments of a trie cost, even if their blocks are not placed.
LEMMA ReuseCostIsNat ==
  ASSUME NEW root, CountsLeaves(root), NEW d
  PROVE  ReuseCost(root, d) \in Nat
<1> DEFINE f == [leaf \in DOMAIN root.count |->
                   IF IsDifferent(d, leaf) THEN root.count[leaf] * PriceOf(d, leaf) ELSE 0]
<1>1. ASSUME NEW leaf \in DOMAIN root.count PROVE f[leaf] \in Nat
  <2>1. root.count[leaf] \in Nat /\ PriceOf(d, leaf) \in Nat
    BY PricesAreNat DEF CountsLeaves, PriceOf
  <2>2. root.count[leaf] * PriceOf(d, leaf) \in Nat
    BY <2>1
  <2> QED
    BY <2>2
<1>2. f \in [DOMAIN root.count -> Nat] /\ IsFiniteSet(DOMAIN root.count)
  BY <1>1 DEF CountsLeaves
<1> HIDE DEF f
<1>3. SumFunction(f) \in Nat
  BY <1>2, SumOfNats
<1> QED
  BY <1>3 DEF ReuseCost, f

\* The cost of a decision, placed or not, over the whole trie or a part of it.
LEMMA CostIsNat ==
  ASSUME NEW p, IsProfile(p), NEW d \in Decision, NEW root, CountsLeaves(root)
  PROVE  Cost(p, d, root) \in Nat
<1>1. ElapsedTime(p, d, "CPU") \in Nat /\ ElapsedTime(p, d, "PIM") \in Nat
  BY ElapsedTimeIsNat DEF Sites
<1> QED
  BY <1>1, SwitchCostIsNat, ReuseCostIsNat DEF Cost

-----------------------------------------------------------------------------
(* The first of the cheapest placements of a batch. *)

\* There are finitely many placements of any batch, and they are decisions.
LEMMA PlacementFacts ==
  ASSUME NEW d \in Decision, NEW batch
  PROVE  /\ Placements(d, batch) # {} /\ IsFiniteSet(Placements(d, batch))
         /\ \A e \in Placements(d, batch) :
              e \in Decision /\ \A i \in Ids : IF i \in batch THEN e[i] \in Sites ELSE e[i] = d[i]
<1> DEFINE Put(p) == [i \in Ids |-> IF i \in batch THEN p[i] ELSE d[i]]
           f == [A \in SUBSET Ids |->
                   [i \in Ids |-> IF i \in batch THEN IF i \in A THEN "CPU" ELSE "PIM" ELSE d[i]]]
           T == {f[A] : A \in SUBSET Ids}
<1>1. Placements(d, batch) = {Put(p) : p \in [batch -> Sites]}
  BY DEF Placements
<1>2. Placements(d, batch) # {}
  <2>1. [i \in batch |-> "CPU"] \in [batch -> Sites]
    BY DEF Sites
  <2> HIDE DEF Put
  <2> QED
    BY <1>1, <2>1
<1>3. IsFiniteSet(T)
  <2>1. f \in Surjection(SUBSET Ids, T)
    BY DEF Surjection
  <2>2. IsFiniteSet(SUBSET Ids)
    BY IdsAreFinite, FS_SUBSET
  <2> HIDE DEF f, T
  <2> QED
    BY <2>1, <2>2, FS_Surjection
<1>4. ASSUME NEW p \in [batch -> Sites] PROVE Put(p) \in T
  <2> DEFINE A == {i \in Ids \cap batch : p[i] = "CPU"}
  <2>1. A \in SUBSET Ids
    OBVIOUS
  <2>2. ASSUME NEW i \in Ids PROVE Put(p)[i] = f[A][i]
    <3>1. i \in batch => p[i] \in Sites
      OBVIOUS
    <3> QED
      BY <2>1, <3>1 DEF Sites
  <2>3. Put(p) = f[A]
    BY <2>1, <2>2
  <2> QED
    BY <2>1, <2>3
<1>5. Placements(d, batch) \subseteq T
  <2> HIDE DEF Put, T
  <2> QED
    BY <1>1, <1>4
<1>6. IsFiniteSet(Placements(d, batch))
  BY <1>3, <1>5, FS_Subset
<1>7. ASSUME NEW p \in [batch -> Sites]
      PROVE  /\ Put(p) \in Decision
             /\ \A i \in Ids : IF i \in batch THEN Put(p)[i] \in Sites ELSE Put(p)[i] = d[i]
  BY DEF Decision
<1> HIDE DEF Put
<1> QED
  BY <1>1, <1>2, <1>6, <1>7

\* The permutations are tried one after the other.
LEMMA TriedInOrder ==
  ASSUME NEW d \in Decision, NEW batch, NEW a \in Placements(d, batch),
         NEW b \in Placements(d, batch)
  PROVE  /\ a = b \/ TriedBefore(a, b) \/ TriedBefore(b, a)
         /\ \A c \in Placements(d, batch) :
              TriedBefore(a, b) /\ TriedBefore(b, c) => TriedBefore(a, c)
<1>1. /\ a \in Decision /\ \A i \in Ids : IF i \in batch THEN a[i] \in Sites ELSE a[i] = d[i]
      /\ b \in Decision /\ \A i \in Ids : IF i \in batch THEN b[i] \in Sites ELSE b[i] = d[i]
  BY PlacementFacts
<1>2. a = b \/ TriedBefore(a, b) \/ TriedBefore(b, a)
  <2> DEFINE D == {i \in Ids : a[i] # b[i]}
  <2>1. CASE D = {}
    BY <1>1, <2>1 DEF Decision
  <2>2. CASE D # {}
    <3>1. D \in SUBSET Int /\ IsFiniteSet(D)
      <4>1. D \in SUBSET Ids
        OBVIOUS
      <4> HIDE DEF D
      <4>2. IsFiniteSet(D)
        BY <4>1, IdsAreFinite, FS_Subset
      <4>3. \A i \in Ids : i \in Int
        BY IdsAreFinite
      <4> QED
        BY <4>1, <4>2, <4>3
    <3>2. PICK m \in D : \A y \in D : m >= y
      <4> HIDE DEF D
      <4> QED
        BY <2>2, <3>1, LeastAndGreatest
    <3>3. m \in Ids /\ a[m] # b[m] /\ \A j \in Ids : j > m => a[j] = b[j]
      <4>1. ASSUME NEW j \in Ids, j > m PROVE a[j] = b[j]
        <5>1. j \in Nat /\ m \in Nat
          BY IdsAreFinite
        <5>2. j \notin D
          BY <3>2, <4>1, <5>1
        <5> QED
          BY <5>2
      <4> QED
        BY <4>1
    <3>4. a[m] \in Sites /\ b[m] \in Sites
      BY <1>1, <3>3
    <3> QED
      BY <3>3, <3>4 DEF TriedBefore, Sites
  <2> QED
    BY <2>1, <2>2
<1>3. ASSUME NEW c, TriedBefore(a, b), TriedBefore(b, c) PROVE TriedBefore(a, c)
  <2>1. PICK i \in Ids : a[i] = "PIM" /\ b[i] = "CPU" /\ \A j \in Ids : j > i => a[j] = b[j]
    BY <1>3 DEF TriedBefore
  <2>2. PICK k \in Ids : b[k] = "PIM" /\ c[k] = "CPU" /\ \A j \in Ids : j > k => b[j] = c[j]
    BY <1>3 DEF TriedBefore
  <2>3. i \in Nat /\ k \in Nat /\ Ids \subseteq Nat
    BY IdsAreFinite
  <2>4. CASE i > k
    BY <2>1, <2>2, <2>3, <2>4 DEF TriedBefore
  <2>5. CASE k > i
    BY <2>1, <2>2, <2>3, <2>5 DEF TriedBefore
  <2>6. i # k
    BY <2>1, <2>2
  <2> QED
    BY <2>3, <2>4, <2>5, <2>6
<1> QED
  BY <1>2, <1>3

\* PermuteDecision finds a placement of the batch, and none is cheaper.
LEMMA PermuteFacts ==
  ASSUME profile \in Profiles, NEW d \in Decision, NEW batch, NEW root, CountsLeaves(root)
  PROVE  LET best == PermuteDecision(d, batch, root)
         IN /\ best \in Decision
            /\ \A e \in Placements(d, batch) : Cost(profile, best, root) <= Cost(profile, e, root)
<1> DEFINE S == Placements(d, batch)
           Before(x, y) == \/ Cost(profile, x, root) < Cost(profile, y, root)
                           \/ /\ Cost(profile, x, root) = Cost(profile, y, root)
                              /\ TriedBefore(x, y)
           R == {p \in S \X S : Before(p[1], p[2])}
<1>1. S # {} /\ IsFiniteSet(S) /\ S \subseteq Decision
  BY PlacementFacts
<1>2. \A x \in S : Cost(profile, x, root) \in Int
  BY <1>1, CostIsNat, ProfilesAssumption
<1>3. \A x, y \in S : x = y \/ TriedBefore(x, y) \/ TriedBefore(y, x)
  BY TriedInOrder
<1>4. \A x, y, z \in S : TriedBefore(x, y) /\ TriedBefore(y, z) => TriedBefore(x, z)
  BY TriedInOrder
<1> HIDE DEF S
<1>5. \A x, y \in S : x = y \/ Before(x, y) \/ Before(y, x)
  BY <1>2, <1>3
<1>6. \A x, y, z \in S : Before(x, y) /\ Before(y, z) => Before(x, z)
  BY <1>2, <1>4
<1>7. \A x, y \in S : <<x, y>> \in R <=> Before(x, y)
  OBVIOUS
<1> HIDE DEF R
<1>8. \E best \in S : \A e \in S \ {best} : <<best, e>> \in R
  <2>1. \A x, y \in S : x = y \/ <<x, y>> \in R \/ <<y, x>> \in R
    BY <1>5, <1>7
  <2>2. \A x, y, z \in S : <<x, y>> \in R /\ <<y, z>> \in R => <<x, z>> \in R
    BY <1>6, <1>7
  <2> QED
    BY <1>1, <2>1, <2>2, FirstExists
<1>9. \E best \in S : \A e \in S \ {best} : Before(best, e)
  <2>1. PICK best \in S : \A e \in S \ {best} : <<best, e>> \in R
    BY <1>8
  <2>2. \A e \in S \ {best} : Before(best, e)
    <3> HIDE DEF Before
    <3> QED
      BY <1>7, <2>1
  <2> HIDE DEF Before
  <2> QED
    BY <2>2
<1>10. PermuteDecision(d, batch, root) = CHOOSE best \in S : \A e \in S \ {best} : Before(best, e)
  BY DEF PermuteDecision, S
<1>11. PICK b : b = PermuteDecision(d, batch, root)
  OBVIOUS
<1>12. b \in S /\ \A e \in S \ {b} : Before(b, e)
  <2> HIDE DEF Before
  <2> QED
    BY <1>9, <1>10, <1>11
<1>13. ASSUME NEW e \in S PROVE Cost(profile, b, root) <= Cost(profile, e, root)
  <2>1. e = b \/ Before(b, e)
    BY <1>12
  <2>2. Cost(profile, b, root) \in Int /\ Cost(profile, e, root) \in Int
    BY <1>2, <1>12
  <2> QED
    BY <2>1, <2>2
<1> QED
  BY <1>1, <1>11, <1>12, <1>13 DEF S

-----------------------------------------------------------------------------
(* The search. *)

Phases == {"scan", "batch", "fill", "flip", "keep", "done", "undefined"}

\* Whatever the phase, the decision places each block or leaves it INVALID, the
\* flips are at a block, and a partial trie counts its leaves.
SearchTypeOK ==
  /\ profile \in Profiles
  /\ phase \in Phases
  /\ initDecisions \in Seq(Sites \cup {INVALID})
  /\ run \in Nat \ {0} /\ (phase # "done" => run <= Len(initDecisions))
  /\ curNode \in Nat
  /\ CountsLeaves(partial)
  /\ decision \in Decision
  /\ id \in Ids

\* _leaves starts with all the leaves of the main trie and goes on with those
\* that were deleted with their trie; the search walks down among the former.
LeavesInv ==
  /\ leaves \in Seq(Range(leaves))
  /\ \A leaf \in DOMAIN profile.root.count : \E n \in DOMAIN leaves : leaves[n] = <<0, leaf>>
  /\ \A n \in DOMAIN leaves : ~Dangling(n) =>
       /\ leaves[n][2] \in DOMAIN profile.root.count
       /\ \A m \in 1 .. n : ~Dangling(m)
  /\ phase = "batch" => curNode \in DOMAIN leaves /\ ~Dangling(curNode)

\* What is kept is the least of the results, and one is kept once there is one.
KeptInv ==
  /\ results \in Seq(Int)
  /\ minDecision = << >> => results = << >>
  /\ ResultIsCheapestRun

SearchInv ==
  /\ SearchTypeOK /\ LeavesInv /\ TotalFollowsDecision /\ KeptInv /\ UndefinedOnlyIfUnlisted

\* Every leaf of a trie is in the sorted list of its leaves.
LEMMA SortedLeavesFacts ==
  ASSUME NEW root, CountsLeaves(root), NEW s \in SortedLeaves(root)
  PROVE  /\ DOMAIN s = 1 .. Len(s) /\ Len(s) \in Nat
         /\ \A n \in DOMAIN s : s[n] \in DOMAIN root.count
         /\ \A leaf \in DOMAIN root.count : \E n \in DOMAIN s : s[n] = leaf
<1> DEFINE S == DOMAIN root.count
           D == 1 .. Cardinality(S)
<1>1. IsFiniteSet(S) /\ Cardinality(S) \in Nat
  BY FS_CardinalityType DEF CountsLeaves
<1>2. s \in [D -> S] /\ \A i, j \in D : i # j => s[i] # s[j]
  BY DEF SortedLeaves, SetToSeqs
<1> HIDE DEF S
<1>3. Len(s) = Cardinality(S)
  <2>1. s \in Seq(S)
    BY <1>1, <1>2
  <2> QED
    BY <1>1, <1>2, <2>1, LenProperties
<1>4. s \in Surjection(D, S)
  <2>1. s \in Injection(D, S)
    BY <1>2 DEF Injection, IsInjective
  <2>2. Cardinality(D) = Cardinality(S)
    BY <1>1, FS_Interval
  <2> QED
    BY <1>1, <2>1, <2>2, FS_Injection
<1>5. \A leaf \in S : \E n \in D : s[n] = leaf
  BY <1>4 DEF Surjection
<1> QED
  BY <1>1, <1>2, <1>3, <1>5 DEF S

\* A partial trie still counts its leaves when a segment is put into it.
LEMMA UpdateCounts ==
  ASSUME NEW root, CountsLeaves(root), NEW seg, seg.count \in Nat
  PROVE  CountsLeaves(Trie!UpdateTrie(root, seg))
<1> DEFINE path == Trie!LeafPath(seg)
           D == DOMAIN root.count \cup {path}
           new == [p \in D |-> Trie!LeafCount(root, p) + IF p = path THEN seg.count ELSE 0]
<1>1. CASE ~Trie!Recorded(seg)
  BY <1>1 DEF Trie!UpdateTrie
<1>2. CASE Trie!Recorded(seg)
  <2>1. Trie!UpdateTrie(root, seg).count = new
    BY <1>2 DEF Trie!UpdateTrie
  <2>2. IsFiniteSet(D)
    BY FS_AddElement DEF CountsLeaves
  <2>3. ASSUME NEW p \in D PROVE new[p] \in Nat
    <3>1. Trie!LeafCount(root, p) \in Nat
      BY DEF Trie!LeafCount, CountsLeaves
    <3> HIDE DEF path
    <3> QED
      BY <3>1
  <2> HIDE DEF D
  <2>4. DOMAIN new = D /\ new \in [D -> Nat]
    BY <2>3
  <2> QED
    BY <2>1, <2>2, <2>4 DEF CountsLeaves
<1> QED
  BY <1>1, <1>2

\* The empty trie counts nothing.
LEMMA EmptyCounts == CountsLeaves(Trie!EmptyRoot)
<1>1. DOMAIN Trie!EmptyRoot.count = {} /\ Trie!EmptyRoot.count \in [{} -> Nat]
  BY DEF Trie!EmptyRoot
<1> QED
  BY <1>1, FS_EmptySet DEF CountsLeaves

\* The search starts with the leaves of the main trie and no result.
LEMMA StartFacts ==
  ASSUME NEW inits \in Seq(Sites \cup {INVALID}), Len(inits) > 0, NEW widening,
         Start(inits, widening)
  PROVE  SearchInv
<1>2. PICK s \in SortedLeaves(profile.root) : leaves = [i \in DOMAIN s |-> <<0, s[i]>>]
  BY DEF Start
<1>3. profile \in Profiles /\ IsProfile(profile)
  BY ProfilesAssumption DEF Start
<1>4. SearchTypeOK
  <2>0. Len(inits) \in Nat
    OBVIOUS
  <2>1. decision \in Decision /\ CountsLeaves(partial)
    BY EmptyCounts DEF Start, Decision
  <2>2. phase = "scan" /\ run = 1 /\ curNode = 0 /\ id = 0 /\ initDecisions = inits
          /\ 1 <= Len(inits)
    BY DEF Start, NoNode
  <2> QED
    BY <1>3, <2>0, <2>1, <2>2, IdsAreFinite DEF SearchTypeOK, Phases
<1>5. LeavesInv
  <2>1. /\ DOMAIN s = 1 .. Len(s) /\ Len(s) \in Nat
        /\ \A n \in DOMAIN s : s[n] \in DOMAIN profile.root.count
        /\ \A leaf \in DOMAIN profile.root.count : \E n \in DOMAIN s : s[n] = leaf
    BY <1>3, SortedLeavesFacts DEF IsProfile, AreMoves
  <2>2. DOMAIN leaves = DOMAIN s /\ Len(leaves) = Len(s)
    BY <1>2, <2>1
  <2>3. \A n \in DOMAIN s : leaves[n] = <<0, s[n]>>
    BY <1>2
  <2>4. phase = "scan"
    BY DEF Start
  <2>5. leaves \in Seq(Range(leaves))
    <3>1. leaves \in [1 .. Len(s) -> Range(leaves)]
      BY <1>2, <2>1 DEF Range
    <3> QED
      BY <2>1, <3>1
  <2>6. \A leaf \in DOMAIN profile.root.count : \E n \in DOMAIN leaves : leaves[n] = <<0, leaf>>
    BY <2>1, <2>2, <2>3
  <2>7. ASSUME NEW n \in DOMAIN leaves
        PROVE  leaves[n][2] \in DOMAIN profile.root.count /\ \A m \in 1 .. n : ~Dangling(m)
    <3>1. n \in 1 .. Len(s) /\ 1 .. n \subseteq DOMAIN s
      BY <2>1, <2>2
    <3> QED
      BY <2>1, <2>3, <3>1 DEF Dangling
  <2> QED
    BY <2>4, <2>5, <2>6, <2>7 DEF LeavesInv
<1>6. TotalFollowsDecision /\ KeptInv /\ UndefinedOnlyIfUnlisted
  <2>1. phase = "scan" /\ results = << >> /\ minDecision = << >>
    BY DEF Start
  <2> QED
    BY <2>1 DEF TotalFollowsDecision, KeptInv, ResultIsCheapestRun, UndefinedOnlyIfUnlisted
<1> QED
  BY <1>4, <1>5, <1>6 DEF SearchInv

\* The three searches start with one initial decision or three.
LEMMA SearchInit == Init => SearchInv
<1> SUFFICES ASSUME Init PROVE SearchInv
  OBVIOUS
<1>1. CASE PrintReuseStats
  <2> DEFINE inits == <<"CPU", "PIM", INVALID>>
  <2>1. inits \in Seq(Sites \cup {INVALID}) /\ Len(inits) > 0
    BY DEF Sites
  <2>2. Start(inits, TRUE)
    BY <1>1 DEF PrintReuseStats
  <2> HIDE DEF inits
  <2> QED
    BY <2>1, <2>2, StartFacts
<1>2. CASE Debug_HierarchicalDecision \/ Debug_StartFromUnimportantSegment
  <2> DEFINE inits == <<INVALID>>
  <2>1. inits \in Seq(Sites \cup {INVALID}) /\ Len(inits) > 0
    OBVIOUS
  <2>2. Start(inits, TRUE) \/ Start(inits, FALSE)
    BY <1>2 DEF Debug_HierarchicalDecision, Debug_StartFromUnimportantSegment
  <2> HIDE DEF inits
  <2>3. CASE Start(inits, TRUE)
    BY <2>1, <2>3, StartFacts
  <2>4. CASE Start(inits, FALSE)
    BY <2>1, <2>4, StartFacts
  <2> QED
    BY <2>2, <2>3, <2>4
<1> QED
  BY <1>1, <1>2 DEF Init

\* A step that leaves the results, or the leaves, alone keeps what is known of them.
LEMMA ResultsKept ==
  ASSUME KeptInv, UNCHANGED <<profile, minVars>>
  PROVE  KeptInv'
BY DEF KeptInv, ResultIsCheapestRun, minVars

\* The same for what is known of the leaves.
LEMMA LeavesKept ==
  ASSUME LeavesInv, UNCHANGED <<profile, leaves>>,
         phase' = "batch" => curNode' \in DOMAIN leaves /\ ~Dangling(curNode')
  PROVE  LeavesInv'
BY DEF LeavesInv, Dangling

\* The scan stops at a leaf of the main trie, or finds none to stop at.
LEMMA ScanKeeps == SearchInv /\ Scan => SearchInv'
<1> SUFFICES ASSUME SearchInv, Scan PROVE SearchInv'
  OBVIOUS
<1>1. SearchTypeOK /\ LeavesInv /\ KeptInv
  BY DEF SearchInv
<1>2. UNCHANGED <<profile, leaves, initDecisions, run, id, minVars>> /\ partial' = Trie!EmptyRoot
  BY DEF Scan, NewPartial, inputVars, flipVars
<1>3. ScanStops \subseteq DOMAIN leaves /\ DOMAIN leaves = 1 .. Len(leaves) /\ Len(leaves) \in Nat
  <2>1. leaves \in Seq(Range(leaves))
    BY <1>1 DEF LeavesInv
  <2> QED
    BY <2>1 DEF ScanStops
<1>4. ASSUME ScanStops # {}
      PROVE  Min(ScanStops) \in ScanStops /\ \A n \in ScanStops : Min(ScanStops) <= n
  <2>1. IsFiniteSet(DOMAIN leaves)
    BY <1>3, FS_Interval
  <2>2. IsFiniteSet(ScanStops)
    BY <1>3, <2>1, FS_Subset
  <2>3. ScanStops \in SUBSET Int
    BY <1>3
  <2> QED
    BY <1>4, <2>2, <2>3, LeastAndGreatest
<1>5. \/ phase' = "undefined" /\ curNode' = 0 /\ (ScanStops = {} \/ Dangling(Min(ScanStops)))
      \/ phase' = "batch" /\ curNode' = Min(ScanStops) /\ ScanStops # {} /\ ~Dangling(Min(ScanStops))
  BY DEF Scan, NoNode
<1>6. SearchTypeOK'
  <2>1. decision' \in Decision
    <3>1. run \in 1 .. Len(initDecisions)
      BY <1>1 DEF SearchTypeOK, Scan
    <3>2. initDecisions[run] \in Sites \cup {INVALID}
      BY <1>1, <3>1 DEF SearchTypeOK
    <3> QED
      BY <3>2 DEF Scan, Decision
  <2>2. CountsLeaves(partial')
    BY <1>2, EmptyCounts
  <2>3. curNode' \in Nat
    BY <1>3, <1>4, <1>5
  <2> QED
    BY <1>1, <1>2, <1>5, <2>1, <2>2, <2>3 DEF SearchTypeOK, Phases, Scan
<1>7. LeavesInv'
  <2>1. phase' = "batch" => curNode' \in DOMAIN leaves /\ ~Dangling(curNode')
    BY <1>3, <1>4, <1>5 DEF Dangling
  <2> QED
    BY <1>1, <1>2, <2>1, LeavesKept
<1>8. UndefinedOnlyIfUnlisted'
  <2> SUFFICES ASSUME phase' = "undefined", NEW leaf \in DOMAIN profile.root.count, BelowThreshold(leaf)
               PROVE  FALSE
    BY <1>2 DEF UndefinedOnlyIfUnlisted, BelowThreshold, Importance, ElapsedTimeMin
  <2>1. PICK n \in DOMAIN leaves : leaves[n] = <<0, leaf>>
    BY <1>1 DEF LeavesInv
  <2>2. n \in ScanStops /\ ~Dangling(n)
    BY <2>1 DEF ScanStops, Dangling
  <2>3. Dangling(Min(ScanStops)) /\ Min(ScanStops) \in 1 .. n
    BY <1>3, <1>4, <1>5, <2>2
  <2>4. \A m \in 1 .. n : ~Dangling(m)
    BY <1>1, <2>2 DEF LeavesInv
  <2> QED
    BY <2>3, <2>4
<1>9. TotalFollowsDecision'
  BY <1>5 DEF TotalFollowsDecision
<1> QED
  BY <1>1, <1>2, <1>6, <1>7, <1>8, <1>9, ResultsKept DEF SearchInv

\* The leaves of a partial trie go to the end of the list.
LEMMA PushKeeps ==
  ASSUME SearchTypeOK, LeavesInv, NEW seg, InsertPartial(seg), UNCHANGED profile,
         phase' = "batch" => curNode' \in DOMAIN leaves /\ ~Dangling(curNode')
  PROVE  LeavesInv'
<1>1. CASE leaves' = leaves
  BY <1>1, LeavesKept
<1>2. CASE leaves' = PushLeaf(seg)
  <2> DEFINE k == Len(leaves) + 1
  <2>1. leaves \in Seq(Range(leaves)) /\ run # 0
    BY DEF LeavesInv, SearchTypeOK
  <2>2. PICK new : new = <<run, Trie!LeafPath(seg)>>
    OBVIOUS
  <2>3. PICK ls : ls = leaves'
    OBVIOUS
  <2>4. ls = Append(leaves, new) /\ new[1] # 0
    BY <1>2, <2>1, <2>2, <2>3 DEF PushLeaf
  <2>5. leaves \in Seq(Range(leaves) \cup {new})
    BY <2>1 DEF Range
  <2>6. /\ ls \in Seq(Range(leaves) \cup {new}) /\ Len(ls) = k
        /\ ls[k] = new /\ \A n \in 1 .. Len(leaves) : ls[n] = leaves[n]
    BY <2>4, <2>5, AppendProperties
  <2>7. ls \in Seq(Range(ls))
    BY <2>6 DEF Range
  <2>8. DOMAIN leaves = 1 .. Len(leaves) /\ DOMAIN ls = 1 .. k /\ Len(leaves) \in Nat
    BY <2>1, <2>6
  <2>9. \A leaf \in DOMAIN profile.root.count : \E n \in DOMAIN ls : ls[n] = <<0, leaf>>
    <3> SUFFICES ASSUME NEW leaf \in DOMAIN profile.root.count
                 PROVE  \E n \in DOMAIN ls : ls[n] = <<0, leaf>>
      OBVIOUS
    <3>1. PICK n \in DOMAIN leaves : leaves[n] = <<0, leaf>>
      BY DEF LeavesInv
    <3>2. n \in DOMAIN ls /\ ls[n] = leaves[n]
      BY <2>6, <2>8
    <3> QED
      BY <3>1, <3>2
  <2>10. ASSUME NEW n \in DOMAIN ls, ls[n][1] = 0
         PROVE  ls[n][2] \in DOMAIN profile.root.count /\ \A m \in 1 .. n : ls[m][1] = 0
    <3>1. n \in DOMAIN leaves /\ ls[n] = leaves[n]
      BY <2>4, <2>6, <2>8, <2>10
    <3>2. leaves[n][2] \in DOMAIN profile.root.count /\ \A m \in 1 .. n : leaves[m][1] = 0
      BY <2>10, <3>1 DEF LeavesInv, Dangling
    <3>3. \A m \in 1 .. n : ls[m] = leaves[m]
      BY <2>6, <2>8, <3>1
    <3> QED
      BY <3>1, <3>2, <3>3
  <2>11. phase' = "batch" => curNode' \in DOMAIN ls /\ ls[curNode'][1] = 0
    <3>1. PICK c : c = curNode'
      OBVIOUS
    <3>2. c \in DOMAIN leaves => c \in DOMAIN ls /\ ls[c] = leaves[c]
      BY <2>6, <2>8
    <3> QED
      BY <3>1, <3>2 DEF Dangling
  <2> QED
    BY <2>3, <2>7, <2>9, <2>10, <2>11 DEF LeavesInv, Dangling
<1> QED
  BY <1>1, <1>2 DEF InsertPartial

\* A batch, or a segment too long to be one, is placed for the partial trie.
LEMMA BatchKeeps == SearchInv /\ TryBatch => SearchInv'
<1> SUFFICES ASSUME SearchInv, TryBatch PROVE SearchInv'
  OBVIOUS
<1>1. SearchTypeOK /\ LeavesInv /\ KeptInv /\ phase = "batch"
  BY DEF SearchInv, TryBatch
<1>2. UNCHANGED <<profile, initDecisions, widens, run, id, minVars>>
  BY DEF TryBatch, inputVars, flipVars
<1> DEFINE leaf == leaves[curNode][2]
<1>3. PICK seg : seg = Trie!ExportSegment(profile.root, leaf)
  OBVIOUS
<1>4. /\ InsertPartial(seg)
      /\ \/ NextNode /\ UNCHANGED <<decision, curTotal>>
         \/ /\ widens /\ ~(seg.set \subseteq DOMAIN profile.rows)
            /\ phase' = "undefined" /\ UNCHANGED <<curNode, decision, curTotal>>
         \/ NextNode /\ \E batch : decision' = PermuteDecision(decision, batch, partial')
  BY <1>3 DEF TryBatch
<1>5. leaf \in DOMAIN profile.root.count /\ curNode \in DOMAIN leaves /\ ~Dangling(curNode)
  BY <1>1 DEF LeavesInv
<1>6. IsProfile(profile)
  BY <1>1, ProfilesAssumption DEF SearchTypeOK
<1>7. seg.count \in Nat /\ seg.set = ToSet(leaf)
  <2>1. profile.root.count[leaf] \in Nat
    BY <1>5, <1>6 DEF IsProfile, AreMoves, CountsLeaves
  <2> QED
    BY <1>3, <2>1 DEF Trie!ExportSegment, Trie!ToSet, ToSet
<1>8. CountsLeaves(partial')
  <2>1. partial' = Trie!UpdateTrie(partial, seg) /\ CountsLeaves(partial)
    BY <1>1, <1>4 DEF InsertPartial, SearchTypeOK
  <2> QED
    BY <1>7, <2>1, UpdateCounts
<1>9. decision' \in Decision
  <2>1. CASE UNCHANGED decision
    BY <1>1, <2>1 DEF SearchTypeOK
  <2>2. ASSUME NEW batch, decision' = PermuteDecision(decision, batch, partial')
        PROVE  decision' \in Decision
    <3>1. PICK root : root = partial'
      OBVIOUS
    <3>2. profile \in Profiles /\ decision \in Decision /\ CountsLeaves(root)
      BY <1>1, <1>8, <3>1 DEF SearchTypeOK
    <3>3. PermuteDecision(decision, batch, root) \in Decision
      BY <3>2, PermuteFacts
    <3> QED
      BY <2>2, <3>1, <3>3
  <2> QED
    BY <1>4, <2>1, <2>2
<1>10. leaves \in Seq(Range(leaves))
  BY <1>1 DEF LeavesInv
<1>11. curNode \in 1 .. Len(leaves)
  BY <1>5, <1>10
<1>12. SearchTypeOK'
  <2>1. phase' \in Phases /\ phase' # "done" /\ curNode' \in Nat
    BY <1>4, <1>11 DEF NextNode, Phases
  <2> QED
    BY <1>1, <1>2, <1>8, <1>9, <2>1 DEF SearchTypeOK
<1>13. LeavesInv'
  <2>1. phase' = "batch" => curNode' \in DOMAIN leaves /\ ~Dangling(curNode')
    <3>1. SUFFICES ASSUME phase' = "batch" PROVE curNode' \in DOMAIN leaves /\ ~Dangling(curNode')
      OBVIOUS
    <3>2. curNode # 1 /\ curNode' = curNode - 1
      BY <1>4, <3>1 DEF NextNode
    <3>3. curNode' \in 1 .. curNode /\ curNode' \in 1 .. Len(leaves)
      BY <1>11, <3>2
    <3>4. \A m \in 1 .. curNode : ~Dangling(m)
      BY <1>1, <1>5 DEF LeavesInv
    <3> QED
      BY <1>10, <3>3, <3>4
  <2> QED
    BY <1>1, <1>2, <1>4, <2>1, PushKeeps
<1>14. UndefinedOnlyIfUnlisted'
  <2>1. SUFFICES ASSUME phase' = "undefined" PROVE UndefinedOnlyIfUnlisted'
    BY DEF UndefinedOnlyIfUnlisted
  <2>2. widens /\ ~(seg.set \subseteq DOMAIN profile.rows)
    BY <1>4, <2>1 DEF NextNode
  <2>3. Range(leaf) = ToSet(leaf)
    BY DEF Range, ToSet
  <2>4. widens' /\ ~(Range(leaf) \subseteq DOMAIN profile'.rows) /\ leaf \in DOMAIN profile'.root.count
    BY <1>2, <1>5, <1>7, <2>2, <2>3
  <2> HIDE DEF leaf
  <2> QED
    BY <2>4 DEF UndefinedOnlyIfUnlisted
<1>15. TotalFollowsDecision'
  BY <1>4 DEF TotalFollowsDecision, NextNode
<1> QED
  BY <1>1, <1>2, <1>12, <1>13, <1>14, <1>15, ResultsKept DEF SearchInv

\* Every block that no segment placed goes to its faster site.
LEMMA FillKeeps == SearchInv /\ Fill => SearchInv'
<1> SUFFICES ASSUME SearchInv, Fill PROVE SearchInv'
  OBVIOUS
<1>1. SearchTypeOK /\ LeavesInv /\ KeptInv /\ phase = "fill" /\ phase' = "flip"
  BY DEF SearchInv, Fill
<1>2. UNCHANGED <<profile, initDecisions, run, leaves, curNode, partial, minVars>> /\ id' = 0
  BY DEF Fill, inputVars, searchVars
<1>3. decision' \in Placed
  <2>1. ASSUME NEW i \in Ids PROVE FilledSite(i) \in Sites
    BY <1>1 DEF SearchTypeOK, FilledSite, Greedy, Decision, Sites
  <2>2. decision' = [i \in Ids |-> FilledSite(i)]
    BY DEF Fill
  <2> QED
    BY <2>1, <2>2 DEF Placed
<1>4. SearchTypeOK'
  <2>1. decision' \in Decision
    BY <1>3 DEF Placed, Decision
  <2> QED
    BY <1>1, <1>2, <2>1, IdsAreFinite DEF SearchTypeOK, Phases
<1>5. TotalFollowsDecision'
  <2>1. curTotal' = Cost(profile, decision', profile.root)
    BY DEF Fill
  <2> QED
    BY <1>2, <1>3, <2>1 DEF TotalFollowsDecision, Placed
<1> QED
  BY <1>1, <1>2, <1>4, <1>5, LeavesKept, ResultsKept DEF SearchInv, UndefinedOnlyIfUnlisted

\* A flip is kept with its total, or undone and the total left alone.
LEMMA FlipKeeps == SearchInv /\ Flip => SearchInv'
<1> SUFFICES ASSUME SearchInv, Flip PROVE SearchInv'
  OBVIOUS
<1>1. SearchTypeOK /\ LeavesInv /\ KeptInv /\ TotalFollowsDecision /\ phase = "flip"
  BY DEF SearchInv, Flip
<1>2. UNCHANGED <<profile, initDecisions, run, leaves, curNode, partial, minVars>>
  BY DEF Flip, inputVars, searchVars
<1>3. id \in 0 .. N - 1 /\ N \in Nat
  BY <1>1, NAssumption DEF SearchTypeOK, Ids
<1>4. phase' \in {"flip", "keep"} /\ id' \in Ids
  <2>1. (id' = id + 1 /\ id < N - 1) \/ id' = 0
    BY DEF Flip, NextFlip
  <2>2. phase' \in {"flip", "keep"}
    BY <1>1 DEF Flip, NextFlip
  <2> QED
    BY <1>3, <2>1, <2>2 DEF Ids
<1>5. PICK flipped, total :
        /\ flipped = [decision EXCEPT ![id] = Other(@)]
        /\ total = Cost(profile, flipped, profile.root)
        /\ decision' = AfterFlip(decision, flipped, total)
        /\ curTotal' = IF total > curTotal THEN curTotal ELSE total
  BY DEF Flip
<1>6. flipped \in Placed /\ decision \in Placed /\ curTotal = Cost(profile, decision, profile.root)
  <2>1. decision \in Placed /\ curTotal = Cost(profile, decision, profile.root)
    BY <1>1 DEF TotalFollowsDecision
  <2>2. \A site : Other(site) \in Sites
    BY DEF Other, Sites
  <2> QED
    BY <1>5, <2>1, <2>2 DEF Placed
<1>7. decision' \in Placed /\ curTotal' = Cost(profile, decision', profile.root)
  <2>1. CASE total > curTotal
    BY <1>5, <1>6, <2>1 DEF AfterFlip
  <2>2. CASE ~(total > curTotal)
    BY <1>5, <1>6, <2>2 DEF AfterFlip
  <2> QED
    BY <2>1, <2>2
<1>8. SearchTypeOK'
  <2>1. decision' \in Decision
    BY <1>7 DEF Placed, Decision
  <2> QED
    BY <1>1, <1>2, <1>4, <2>1 DEF SearchTypeOK, Phases
<1>9. TotalFollowsDecision'
  BY <1>2, <1>7 DEF TotalFollowsDecision, Placed
<1> QED
  BY <1>1, <1>2, <1>4, <1>8, <1>9, LeavesKept, ResultsKept DEF SearchInv, UndefinedOnlyIfUnlisted

\* The result of a run is kept if it is the first or is cheaper.
LEMMA KeepKeeps == SearchInv /\ Keep => SearchInv'
<1> SUFFICES ASSUME SearchInv, Keep PROVE SearchInv'
  OBVIOUS
<1>1. SearchTypeOK /\ LeavesInv /\ KeptInv /\ TotalFollowsDecision /\ phase = "keep"
  BY DEF SearchInv, Keep
<1>2. UNCHANGED <<profile, initDecisions, leaves, curNode, partial, decision, curTotal, id>>
  BY DEF Keep, inputVars, searchVars, flipVars
<1>3. /\ phase' \in {"done", "scan"} /\ run' = run + 1
      /\ phase' = "done" \/ run # Len(initDecisions)
  BY DEF Keep
<1>4. SearchTypeOK'
  <2>1. run' \in Nat \ {0} /\ (phase' # "done" => run' <= Len(initDecisions))
    BY <1>1, <1>3 DEF SearchTypeOK
  <2> QED
    BY <1>1, <1>2, <1>3, <2>1 DEF SearchTypeOK, Phases
<1>5. IsProfile(profile) /\ decision \in Decision
  BY <1>1, ProfilesAssumption DEF SearchTypeOK
<1>6. curTotal \in Int /\ decision \in Placed /\ curTotal = Cost(profile, decision, profile.root)
  <2>1. decision \in Placed /\ curTotal = Cost(profile, decision, profile.root)
    BY <1>1 DEF TotalFollowsDecision
  <2>2. Cost(profile, decision, profile.root) \in Nat
    BY <1>5, CostIsNat DEF IsProfile, AreMoves
  <2> QED
    BY <2>1, <2>2
<1>7. results \in Seq(Int) /\ results' = Append(results, curTotal)
  BY <1>1 DEF KeptInv, Keep
<1>8. /\ results' \in Seq(Int)
      /\ \A r \in DOMAIN results' :
           \/ results'[r] = curTotal
           \/ r \in DOMAIN results /\ results'[r] = results[r]
  BY <1>6, <1>7
<1>9. /\ minDecision' # << >> /\ minDecision' \in Placed
      /\ minTotal' = Cost(profile', minDecision', profile'.root)
      /\ \A r \in DOMAIN results' : minTotal' <= results'[r]
  <2>1. << >> \notin Placed
    BY IdsAreFinite DEF Placed
  <2>2. CASE IsCheaper
    <3>1. minDecision' = decision /\ minTotal' = curTotal
      BY <2>2 DEF Keep
    <3>2. \A r \in DOMAIN results : results[r] \in Int /\ curTotal <= results[r]
      <4>1. CASE minDecision = << >>
        BY <1>1, <4>1 DEF KeptInv
      <4>2. CASE minDecision # << >>
        <5>1. minTotal = Cost(profile, minDecision, profile.root) /\ minDecision \in Decision
          BY <1>1, <4>2 DEF KeptInv, ResultIsCheapestRun, Placed, Decision
        <5>2. minTotal \in Nat
          BY <1>5, <5>1, CostIsNat DEF IsProfile, AreMoves
        <5>3. \A r \in DOMAIN results : minTotal <= results[r]
          BY <1>1, <4>2 DEF KeptInv, ResultIsCheapestRun
        <5>4. minTotal > curTotal
          BY <2>2, <4>2 DEF IsCheaper
        <5> QED
          BY <1>6, <1>7, <5>2, <5>3, <5>4
      <4> QED
        BY <4>1, <4>2
    <3> QED
      BY <1>2, <1>6, <1>8, <2>1, <3>1, <3>2
  <2>3. CASE ~IsCheaper
    <3>1. minDecision' = minDecision /\ minTotal' = minTotal /\ minDecision # << >>
      BY <2>3 DEF Keep, IsCheaper
    <3>2. /\ minDecision \in Placed /\ minTotal = Cost(profile, minDecision, profile.root)
          /\ \A r \in DOMAIN results : minTotal <= results[r]
      BY <1>1, <3>1 DEF KeptInv, ResultIsCheapestRun
    <3>3. minTotal \in Nat
      BY <1>5, <3>2, CostIsNat DEF IsProfile, AreMoves, Placed, Decision
    <3>4. minTotal <= curTotal
      BY <1>6, <2>3, <3>3 DEF IsCheaper
    <3> QED
      BY <1>2, <1>8, <3>1, <3>2, <3>4
  <2> QED
    BY <2>2, <2>3
<1>10. KeptInv'
  BY <1>8, <1>9 DEF KeptInv, ResultIsCheapestRun, Placed
<1> QED
  BY <1>1, <1>2, <1>3, <1>4, <1>10, LeavesKept
     DEF SearchInv, UndefinedOnlyIfUnlisted, TotalFollowsDecision

\* The inductive invariant of the search.
THEOREM SearchInvariant == Spec => []SearchInv
<1>1. SearchInv /\ [Next]_vars => SearchInv'
  <2> SUFFICES ASSUME SearchInv, [Next]_vars PROVE SearchInv'
    OBVIOUS
  <2>1. CASE UNCHANGED vars
    <3>1. UNCHANGED <<profile, initDecisions, widens, leaves, curNode, partial, phase, run,
                      decision, curTotal, sweep, id, minVars>>
      BY <2>1 DEF vars, inputVars, searchVars, flipVars
    <3>2. SearchTypeOK' /\ TotalFollowsDecision' /\ UndefinedOnlyIfUnlisted'
      BY <3>1 DEF SearchInv, SearchTypeOK, TotalFollowsDecision, UndefinedOnlyIfUnlisted, Placed,
                  BelowThreshold, Importance, ElapsedTimeMin
    <3>3. LeavesInv'
      BY <3>1 DEF SearchInv, LeavesInv, Dangling
    <3> QED
      BY <3>1, <3>2, <3>3, ResultsKept DEF SearchInv
  <2> QED
    BY <2>1, ScanKeeps, BatchKeeps, FillKeeps, FlipKeeps, KeepKeeps DEF Next
<1> QED
  BY <1>1, SearchInit, PTL DEF Spec

\* While blocks are flipped, the total is what the decision costs.
THEOREM TotalTheorem == Spec => []TotalFollowsDecision
<1>1. SearchInv => TotalFollowsDecision
  BY DEF SearchInv
<1> QED
  BY <1>1, SearchInvariant, PTL

\* What is returned costs what is said, and no run ended with less.
THEOREM ResultTheorem == Spec => []ResultIsCheapestRun
<1>1. SearchInv => ResultIsCheapestRun
  BY DEF SearchInv, KeptInv
<1> QED
  BY <1>1, SearchInvariant, PTL

\* The leaves of deleted tries are never the ones that are read first.
THEOREM UndefinedTheorem == Spec => []UndefinedOnlyIfUnlisted
<1>1. SearchInv => UndefinedOnlyIfUnlisted
  BY DEF SearchInv
<1> QED
  BY <1>1, SearchInvariant, PTL

-----------------------------------------------------------------------------
(* The price of a segment. *)

\* On the way from the root to a leaf nothing differs if all blocks are on one
\* site, the head at the end, which is one of them, included.
LEMMA DifferentFacts ==
  ASSUME NEW leaf \in Seq(Ids), leaf # << >>, NEW d
  PROVE  IsDifferent(d, leaf) <=> \E a, b \in Range(leaf) : d[a] # d[b]
<1>1. Len(leaf) \in Nat /\ DOMAIN leaf = 1 .. Len(leaf) /\ Len(leaf) # 0
  OBVIOUS
<1>2. Range(leaf) = {leaf[i] : i \in 1 .. Len(leaf)}
  BY <1>1 DEF Range
<1>3. ASSUME IsDifferent(d, leaf) PROVE \E a, b \in Range(leaf) : d[a] # d[b]
  <2>1. PICK i \in 1 .. Len(leaf) - 1 : d[leaf[i]] # d[leaf[i + 1]]
    BY <1>3 DEF IsDifferent
  <2>2. i \in 1 .. Len(leaf) /\ i + 1 \in 1 .. Len(leaf)
    BY <1>1
  <2> QED
    BY <1>2, <2>1, <2>2
<1>4. ASSUME ~IsDifferent(d, leaf) PROVE \A a, b \in Range(leaf) : d[a] = d[b]
  <2> DEFINE Same == {k \in Nat : k + 1 <= Len(leaf) => d[leaf[k + 1]] = d[leaf[1]]}
  <2>1. 0 \in Same
    OBVIOUS
  <2>2. ASSUME NEW k \in Same PROVE k + 1 \in Same
    <3>1. SUFFICES ASSUME (k + 1) + 1 <= Len(leaf) PROVE d[leaf[(k + 1) + 1]] = d[leaf[1]]
      OBVIOUS
    <3>2. k \in Nat /\ k + 1 \in 1 .. Len(leaf) - 1 /\ k + 1 <= Len(leaf)
      BY <1>1, <3>1
    <3>3. d[leaf[k + 1]] = d[leaf[(k + 1) + 1]]
      BY <1>4, <3>2 DEF IsDifferent
    <3>4. d[leaf[k + 1]] = d[leaf[1]]
      BY <3>2
    <3> QED
      BY <3>3, <3>4
  <2> HIDE DEF Same
  <2>3. Same = Nat
    <3>1. Same \in SUBSET Nat
      BY DEF Same
    <3> QED
      BY <2>1, <2>2, <3>1, AllNumbers
  <2>4. ASSUME NEW i \in 1 .. Len(leaf) PROVE d[leaf[i]] = d[leaf[1]]
    <3>1. i - 1 \in Same /\ (i - 1) + 1 = i
      BY <1>1, <2>3
    <3> QED
      BY <1>1, <3>1 DEF Same
  <2> QED
    BY <1>2, <2>4
<1> QED
  BY <1>3, <1>4

\* TrieBFS over the nodes prices each segment as the comment about it says.
THEOREM SegmentTheorem == Spec => []ReuseCostIsBySegment
<1>1. SearchTypeOK => ReuseCostIsBySegment
  <2> SUFFICES ASSUME SearchTypeOK
               PROVE  ReuseCost(profile.root, decision)
                        = SumFunction([leaf \in DOMAIN profile.root.count |->
                            SegmentPrice(Trie!ExportSegment(profile.root, leaf), decision)])
    BY DEF ReuseCostIsBySegment
  <2> DEFINE S == DOMAIN profile.root.count
  <2>1. IsProfile(profile)
    BY ProfilesAssumption DEF SearchTypeOK
  <2>2. ASSUME NEW leaf \in S
        PROVE  (IF IsDifferent(decision, leaf)
                THEN profile.root.count[leaf] * PriceOf(decision, leaf) ELSE 0)
                 = SegmentPrice(Trie!ExportSegment(profile.root, leaf), decision)
    <3>1. leaf \in Seq(Ids) /\ leaf # << >>
      BY <2>1 DEF IsProfile, AreMoves
    <3>2. PICK seg : seg = Trie!ExportSegment(profile.root, leaf)
      OBVIOUS
    <3>3. seg.head = leaf[Len(leaf)] /\ seg.set = Range(leaf) /\ seg.count = profile.root.count[leaf]
      BY <3>2 DEF Trie!ExportSegment, Trie!ToSet, Trie!Last, Range
    <3>4. IsDifferent(decision, leaf) <=> ~(\A a, b \in seg.set : decision[a] = decision[b])
      BY <3>1, <3>3, DifferentFacts
    <3>5. PriceOf(decision, leaf) = MoveCost(decision[seg.head])
      BY <3>3 DEF PriceOf
    <3> QED
      BY <3>2, <3>3, <3>4, <3>5 DEF SegmentPrice
  <2>3. [leaf \in S |-> IF IsDifferent(decision, leaf)
                        THEN profile.root.count[leaf] * PriceOf(decision, leaf) ELSE 0]
          = [leaf \in S |-> SegmentPrice(Trie!ExportSegment(profile.root, leaf), decision)]
    BY <2>2
  <2> QED
    BY <2>3 DEF ReuseCost
<1>2. SearchInv => SearchTypeOK
  BY DEF SearchInv
<1> QED
  BY <1>1, <1>2, SearchInvariant, PTL

===============================================================================
