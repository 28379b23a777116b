------------------------ MODULE BlockClusters_proofs ------------------------
(***************************************************************************)
(* Proofs about the disjoint set of the basic-block clustering, for any    *)
(* number of blocks and any inputs: the loop of Find ends, and what Union  *)
(* and Find do to the forest of parents is what Partition promises.        *)
(*                                                                         *)
(* The forest is described by two functions that the code does not keep:   *)
(* the root of each block and the set of blocks it has passed on its way   *)
(* there at most.  The set shrinks with each step, so that a walk of as    *)
(* many steps as there are blocks is over.                                 *)
(***************************************************************************)
EXTENDS BlockClusters, FiniteSums, FiniteSetTheorems, TLAPS

-----------------------------------------------------------------------------
(* Walks. *)

\* Walk(p, l) takes one step from each place to the next.
LEMMA WalkFacts ==
  ASSUME NEW p, NEW l, Cardinality(DOMAIN p) \in Nat
  PROVE  LET n == Cardinality(DOMAIN p)
         IN /\ Walk(p, l)[0] = l
            /\ \A k \in 1 .. n : Walk(p, l)[k] = p[Walk(p, l)[k - 1]]
<1> DEFINE n == Cardinality(DOMAIN p)
           IsWalk(f, k) == /\ f[0] = l
                           /\ \A i \in 1 .. k : f[i] = p[f[i - 1]]
           S == {k \in Nat : \E f : IsWalk(f, k)}
<1>1. 0 \in S
  <2>1. IsWalk([i \in 0 .. 0 |-> l], 0)
    OBVIOUS
  <2> QED
    BY <2>1
<1>2. ASSUME NEW k \in S PROVE k + 1 \in S
  <2>1. PICK f : IsWalk(f, k)
    BY <1>2
  <2> DEFINE g == [i \in 0 .. k + 1 |-> IF i = k + 1 THEN p[f[k]] ELSE f[i]]
  <2>2. k \in Nat
    OBVIOUS
  <2>3. g[0] = l
    BY <2>1, <2>2
  <2>4. ASSUME NEW i \in 1 .. k + 1 PROVE g[i] = p[g[i - 1]]
    <3>1. g[i - 1] = f[i - 1]
      BY <2>2
    <3>2. CASE i = k + 1
      BY <2>2, <3>1, <3>2
    <3>3. CASE i # k + 1
      <4>1. i \in 1 .. k
        BY <2>2, <3>3
      <4>2. g[i] = f[i] /\ f[i] = p[f[i - 1]]
        BY <2>1, <2>2, <3>3, <4>1
      <4> QED
        BY <3>1, <4>2
    <3> QED
      BY <3>2, <3>3
  <2> HIDE DEF g
  <2>5. IsWalk(g, k + 1)
    BY <2>3, <2>4
  <2> QED
    BY <2>2, <2>5
<1>3. S = Nat
  <2>1. S \subseteq Nat
    OBVIOUS
  <2> HIDE DEF S
  <2> QED
    BY <1>1, <1>2, <2>1, AllNumbers
<1>4. PICK f : IsWalk(f, n)
  BY <1>3
<1> DEFINE h == [k \in 0 .. n |-> f[k]]
<1>5. h = [k \in 0 .. n |-> IF k = 0 THEN l ELSE p[h[k - 1]]]
  <2>1. ASSUME NEW k \in 0 .. n PROVE h[k] = IF k = 0 THEN l ELSE p[h[k - 1]]
    BY <1>4
  <2> QED
    BY <2>1
<1> HIDE DEF h
<1>6. Walk(p, l) = [k \in 0 .. n |-> IF k = 0 THEN l ELSE p[Walk(p, l)[k - 1]]]
  BY <1>5 DEF Walk
<1> HIDE DEF IsWalk, S
<1> QED
  BY <1>6

-----------------------------------------------------------------------------
(* Forests. *)

\* root[x] is where the parents of x lead, above[x] has what may be on the way.
IsForest(p, root, above) ==
  LET D == DOMAIN p
  IN /\ p \in [D -> D] /\ root \in [D -> D] /\ above \in [D -> SUBSET D]
     /\ \A x \in D : root[p[x]] = root[x] /\ p[root[x]] = root[x]
     /\ \A x \in D : p[x] = x => root[x] = x /\ above[x] = {x}
     /\ \A x \in D : x \in above[x]
     /\ \A x \in D : p[x] # x => above[p[x]] \subseteq above[x] \ {x}

ForestOK(p) ==
  /\ DOMAIN p \subseteq Blocks
  /\ \E root, above : IsForest(p, root, above)

\* Sets of blocks are finite.
LEMMA BlocksAreFinite ==
  ASSUME NEW S \in SUBSET Blocks
  PROVE  IsFiniteSet(S) /\ Cardinality(S) \in Nat
<1>1. IsFiniteSet(Blocks)
  BY NAssumption, FS_Interval DEF Blocks
<1> QED
  BY <1>1, FS_Subset, FS_CardinalityType

\* A walk of as many steps as there are blocks ends at the root.
LEMMA RootFacts ==
  ASSUME NEW p, DOMAIN p \subseteq Blocks, NEW root, NEW above, IsForest(p, root, above),
         NEW l \in DOMAIN p
  PROVE  Root(p, l) = root[l]
<1> DEFINE D == DOMAIN p
           n == Cardinality(D)
           w == Walk(p, l)
           S == {k \in Nat : k <= n =>
                   /\ w[k] \in D /\ root[w[k]] = root[l]
                   /\ p[w[k]] = w[k] \/ Cardinality(above[w[k]]) <= n - k}
<1>1. n \in Nat
  BY BlocksAreFinite
<1>2. w[0] = l /\ \A k \in 1 .. n : w[k] = p[w[k - 1]]
  BY <1>1, WalkFacts
<1>3. \A x \in D : /\ above[x] \subseteq D /\ Cardinality(above[x]) \in Nat
                   /\ Cardinality(above[x]) <= n
  BY BlocksAreFinite, FS_Subset DEF IsForest
<1> HIDE DEF n, w
<1>4. 0 \in S
  BY <1>1, <1>2, <1>3
<1>5. ASSUME NEW k \in S PROVE k + 1 \in S
  <2> SUFFICES ASSUME k + 1 <= n
               PROVE  /\ w[k + 1] \in D /\ root[w[k + 1]] = root[l]
                      /\ p[w[k + 1]] = w[k + 1] \/ Cardinality(above[w[k + 1]]) <= n - (k + 1)
    OBVIOUS
  <2>1. k \in Nat /\ k + 1 \in 1 .. n /\ k <= n
    BY <1>1
  <2>2. w[k] \in D /\ root[w[k]] = root[l]
        /\ (p[w[k]] = w[k] \/ Cardinality(above[w[k]]) <= n - k)
    BY <2>1
  <2>3. w[k + 1] = p[w[k]]
    <3>1. (k + 1) - 1 = k
      BY <2>1
    <3> QED
      BY <1>2, <2>1, <3>1
  <2>4. w[k + 1] \in D /\ root[w[k + 1]] = root[l]
    BY <2>2, <2>3 DEF IsForest
  <2>5. CASE p[w[k]] = w[k]
    BY <2>3, <2>4, <2>5
  <2>6. CASE p[w[k]] # w[k]
    <3>1. w[k] \in above[w[k]] /\ above[w[k + 1]] \subseteq above[w[k]] \ {w[k]}
      BY <2>2, <2>3, <2>6 DEF IsForest
    <3>2. IsFiniteSet(above[w[k]])
      BY <1>3, <2>2, BlocksAreFinite
    <3>3. Cardinality(above[w[k]] \ {w[k]}) = Cardinality(above[w[k]]) - 1
      BY <3>1, <3>2, FS_RemoveElement
    <3>4. IsFiniteSet(above[w[k]] \ {w[k]})
      BY <3>2, FS_Subset
    <3>5. Cardinality(above[w[k + 1]]) <= Cardinality(above[w[k]]) - 1
      BY <3>1, <3>3, <3>4, FS_Subset
    <3>6. Cardinality(above[w[k + 1]]) \in Nat /\ Cardinality(above[w[k]]) \in Nat
      BY <1>3, <2>2, <2>4
    <3> QED
      BY <1>1, <2>1, <2>2, <2>4, <2>6, <3>5, <3>6
  <2> QED
    BY <2>5, <2>6
<1>6. S = Nat
  <2>1. S \subseteq Nat
    OBVIOUS
  <2> HIDE DEF S
  <2> QED
    BY <1>4, <1>5, <2>1, AllNumbers
<1>7. w[n] \in D /\ root[w[n]] = root[l]
      /\ (p[w[n]] = w[n] \/ Cardinality(above[w[n]]) <= 0)
  BY <1>1, <1>6
<1>8. p[w[n]] = w[n]
  <2>1. w[n] \in above[w[n]] /\ IsFiniteSet(above[w[n]])
    BY <1>3, <1>7, BlocksAreFinite DEF IsForest
  <2>2. Cardinality(above[w[n]]) # 0
    BY <2>1, FS_EmptySet
  <2> QED
    BY <1>3, <1>7, <2>2
<1>9. w[n] = root[l]
  BY <1>7, <1>8 DEF IsForest
<1> QED
  BY <1>9 DEF Root, n, w

-----------------------------------------------------------------------------
(* The operations of DisjointSet. *)

SameRoots(p, q) == \A b : Root(q, b) = Root(p, b)

\* A block that was not known becomes a root, as which it counted before.
LEMMA InsertKeeps ==
  ASSUME NEW p, ForestOK(p), NEW l \in Blocks, l \notin DOMAIN p
  PROVE  ForestOK(Insert(p, l)) /\ SameRoots(p, Insert(p, l))
<1> DEFINE q == Insert(p, l)
<1>1. PICK root, above : IsForest(p, root, above)
  BY DEF ForestOK
<1> DEFINE rootQ == [x \in (DOMAIN p) \cup {l} |-> IF x \in DOMAIN p THEN root[x] ELSE l]
           aboveQ == [x \in (DOMAIN p) \cup {l} |-> IF x \in DOMAIN p THEN above[x] ELSE {l}]
<1>2. DOMAIN q = (DOMAIN p) \cup {l} /\ DOMAIN p \subseteq Blocks /\ DOMAIN q \subseteq Blocks
  BY DEF ForestOK, Insert
<1>3. /\ q[l] = l /\ rootQ[l] = l /\ aboveQ[l] = {l}
      /\ \A x \in DOMAIN p : q[x] = p[x] /\ rootQ[x] = root[x] /\ aboveQ[x] = above[x]
  BY DEF Insert
<1>4. q \in [DOMAIN q -> DOMAIN q]
  BY <1>1, <1>2, <1>3 DEF IsForest, Insert
<1>5. rootQ \in [DOMAIN q -> DOMAIN q] /\ aboveQ \in [DOMAIN q -> SUBSET DOMAIN q]
  BY <1>1, <1>2 DEF IsForest
<1> HIDE DEF q, rootQ, aboveQ
<1>6. IsForest(q, rootQ, aboveQ)
  BY <1>1, <1>2, <1>3, <1>4, <1>5 DEF IsForest
<1>7. ASSUME NEW b PROVE Root(q, b) = Root(p, b)
  <2>1. CASE b \in DOMAIN p
    BY <1>1, <1>2, <1>3, <1>6, <2>1, RootFacts
  <2>2. CASE b = l
    BY <1>2, <1>3, <1>6, <2>2, RootFacts DEF Root
  <2>3. CASE b \notin DOMAIN q
    BY <1>2, <2>3 DEF Root
  <2> QED
    BY <1>2, <2>1, <2>2, <2>3
<1> QED
  BY <1>2, <1>6, <1>7 DEF ForestOK, SameRoots, q

\* Skipping a generation leads to the same root, and no farther than before.
LEMMA HalvingKeeps ==
  ASSUME NEW p, ForestOK(p), NEW q, DOMAIN q = DOMAIN p, q \in [DOMAIN q -> DOMAIN q],
         \A x \in DOMAIN p : q[x] \in {p[x], p[p[x]]}
  PROVE  ForestOK(q) /\ SameRoots(p, q)
<1>1. PICK root, above : IsForest(p, root, above)
  BY DEF ForestOK
<1>2. ASSUME NEW x \in DOMAIN p PROVE q[x] = x <=> p[x] = x
  <2>1. p[x] \in DOMAIN p /\ p[p[x]] \in DOMAIN p
    BY <1>1 DEF IsForest
  <2>2. ASSUME p[x] # x, p[p[x]] = x PROVE FALSE
    <3>1. above[p[x]] \subseteq above[x] \ {x} /\ above[x] \subseteq above[p[x]] \ {p[x]}
      BY <1>1, <2>1, <2>2 DEF IsForest
    <3> QED
      BY <1>1, <3>1 DEF IsForest
  <2> QED
    BY <2>2
<1>3. ASSUME NEW x \in DOMAIN p, q[x] # x
      PROVE  above[q[x]] \subseteq above[x] \ {x}
  <2>1. p[x] # x /\ p[x] \in DOMAIN p
    BY <1>1, <1>2, <1>3 DEF IsForest
  <2>2. above[p[x]] \subseteq above[x] \ {x}
    BY <1>1, <2>1 DEF IsForest
  <2>3. above[p[p[x]]] \subseteq above[p[x]]
    <3>1. CASE p[p[x]] = p[x]
      BY <3>1
    <3>2. CASE p[p[x]] # p[x]
      BY <1>1, <2>1, <3>2 DEF IsForest
    <3> QED
      BY <3>1, <3>2
  <2> QED
    BY <2>2, <2>3
<1>4. ASSUME NEW x \in DOMAIN p PROVE root[q[x]] = root[x] /\ q[root[x]] = root[x]
  <2>1. p[x] \in DOMAIN p /\ root[p[x]] = root[x] /\ root[p[p[x]]] = root[p[x]]
    BY <1>1 DEF IsForest
  <2>2. root[x] \in DOMAIN p /\ p[root[x]] = root[x]
    BY <1>1 DEF IsForest
  <2> QED
    BY <1>2, <2>1, <2>2
<1>5. IsForest(q, root, above)
  BY <1>1, <1>2, <1>3, <1>4 DEF IsForest
<1>6. DOMAIN p \subseteq Blocks
  BY DEF ForestOK
<1>7. ASSUME NEW b PROVE Root(q, b) = Root(p, b)
  <2>1. CASE b \in DOMAIN p
    BY <1>1, <1>5, <1>6, <2>1, RootFacts
  <2>2. CASE b \notin DOMAIN p
    BY <2>2 DEF Root
  <2> QED
    BY <2>1, <2>2
<1> QED
  BY <1>5, <1>6, <1>7 DEF ForestOK, SameRoots

\* Find halves paths and adds a new block as a root: no block changes its root.
LEMMA FoundKeeps ==
  ASSUME NEW p, ForestOK(p), NEW l \in Blocks
  PROVE  /\ ForestOK(Found(p, l)) /\ SameRoots(p, Found(p, l))
         /\ DOMAIN Found(p, l) = (DOMAIN p) \cup {l}
<1>1. CASE l \notin DOMAIN p
  BY <1>1, InsertKeeps DEF Found, Insert
<1>2. CASE l \in DOMAIN p
  <2> DEFINE skipping == {Walk(p, l)[k] : k \in {k \in 0 .. Cardinality(DOMAIN p) : k % 2 = 0}}
             q == [x \in DOMAIN p |-> IF x \in skipping THEN p[p[x]] ELSE p[x]]
  <2>1. Found(p, l) = q
    BY <1>2 DEF Found
  <2> HIDE DEF skipping
  <2>2. p \in [DOMAIN p -> DOMAIN p]
    BY DEF ForestOK, IsForest
  <2>3. DOMAIN q = DOMAIN p /\ q \in [DOMAIN q -> DOMAIN q]
    BY <2>2
  <2>4. \A x \in DOMAIN p : q[x] \in {p[x], p[p[x]]}
    OBVIOUS
  <2> HIDE DEF q
  <2> QED
    BY <1>2, <2>1, <2>3, <2>4, HalvingKeeps
<1> QED
  BY <1>1, <1>2

\* Union gives the blocks of one root the other's.
LEMMA UnionFacts ==
  ASSUME NEW p, ForestOK(p), NEW m \in Blocks, NEW n \in Blocks
  PROVE  /\ ForestOK(Union(p, m, n))
         /\ \A b : Root(Union(p, m, n), b)
                     = IF Root(p, b) = Root(p, m) THEN Root(p, n) ELSE Root(p, b)
<1> DEFINE q == Found(Found(p, m), n)
           rm == Root(p, m)
           rn == Root(p, n)
           u == [q EXCEPT ![rm] = rn]
<1>1. Union(p, m, n) = u
  BY DEF Union
<1>2. ForestOK(Found(p, m)) /\ SameRoots(p, Found(p, m))
      /\ DOMAIN Found(p, m) = (DOMAIN p) \cup {m}
  BY FoundKeeps
<1>3. ForestOK(q) /\ SameRoots(Found(p, m), q) /\ DOMAIN q = (DOMAIN p) \cup {m, n}
  BY <1>2, FoundKeeps
<1>4. \A b : Root(q, b) = Root(p, b)
  BY <1>2, <1>3 DEF SameRoots
<1> HIDE DEF q
<1>5. PICK root, above : IsForest(q, root, above)
  BY <1>3 DEF ForestOK
<1>6. DOMAIN q \subseteq Blocks /\ \A x \in DOMAIN q : Root(p, x) = root[x]
  BY <1>3, <1>4, <1>5, RootFacts DEF ForestOK
<1>7. rm = root[m] /\ rn = root[n] /\ rm \in DOMAIN q /\ rn \in DOMAIN q /\ q[rm] = rm /\ q[rn] = rn
      /\ root[rm] = rm /\ root[rn] = rn
  BY <1>3, <1>5, <1>6 DEF IsForest
<1> HIDE DEF rm, rn
<1>8. CASE rm = rn
  <2>1. u = q
    BY <1>5, <1>7, <1>8 DEF IsForest
  <2> HIDE DEF u
  <2> QED
    BY <1>1, <1>3, <1>4, <1>8, <2>1 DEF rm, rn
<1>9. CASE rm # rn
  <2> DEFINE rootU == [x \in DOMAIN q |-> IF root[x] = rm THEN rn ELSE root[x]]
             aboveU == [x \in DOMAIN q |-> IF root[x] = rm THEN above[x] \cup {rn} ELSE above[x]]
  <2>1. /\ DOMAIN u = DOMAIN q /\ u \in [DOMAIN q -> DOMAIN q]
        /\ u[rm] = rn /\ \A x \in DOMAIN q : x # rm => u[x] = q[x]
    BY <1>5, <1>7 DEF IsForest
  <2>2. rootU \in [DOMAIN q -> DOMAIN q] /\ aboveU \in [DOMAIN q -> SUBSET DOMAIN q]
    BY <1>5, <1>7 DEF IsForest
  <2>3. \A x \in DOMAIN q : /\ rootU[x] = IF root[x] = rm THEN rn ELSE root[x]
                            /\ aboveU[x] = IF root[x] = rm THEN above[x] \cup {rn} ELSE above[x]
    OBVIOUS
  <2> HIDE DEF u, rootU, aboveU
  <2>4. ASSUME NEW x \in DOMAIN q PROVE rootU[u[x]] = rootU[x] /\ u[rootU[x]] = rootU[x]
    <3>1. q[x] \in DOMAIN q /\ root[x] \in DOMAIN q /\ root[q[x]] = root[x] /\ q[root[x]] = root[x]
      BY <1>5 DEF IsForest
    <3>2. u[x] \in DOMAIN q /\ root[u[x]] = IF x = rm THEN rn ELSE root[x]
      BY <1>7, <2>1, <3>1
    <3>3. rootU[u[x]] = rootU[x]
      BY <1>7, <2>3, <3>2
    <3>4. rootU[x] = IF root[x] = rm THEN rn ELSE root[x]
      BY <2>3
    <3>5. CASE root[x] = rm
      <4>1. rn # rm /\ u[rn] = q[rn] /\ q[rn] = rn
        BY <1>7, <1>9, <2>1
      <4> QED
        BY <3>3, <3>4, <3>5, <4>1
    <3>6. CASE root[x] # rm
      BY <2>1, <3>1, <3>3, <3>4, <3>6
    <3> QED
      BY <3>5, <3>6
  <2>5. ASSUME NEW x \in DOMAIN q, u[x] = x PROVE rootU[x] = x /\ aboveU[x] = {x}
    <3>1. x # rm /\ q[x] = x
      BY <1>9, <2>1, <2>5
    <3>2. root[x] = x /\ above[x] = {x}
      BY <1>5, <3>1 DEF IsForest
    <3> QED
      BY <2>3, <3>1, <3>2
  <2>6. ASSUME NEW x \in DOMAIN q, u[x] # x PROVE aboveU[u[x]] \subseteq aboveU[x] \ {x}
    <3>1. CASE x = rm
      <4>1. above[rn] = {rn}
        BY <1>5, <1>7 DEF IsForest
      <4>2. u[x] = rn /\ aboveU[x] = above[x] \cup {rn}
        BY <1>7, <2>1, <2>3, <3>1
      <4>3. aboveU[rn] = {rn}
        BY <1>7, <1>9, <2>3, <4>1
      <4> QED
        BY <1>9, <3>1, <4>2, <4>3
    <3>2. CASE x # rm
      <4>1. u[x] = q[x] /\ q[x] # x /\ x # rn
        BY <1>7, <2>1, <2>6, <3>2
      <4>2. above[q[x]] \subseteq above[x] \ {x} /\ root[q[x]] = root[x] /\ q[x] \in DOMAIN q
        BY <1>5, <4>1 DEF IsForest
      <4> QED
        BY <2>3, <4>1, <4>2
    <3> QED
      BY <3>1, <3>2
  <2>7. \A x \in DOMAIN q : x \in aboveU[x]
    <3>1. \A x \in DOMAIN q : x \in above[x]
      BY <1>5 DEF IsForest
    <3> QED
      BY <2>3, <3>1
  <2>8. IsForest(u, rootU, aboveU)
    BY <2>1, <2>2, <2>4, <2>5, <2>6, <2>7 DEF IsForest
  <2>9. ASSUME NEW b PROVE Root(u, b) = IF Root(p, b) = rm THEN rn ELSE Root(p, b)
    <3>1. CASE b \in DOMAIN q
      <4>1. DOMAIN u \subseteq Blocks /\ b \in DOMAIN u
        BY <1>6, <2>1, <3>1
      <4>2. Root(u, b) = rootU[b]
        BY <2>8, <4>1, RootFacts
      <4> QED
        BY <1>6, <2>3, <3>1, <4>2
    <3>2. CASE b \notin DOMAIN q
      BY <1>4, <1>7, <2>1, <3>2 DEF Root
    <3> QED
      BY <3>1, <3>2
  <2>10. ForestOK(u)
    BY <1>6, <2>1, <2>8 DEF ForestOK
  <2> QED
    BY <1>1, <2>9, <2>10 DEF rm, rn
<1> QED
  BY <1>8, <1>9

-----------------------------------------------------------------------------
(* The classes. *)

ClassAt(p, r) == {b \in Blocks : Root(p, b) = r}

\* The class of a block is the one of its root.
LEMMA ClassFacts ==
  ASSUME NEW a \in Blocks
  PROVE  Clusters!ClassOf(a) = ClassAt(parent, Root(parent, a))
<1>1. Classes = {ClassAt(parent, r) : r \in {Root(parent, b) : b \in Blocks}}
  BY DEF Classes, ClassAt
<1>2. /\ ClassAt(parent, Root(parent, a)) \in Classes
      /\ a \in ClassAt(parent, Root(parent, a))
  BY <1>1 DEF ClassAt
<1>3. ASSUME NEW c \in Classes, a \in c PROVE c = ClassAt(parent, Root(parent, a))
  BY <1>1, <1>3 DEF ClassAt
<1> QED
  BY <1>2, <1>3 DEF Clusters!ClassOf

\* Classes depend on the roots alone.
LEMMA SameClasses ==
  ASSUME SameRoots(parent, parent')
  PROVE  UNCHANGED Classes
BY DEF SameRoots, Classes

\* When the blocks of one root get another, two classes become one.
LEMMA UnionMerges ==
  ASSUME NEW m \in Blocks, NEW n \in Blocks,
         \A b : Root(parent', b) = IF Root(parent, b) = Root(parent, m)
                                   THEN Root(parent, n) ELSE Root(parent, b)
  PROVE  Clusters!Merge(m, n)
<1> DEFINE rm == Root(parent, m)
           rn == Root(parent, n)
           old == {Root(parent, b) : b \in Blocks}
           new == {Root(parent', b) : b \in Blocks}
<1>1. Classes = {ClassAt(parent, r) : r \in old} /\ Classes' = {ClassAt(parent', r) : r \in new}
  BY DEF Classes, ClassAt
<1>2. Clusters!ClassOf(m) = ClassAt(parent, rm) /\ Clusters!ClassOf(n) = ClassAt(parent, rn)
  BY ClassFacts
<1>3. new = (old \ {rm}) \cup {rn} /\ rm \in old /\ rn \in old
  <2>1. ASSUME NEW b \in Blocks PROVE Root(parent', b) \in (old \ {rm}) \cup {rn}
    OBVIOUS
  <2>2. ASSUME NEW b \in Blocks, Root(parent, b) # rm PROVE Root(parent, b) \in new
    BY <2>2
  <2>3. rn \in new
    <3>1. Root(parent', m) = rn
      OBVIOUS
    <3> QED
      BY <3>1
  <2> QED
    BY <2>1, <2>2, <2>3
<1>4. ClassAt(parent', rn) = ClassAt(parent, rm) \cup ClassAt(parent, rn)
  BY DEF ClassAt
<1>5. ASSUME NEW r \in old, r # rm, r # rn PROVE ClassAt(parent', r) = ClassAt(parent, r)
  BY <1>5 DEF ClassAt
<1>6. \A r, s \in old : ClassAt(parent, r) = ClassAt(parent, s) => r = s
  BY DEF ClassAt
<1> HIDE DEF rm, rn, old, new
<1>7. Classes' = (Classes \ {ClassAt(parent, rm), ClassAt(parent, rn)})
                   \cup {ClassAt(parent, rm) \cup ClassAt(parent, rn)}
  <2>1. ASSUME NEW c \in Classes'
        PROVE  c \in (Classes \ {ClassAt(parent, rm), ClassAt(parent, rn)})
                       \cup {ClassAt(parent, rm) \cup ClassAt(parent, rn)}
    <3>1. PICK r \in new : c = ClassAt(parent', r)
      BY <1>1
    <3>2. CASE r = rn
      BY <1>4, <3>1, <3>2
    <3>3. CASE r # rn
      <4>1. r \in old /\ r # rm
        BY <1>3, <3>3
      <4>2. c = ClassAt(parent, r)
        BY <1>5, <3>1, <3>3, <4>1
      <4> QED
        BY <1>1, <1>3, <1>6, <3>3, <4>1, <4>2
    <3> QED
      BY <3>2, <3>3
  <2>2. ClassAt(parent, rm) \cup ClassAt(parent, rn) \in Classes'
    BY <1>1, <1>3, <1>4
  <2>3. ASSUME NEW c \in Classes, c # ClassAt(parent, rm), c # ClassAt(parent, rn)
        PROVE  c \in Classes'
    <3>1. PICK r \in old : c = ClassAt(parent, r)
      BY <1>1
    <3>2. r # rm /\ r # rn /\ r \in new
      BY <1>3, <2>3, <3>1
    <3> QED
      BY <1>1, <1>5, <3>1, <3>2
  <2> QED
    BY <2>1, <2>2, <2>3
<1> QED
  BY <1>2, <1>7 DEF Clusters!Merge

-----------------------------------------------------------------------------
(* The invariant and the refinement. *)

ClusterInv ==
  /\ ForestOK(parent)
  /\ left \subseteq vec /\ \A v \in vec : v.pair \in Pairs
  /\ redecide \subseteq Blocks /\ todo \subseteq Blocks

\* Both ends of a pair, which may be the same, are blocks.
LEMMA PairFacts ==
  ASSUME NEW pair \in Pairs
  PROVE  pair \subseteq Blocks /\ Min(pair) \in Blocks /\ Max(pair) \in Blocks
<1>1. PICK a, b \in Blocks : pair = {a, b}
  BY DEF Pairs
<1>2. a \in Int /\ b \in Int
  BY NAssumption DEF Blocks
<1>3. Min(pair) \in pair
  <2>1. \E x \in pair : \A y \in pair : x <= y
    BY <1>1, <1>2
  <2> QED
    BY <2>1 DEF Min
<1>4. Max(pair) \in pair
  <2>1. \E x \in pair : \A y \in pair : x >= y
    BY <1>1, <1>2
  <2> QED
    BY <2>1 DEF Max
<1> QED
  BY <1>1, <1>3, <1>4

\* No block has a parent at first, and each is a class.
LEMMA ClusterInit == Init => ClusterInv /\ Clusters!Init
<1> SUFFICES ASSUME Init PROVE ClusterInv /\ Clusters!Init
  OBVIOUS
<1>1. parent = << >> /\ DOMAIN parent = {}
  BY DEF Init
<1>2. ForestOK(parent)
  <2> DEFINE none == [x \in {} |-> x]
  <2>1. IsForest(parent, none, none)
    BY <1>1 DEF IsForest
  <2> QED
    BY <1>1, <2>1 DEF ForestOK
<1>3. \A v \in PairCosts(input) : v.pair \in Pairs
  BY DEF PairCosts
<1>4. ClusterInv
  BY <1>2, <1>3 DEF Init, ClusterInv
<1>5. \A b : Root(parent, b) = b
  BY <1>1 DEF Root
<1>6. Classes = {{b} : b \in Blocks}
  <2>1. Classes = {{b \in Blocks : b = r} : r \in Blocks}
    BY <1>5 DEF Classes
  <2>2. \A r \in Blocks : {b \in Blocks : b = r} = {r}
    OBVIOUS
  <2> QED
    BY <2>1, <2>2
<1> QED
  BY <1>4, <1>6 DEF Clusters!Init

\* UnionPair keeps the forest and does to the classes what Merge does.
LEMMA UnionPairStep ==
  ASSUME ClusterInv, UnionPair
  PROVE  ClusterInv' /\ [Clusters!Next]_Classes
<1>1. PICK v \in left :
        /\ left' = left \ {v}
        /\ IF Heavy(v)
           THEN /\ redecide' = redecide \cup v.pair
                /\ parent' = Union(parent, Min(v.pair), Max(v.pair))
           ELSE UNCHANGED <<redecide, parent>>
  BY DEF UnionPair
<1>2. vec' = vec /\ todo' \in {{}, redecide'}
  BY DEF UnionPair
<1>3. v.pair \in Pairs
  BY DEF ClusterInv
<1> DEFINE a == Min(v.pair)
           b == Max(v.pair)
<1>4. v.pair \subseteq Blocks /\ a \in Blocks /\ b \in Blocks
  BY <1>3, PairFacts
<1> HIDE DEF a, b
<1>5. CASE Heavy(v)
  <2>1. parent' = Union(parent, a, b) /\ redecide' = redecide \cup v.pair
    BY <1>1, <1>5 DEF a, b
  <2>2. /\ ForestOK(parent')
        /\ \A x : Root(parent', x) = IF Root(parent, x) = Root(parent, a)
                                     THEN Root(parent, b) ELSE Root(parent, x)
    BY <1>4, <2>1, UnionFacts DEF ClusterInv
  <2>3. ClusterInv'
    BY <1>1, <1>2, <1>4, <2>1, <2>2 DEF ClusterInv
  <2>4. Clusters!Merge(a, b)
    BY <1>4, <2>2, UnionMerges
  <2> QED
    BY <1>4, <2>3, <2>4 DEF Clusters!Next
<1>6. CASE ~Heavy(v)
  <2>1. UNCHANGED <<redecide, parent>>
    BY <1>1, <1>6
  <2>2. ClusterInv'
    BY <1>1, <1>2, <2>1 DEF ClusterInv
  <2>3. UNCHANGED Classes
    BY <2>1 DEF Classes
  <2> QED
    BY <2>2, <2>3
<1> QED
  BY <1>5, <1>6

\* The loops that count and decide call Find only.
LEMMA LoopStep ==
  ASSUME ClusterInv, CountBlock \/ DecideBlock
  PROVE  ClusterInv' /\ UNCHANGED Classes
<1>1. PICK b \in todo : /\ todo' \in {redecide, todo \ {b}}
                        /\ \/ parent' = Found(Found(Found(parent, b), b), b)
                           \/ parent' = Found(Found(parent, b), b)
  BY DEF CountBlock, DecideBlock, Advance
<1>2. UNCHANGED <<vec, left, redecide>>
  BY DEF CountBlock, DecideBlock
<1>3. b \in Blocks /\ ForestOK(parent)
  BY DEF ClusterInv
<1> DEFINE once == Found(parent, b)
           twice == Found(once, b)
           thrice == Found(twice, b)
<1>4. ForestOK(once) /\ SameRoots(parent, once)
  BY <1>3, FoundKeeps
<1> HIDE DEF once
<1>5. ForestOK(twice) /\ SameRoots(once, twice)
  BY <1>3, <1>4, FoundKeeps
<1> HIDE DEF twice
<1>6. ForestOK(thrice) /\ SameRoots(twice, thrice)
  BY <1>3, <1>5, FoundKeeps
<1> HIDE DEF thrice
<1>7. parent' \in {twice, thrice}
  BY <1>1 DEF once, twice, thrice
<1>8. ForestOK(parent') /\ SameRoots(parent, parent')
  BY <1>4, <1>5, <1>6, <1>7 DEF SameRoots
<1>9. ClusterInv'
  BY <1>1, <1>2, <1>8 DEF ClusterInv
<1> QED
  BY <1>8, <1>9, SameClasses

\* Every step keeps the forest and merges two classes or none.
LEMMA ClusterStep == ClusterInv /\ [Next]_vars => ClusterInv' /\ [Clusters!Next]_Classes
<1> SUFFICES ASSUME ClusterInv, [Next]_vars
             PROVE  ClusterInv' /\ [Clusters!Next]_Classes
  OBVIOUS
<1>1. CASE UnionPair
  BY <1>1, UnionPairStep
<1>2. CASE CountBlock \/ DecideBlock
  BY <1>2, LoopStep
<1>3. CASE UNCHANGED vars
  <2>1. UNCHANGED <<parent, left, vec, redecide, todo>>
    BY <1>3 DEF vars
  <2> QED
    BY <2>1 DEF ClusterInv, Classes
<1> QED
  BY <1>1, <1>2, <1>3 DEF Next

\* The parents form a forest at any time, and the loops are over known blocks.
THEOREM ClusterInvariant == Spec => []ClusterInv
BY ClusterInit, ClusterStep, PTL DEF Spec

\* The loop of Find ends at a block that is its own parent, for any number of
\* blocks and after any unions (Util.h:31-49).
THEOREM ParentsTheorem == Spec => []ParentsEnd
<1>1. ClusterInv => ParentsEnd
  <2> SUFFICES ASSUME ClusterInv, NEW b \in DOMAIN parent
               PROVE  parent[Root(parent, b)] = Root(parent, b)
    BY DEF ParentsEnd
  <2>1. PICK root, above : IsForest(parent, root, above)
    BY DEF ClusterInv, ForestOK
  <2>2. Root(parent, b) = root[b]
    BY <2>1, RootFacts DEF ClusterInv, ForestOK
  <2> QED
    BY <2>1, <2>2 DEF IsForest
<1> QED
  BY <1>1, ClusterInvariant, PTL

\* What Union and Find do to the forest is what a partition of the blocks allows:
\* a heavy pair merges its two classes, everything else leaves all as they are.
THEOREM PartitionTheorem == Spec => ImplementsPartition
<1>1. Init => Clusters!Init
  BY ClusterInit
<1>2. ClusterInv /\ [Next]_vars => [Clusters!Next]_Classes
  BY ClusterStep
<1> QED
  BY <1>1, <1>2, ClusterInvariant, PTL DEF Spec, ImplementsPartition, Clusters!Spec

-----------------------------------------------------------------------------
(* What the roots say of heavy pairs. *)

\* A pair is the two blocks that Union is called with.
LEMMA PairIsMinMax ==
  ASSUME NEW pair \in Pairs
  PROVE  pair = {Min(pair), Max(pair)}
<1>1. PICK a, b \in Blocks : pair = {a, b}
  BY DEF Pairs
<1>2. a \in Int /\ b \in Int
  BY NAssumption DEF Blocks
<1>3. Min(pair) \in pair /\ \A y \in pair : Min(pair) <= y
  <2>1. \E x \in pair : \A y \in pair : x <= y
    BY <1>1, <1>2
  <2> QED
    BY <2>1 DEF Min
<1>4. Max(pair) \in pair /\ \A y \in pair : Max(pair) >= y
  <2>1. \E x \in pair : \A y \in pair : x >= y
    BY <1>1, <1>2
  <2> QED
    BY <2>1 DEF Max
<1> QED
  BY <1>1, <1>2, <1>3, <1>4

SameRoot(a, b) == Root(parent, a) = Root(parent, b)

\* Blocks of one root are never kept apart by a set that keeps heavy pairs; the
\* pairs the loop has come to have their root in common and are to be redecided;
\* and a block that is not has its root for itself.
RootsFollowPairs ==
  /\ \A S \in SUBSET Blocks : KeepsPairs(S) =>
       \A a, b \in Blocks : SameRoot(a, b) /\ a \in S => b \in S
  /\ \A v \in vec \ left : Heavy(v) => \A a, b \in v.pair : SameRoot(a, b)
  /\ \A a, b \in Blocks : SameRoot(a, b) => a = b \/ {a, b} \subseteq redecide

\* At first every block is its own root, and no pair has been come to.
LEMMA RootsInit == Init => RootsFollowPairs
<1> SUFFICES ASSUME Init PROVE RootsFollowPairs
  OBVIOUS
<1>1. \A b : Root(parent, b) = b
  BY DEF Init, Root
<1>2. left = vec
  BY DEF Init
<1> QED
  BY <1>1, <1>2 DEF RootsFollowPairs, SameRoot

\* What a union does to two blocks of one root.
LEMMA JoinedRoots ==
  ASSUME NEW m \in Blocks, NEW n \in Blocks, NEW a \in Blocks, NEW b \in Blocks,
         \A x : Root(parent', x) = IF Root(parent, x) = Root(parent, m)
                                   THEN Root(parent, n) ELSE Root(parent, x),
         SameRoot(a, b)'
  PROVE  \/ SameRoot(a, b)
         \/ SameRoot(a, m) /\ SameRoot(n, b)
         \/ SameRoot(a, n) /\ SameRoot(m, b)
BY DEF SameRoot

\* The union of a heavy pair joins its blocks, and no others than it must.
LEMMA RootsUnion ==
  ASSUME ClusterInv, RootsFollowPairs, UnionPair
  PROVE  RootsFollowPairs'
<1>1. PICK v \in left :
        /\ left' = left \ {v}
        /\ IF Heavy(v)
           THEN /\ redecide' = redecide \cup v.pair
                /\ parent' = Union(parent, Min(v.pair), Max(v.pair))
           ELSE UNCHANGED <<redecide, parent>>
  BY DEF UnionPair
<1>2. vec' = vec /\ v \in vec /\ v.pair \in Pairs
  BY DEF UnionPair, ClusterInv
<1>3. (\A w : Heavy(w)' <=> Heavy(w)) /\ (\A S : KeepsPairs(S)' <=> KeepsPairs(S))
  BY <1>2 DEF Heavy, KeepsPairs
<1> DEFINE m == Min(v.pair)
           n == Max(v.pair)
<1>4. v.pair \subseteq Blocks /\ m \in Blocks /\ n \in Blocks /\ v.pair = {m, n}
  BY <1>2, PairFacts, PairIsMinMax
<1> HIDE DEF m, n
<1>5. CASE Heavy(v)
  <2>1. parent' = Union(parent, m, n) /\ redecide' = redecide \cup {m, n}
    BY <1>1, <1>4, <1>5 DEF m, n
  <2>2. \A x : Root(parent', x) = IF Root(parent, x) = Root(parent, m)
                                  THEN Root(parent, n) ELSE Root(parent, x)
    BY <1>4, <2>1, UnionFacts DEF ClusterInv
  <2>3. ASSUME NEW a \in Blocks, NEW b \in Blocks, SameRoot(a, b)'
        PROVE  \/ SameRoot(a, b)
               \/ SameRoot(a, m) /\ SameRoot(n, b)
               \/ SameRoot(a, n) /\ SameRoot(m, b)
    BY <1>4, <2>2, <2>3, JoinedRoots
  <2>4. ASSUME NEW S \in SUBSET Blocks, KeepsPairs(S)', NEW a \in Blocks, NEW b \in Blocks,
               SameRoot(a, b)', a \in S
        PROVE  b \in S
    <3>1. m \in S <=> n \in S
      BY <1>2, <1>3, <1>4, <1>5, <2>4 DEF KeepsPairs
    <3>2. \A x, y \in Blocks : SameRoot(x, y) /\ x \in S => y \in S
      BY <1>3, <2>4 DEF RootsFollowPairs
    <3> QED
      BY <1>4, <2>3, <2>4, <3>1, <3>2
  <2>5. ASSUME NEW w \in vec' \ left', Heavy(w)', NEW a \in w.pair, NEW b \in w.pair
        PROVE  SameRoot(a, b)'
    <3>1. CASE w = v
      <4>1. a \in {m, n} /\ b \in {m, n}
        BY <1>4, <2>5, <3>1
      <4> QED
        BY <2>2, <4>1 DEF SameRoot
    <3>2. CASE w # v
      <4>1. SameRoot(a, b)
        BY <1>1, <1>2, <1>3, <2>5, <3>2 DEF RootsFollowPairs
      <4> QED
        BY <2>2, <4>1 DEF SameRoot
    <3> QED
      BY <3>1, <3>2
  <2>6. ASSUME NEW a \in Blocks, NEW b \in Blocks, SameRoot(a, b)'
        PROVE  a = b \/ {a, b} \subseteq redecide'
    <3>1. \A x, y \in Blocks : SameRoot(x, y) => x = y \/ {x, y} \subseteq redecide
      BY DEF RootsFollowPairs
    <3> QED
      BY <1>4, <2>1, <2>3, <2>6, <3>1
  <2> QED
    BY <2>4, <2>5, <2>6 DEF RootsFollowPairs
<1>6. CASE ~Heavy(v)
  <2>1. UNCHANGED <<redecide, parent>>
    BY <1>1, <1>6
  <2>2. \A a, b : SameRoot(a, b)' <=> SameRoot(a, b)
    BY <2>1 DEF SameRoot
  <2>3. ASSUME NEW w \in vec' \ left', Heavy(w)' PROVE w \in vec \ left /\ Heavy(w)
    BY <1>1, <1>2, <1>3, <1>6, <2>3
  <2> QED
    BY <1>3, <2>1, <2>2, <2>3 DEF RootsFollowPairs
<1> QED
  BY <1>5, <1>6

\* Nothing else gives a block another root.
LEMMA RootsKept ==
  ASSUME RootsFollowPairs, SameRoots(parent, parent'), UNCHANGED <<vec, left, redecide>>
  PROVE  RootsFollowPairs'
<1>1. (\A w : Heavy(w)' <=> Heavy(w)) /\ (\A S : KeepsPairs(S)' <=> KeepsPairs(S))
  BY DEF Heavy, KeepsPairs
<1>2. \A a, b : SameRoot(a, b)' <=> SameRoot(a, b)
  BY DEF SameRoot, SameRoots
<1> QED
  BY <1>1, <1>2 DEF RootsFollowPairs

\* When the loop has come to every pair, a root is what heavy pairs connect.
LEMMA RootsAreClusters ==
  ASSUME ClusterInv, RootsFollowPairs, left = {}, NEW a \in Blocks, NEW b \in Blocks
  PROVE  Connected(a, b) <=> SameRoot(a, b)
<1>1. ASSUME Connected(a, b) PROVE SameRoot(a, b)
  <2> DEFINE S == {x \in Blocks : SameRoot(a, x)}
  <2>1. ASSUME NEW v \in vec, Heavy(v), v.pair \cap S # {} PROVE v.pair \subseteq S
    <3>1. v.pair \subseteq Blocks
      BY PairFacts DEF ClusterInv
    <3>2. PICK x \in v.pair : SameRoot(a, x)
      BY <2>1
    <3>3. \A y \in v.pair : SameRoot(x, y)
      BY <2>1 DEF RootsFollowPairs
    <3> QED
      BY <3>1, <3>2, <3>3 DEF SameRoot
  <2>2. S \in SUBSET Blocks /\ a \in S
    BY DEF SameRoot
  <2> HIDE DEF S
  <2>3. KeepsPairs(S)
    BY <2>1 DEF KeepsPairs
  <2>4. b \in S
    BY <1>1, <2>2, <2>3 DEF Connected
  <2> QED
    BY <2>4 DEF S
<1>2. ASSUME SameRoot(a, b) PROVE Connected(a, b)
  BY <1>2 DEF Connected, RootsFollowPairs
<1> QED
  BY <1>1, <1>2

-----------------------------------------------------------------------------
(* The counts. *)

\* The counts of the blocks of D under root r, and the table that has those of
\* every root of a block of D.
CountsAt(D, r) ==
  [pim   |-> Cardinality({a \in D : Root(parent, a) = r /\ IsPim(a)}),
   other |-> Cardinality({a \in D : Root(parent, a) = r /\ ~IsPim(a)})]

IsTable(D) ==
  /\ DOMAIN dsCount = {Root(parent, a) : a \in D}
  /\ \A r \in DOMAIN dsCount : dsCount[r] = CountsAt(D, r)

OneMore(c, b) == IF IsPim(b) THEN [c EXCEPT !.pim = @ + 1] ELSE [c EXCEPT !.other = @ + 1]

\* The counts found, none for a root without a block, are those of D.
LEMMA TableFacts ==
  ASSUME NEW D \in SUBSET Blocks, IsTable(D), NEW r
  PROVE  CountOf(r) = CountsAt(D, r)
<1>1. CASE r \in DOMAIN dsCount
  BY <1>1 DEF IsTable, CountOf
<1>2. CASE r \notin DOMAIN dsCount
  <2>1. {a \in D : Root(parent, a) = r /\ IsPim(a)} = {}
        /\ {a \in D : Root(parent, a) = r /\ ~IsPim(a)} = {}
    BY <1>2 DEF IsTable
  <2>2. CountsAt(D, r) = [pim |-> 0, other |-> 0]
    BY <2>1, FS_EmptySet DEF CountsAt
  <2> QED
    BY <1>2, <2>2 DEF CountOf
<1> QED
  BY <1>1, <1>2

\* One more block adds one to a count of its root.
LEMMA CountsGrow ==
  ASSUME NEW D \in SUBSET Blocks, NEW b \in Blocks, b \notin D, NEW r
  PROVE  CountsAt(D \cup {b}, r)
           = IF Root(parent, b) = r THEN OneMore(CountsAt(D, r), b) ELSE CountsAt(D, r)
<1> DEFINE P(E) == {a \in E : Root(parent, a) = r /\ IsPim(a)}
           Q(E) == {a \in E : Root(parent, a) = r /\ ~IsPim(a)}
           E == D \cup {b}
<1>1. /\ CountsAt(D, r) = [pim |-> Cardinality(P(D)), other |-> Cardinality(Q(D))]
      /\ CountsAt(E, r) = [pim |-> Cardinality(P(E)), other |-> Cardinality(Q(E))]
  BY DEF CountsAt
<1>2. IsFiniteSet(P(D)) /\ IsFiniteSet(Q(D)) /\ b \notin P(D) /\ b \notin Q(D)
  BY BlocksAreFinite
<1>3. /\ P(E) = IF Root(parent, b) = r /\ IsPim(b) THEN P(D) \cup {b} ELSE P(D)
      /\ Q(E) = IF Root(parent, b) = r /\ ~IsPim(b) THEN Q(D) \cup {b} ELSE Q(D)
  OBVIOUS
<1> HIDE DEF P, Q, E
<1>4. /\ Cardinality(P(D) \cup {b}) = Cardinality(P(D)) + 1
      /\ Cardinality(Q(D) \cup {b}) = Cardinality(Q(D)) + 1
  BY <1>2, FS_AddElement
<1>5. CountsAt(E, r) = IF Root(parent, b) = r THEN OneMore(CountsAt(D, r), b)
                                               ELSE CountsAt(D, r)
  BY <1>1, <1>3, <1>4 DEF OneMore
<1> QED
  BY <1>5 DEF E

\* The loop that counts files a block under the root it has.
LEMMA TableStep ==
  ASSUME NEW D \in SUBSET Blocks, NEW b \in Blocks, b \notin D, IsTable(D),
         SameRoots(parent, parent'), UNCHANGED input,
         dsCount' = [x \in (DOMAIN dsCount) \cup {Root(parent, b)} |->
                       IF x = Root(parent, b) THEN OneMore(CountOf(x), b) ELSE dsCount[x]]
  PROVE  IsTable(D \cup {b})'
<1> DEFINE E == D \cup {b}
<1>1. \A a : Root(parent', a) = Root(parent, a) /\ (IsPim(a)' <=> IsPim(a))
  BY DEF SameRoots, IsPim
<1>2. ASSUME NEW r PROVE CountsAt(E, r)' = CountsAt(E, r)
  BY <1>1 DEF CountsAt
<1>3. DOMAIN dsCount' = {Root(parent', a) : a \in E}
  BY <1>1 DEF IsTable
<1>4. ASSUME NEW r \in DOMAIN dsCount' PROVE dsCount'[r] = CountsAt(E, r)
  <2>1. CASE r = Root(parent, b)
    <3>1. CountOf(r) = CountsAt(D, r)
      BY TableFacts
    <3>2. dsCount'[r] = OneMore(CountsAt(D, r), b)
      BY <1>4, <2>1, <3>1
    <3> QED
      BY <2>1, <3>2, CountsGrow
  <2>2. CASE r # Root(parent, b)
    <3>1. r \in DOMAIN dsCount /\ dsCount'[r] = dsCount[r]
      BY <1>4, <2>2
    <3>2. dsCount[r] = CountsAt(D, r)
      BY <3>1 DEF IsTable
    <3> QED
      BY <2>2, <3>1, <3>2, CountsGrow
  <2> QED
    BY <2>1, <2>2
<1> QED
  BY <1>2, <1>3, <1>4 DEF IsTable

\* A table stays one while roots and counts do.
LEMMA TableKept ==
  ASSUME NEW D, IsTable(D), SameRoots(parent, parent'), UNCHANGED <<input, dsCount>>
  PROVE  IsTable(D)'
<1>1. \A a : Root(parent', a) = Root(parent, a) /\ (IsPim(a)' <=> IsPim(a))
  BY DEF SameRoots, IsPim
<1>2. ASSUME NEW r PROVE CountsAt(D, r)' = CountsAt(D, r)
  BY <1>1 DEF CountsAt
<1> QED
  BY <1>1, <1>2 DEF IsTable

-----------------------------------------------------------------------------
(* The decision. *)

\* The file's decision names a site for every block.
LEMMA FileDecidesAll == \A in : DOMAIN ScaFromFile(in) = Blocks
<1> SUFFICES ASSUME NEW in PROVE DOMAIN ScaFromFile(in) = Blocks
  OBVIOUS
<1> DEFINE IsSites(f, n) ==
             \A i \in 0 .. n : f[i] = SiteFor(in, i, IF i = 0 THEN "PIM" ELSE f[i - 1])
           S == {n \in Nat : \E f : IsSites(f, n)}
<1>1. 0 \in S
  <2>1. IsSites([i \in 0 .. 0 |-> SiteFor(in, 0, "PIM")], 0)
    OBVIOUS
  <2> QED
    BY <2>1
<1>2. ASSUME NEW n \in S PROVE n + 1 \in S
  <2>1. PICK f : IsSites(f, n)
    BY <1>2
  <2> DEFINE g == [i \in 0 .. n + 1 |-> IF i = n + 1 THEN SiteFor(in, i, f[n]) ELSE f[i]]
  <2>2. n \in Nat
    OBVIOUS
  <2>3. ASSUME NEW i \in 0 .. n + 1
        PROVE  g[i] = SiteFor(in, i, IF i = 0 THEN "PIM" ELSE g[i - 1])
    <3>1. CASE i = n + 1
      <4>1. g[i] = SiteFor(in, i, f[n]) /\ g[i - 1] = f[n] /\ i # 0
        BY <2>2, <3>1
      <4> QED
        BY <4>1
    <3>2. CASE i # n + 1
      <4>1. i \in 0 .. n
        BY <2>2, <3>2
      <4>2. g[i] = f[i] /\ (i # 0 => g[i - 1] = f[i - 1])
        BY <2>2, <4>1
      <4>3. f[i] = SiteFor(in, i, IF i = 0 THEN "PIM" ELSE f[i - 1])
        BY <2>1, <4>1
      <4> QED
        BY <4>2, <4>3
    <3> QED
      BY <3>1, <3>2
  <2> HIDE DEF g
  <2>4. IsSites(g, n + 1)
    BY <2>3
  <2> QED
    BY <2>2, <2>4
<1>3. S = Nat
  <2>1. S \subseteq Nat
    OBVIOUS
  <2> HIDE DEF S
  <2> QED
    BY <1>1, <1>2, <2>1, AllNumbers
<1>4. PICK f : IsSites(f, N - 1)
  <2>1. N - 1 \in Nat
    BY NAssumption
  <2>2. N - 1 \in S
    BY <1>3, <2>1
  <2> HIDE DEF IsSites
  <2> QED
    BY <2>2
<1> DEFINE h == [i \in Blocks |-> f[i]]
<1>5. h = [i \in Blocks |-> SiteFor(in, i, IF i = 0 THEN "PIM" ELSE h[i - 1])]
  <2>1. ASSUME NEW i \in Blocks PROVE h[i] = SiteFor(in, i, IF i = 0 THEN "PIM" ELSE h[i - 1])
    <3>1. i \in 0 .. N - 1 /\ (i # 0 => i - 1 \in Blocks)
      BY NAssumption DEF Blocks
    <3>2. h[i] = f[i] /\ (i # 0 => h[i - 1] = f[i - 1])
      BY <3>1
    <3> HIDE DEF h
    <3> QED
      BY <1>4, <3>1, <3>2
  <2> QED
    BY <2>1
<1> HIDE DEF h
<1>6. ScaFromFile(in) = [i \in Blocks |-> SiteFor(in, i, IF i = 0 THEN "PIM"
                                                         ELSE ScaFromFile(in)[i - 1])]
  BY <1>5 DEF ScaFromFile
<1> QED
  BY <1>6

\* The blocks counted so far, and those decided.
Counted == IF phase = "count" THEN redecide \ todo
           ELSE IF phase \in {"decide", "done"} THEN redecide ELSE {}
Redecided == IF phase = "decide" THEN redecide \ todo
             ELSE IF phase = "done" THEN redecide ELSE {}

\* Clusters are counted once the unions are over, block by block, and then each
\* block is put where the counts of its root say; the others stay.
DecisionInv ==
  /\ phase \in {"undefined", "union", "count", "decide", "done"}
  /\ phase # "union" => left = {}
  /\ todo \subseteq redecide
  /\ IsTable(Counted)
  /\ DOMAIN decision = Blocks
  /\ \A b \in Redecided : decision[b] = SiteOfCluster(dsCount[Root(parent, b)], b)
  /\ \A b \in Blocks \ Redecided : decision[b] = ScaFromFile(input)[b]

\* Before the loops no block is counted or redecided.
LEMMA DecisionInit == Init => DecisionInv
<1> SUFFICES ASSUME Init PROVE DecisionInv
  OBVIOUS
<1>1. phase \in {"undefined", "union"} /\ left = vec /\ (phase # "union" => vec = {})
  BY DEF Init
<1>2. Counted = {} /\ Redecided = {}
  BY <1>1 DEF Counted, Redecided
<1>3. DOMAIN dsCount = {}
  BY DEF Init
<1>4. IsTable(Counted)
  BY <1>2, <1>3 DEF IsTable
<1>5. decision = ScaFromFile(input) /\ DOMAIN decision = Blocks
  BY FileDecidesAll DEF Init
<1>6. todo = {}
  BY DEF Init
<1> QED
  BY <1>1, <1>2, <1>4, <1>5, <1>6 DEF DecisionInv

\* The loop of unions counts nothing, and leaves all to be counted when it ends.
LEMMA DecisionUnion ==
  ASSUME DecisionInv, UnionPair
  PROVE  DecisionInv'
<1>1. /\ phase = "union" /\ UNCHANGED <<input, decision, dsCount>>
      /\ phase' = IF left' = {} THEN "count" ELSE "union"
      /\ todo' = IF left' = {} THEN redecide' ELSE {}
  BY DEF UnionPair
<1>2. Counted = {} /\ Redecided = {} /\ Counted' = {} /\ Redecided' = {}
  BY <1>1 DEF Counted, Redecided
<1>3. DOMAIN dsCount' = {}
  BY <1>1, <1>2 DEF DecisionInv, IsTable
<1>4. IsTable(Counted)'
  BY <1>2, <1>3 DEF IsTable
<1> QED
  BY <1>1, <1>2, <1>4 DEF DecisionInv

\* The loop that counts adds the block to the table; with the last one the loop
\* that decides begins, and has decided nothing.
LEMMA DecisionCount ==
  ASSUME ClusterInv, DecisionInv, CountBlock
  PROVE  DecisionInv' /\ SameRoots(parent, parent')
<1>1. /\ phase = "count"
      /\ UNCHANGED <<input, decision, vec, left, redecide>>
  BY DEF CountBlock
<1>2. PICK b \in todo :
        /\ dsCount' = [x \in (DOMAIN dsCount) \cup {Root(parent, b)} |->
                         IF x = Root(parent, b) THEN OneMore(CountOf(Root(parent, b)), b)
                                                ELSE dsCount[x]]
        /\ parent' = Found(Found(Found(parent, b), b), b)
        /\ Advance(b, "decide")
  BY DEF CountBlock, OneMore
<1>3. b \in Blocks /\ ForestOK(parent) /\ redecide \subseteq Blocks
      /\ todo \subseteq redecide
  BY DEF ClusterInv, DecisionInv
<1>4. SameRoots(parent, parent')
  <2> DEFINE once == Found(parent, b)
             twice == Found(once, b)
  <2>1. ForestOK(once) /\ SameRoots(parent, once)
    BY <1>3, FoundKeeps
  <2> HIDE DEF once
  <2>2. ForestOK(twice) /\ SameRoots(once, twice)
    BY <1>3, <2>1, FoundKeeps
  <2> HIDE DEF twice
  <2>3. SameRoots(twice, Found(twice, b))
    BY <1>3, <2>2, FoundKeeps
  <2>4. parent' = Found(twice, b)
    BY <1>2 DEF once, twice
  <2> QED
    BY <2>1, <2>2, <2>3, <2>4 DEF SameRoots
<1>5. Counted = redecide \ todo /\ Redecided = {}
  BY <1>1 DEF Counted, Redecided
<1> PICK D : D = redecide \ todo
  OBVIOUS
<1>6. D \in SUBSET Blocks /\ b \notin D /\ IsTable(D)
  BY <1>3, <1>5 DEF DecisionInv
<1>7. dsCount' = [x \in (DOMAIN dsCount) \cup {Root(parent, b)} |->
                    IF x = Root(parent, b) THEN OneMore(CountOf(x), b) ELSE dsCount[x]]
  BY <1>2
<1>8. IsTable(D \cup {b})'
  BY <1>1, <1>3, <1>4, <1>6, <1>7, TableStep
<1>9. Counted' = D \cup {b} /\ Redecided' = {} /\ todo' \subseteq redecide
      /\ phase' \in {"count", "decide"}
  BY <1>1, <1>2, <1>3 DEF Advance, Counted, Redecided
<1>10. IsTable(Counted)'
  BY <1>8, <1>9 DEF IsTable, CountsAt
<1>11. /\ \A c \in Blocks : decision'[c] = ScaFromFile(input')[c]
       /\ DOMAIN decision' = Blocks /\ left' = {}
  BY <1>1, <1>5 DEF DecisionInv
<1>12. DecisionInv'
  BY <1>1, <1>9, <1>10, <1>11 DEF DecisionInv
<1> QED
  BY <1>4, <1>12

\* The loop that decides puts a block where the counts of its root say.
LEMMA DecisionDecide ==
  ASSUME ClusterInv, DecisionInv, DecideBlock
  PROVE  DecisionInv' /\ SameRoots(parent, parent')
<1>1. /\ phase = "decide"
      /\ UNCHANGED <<input, vec, left, redecide, dsCount>>
  BY DEF DecideBlock
<1>2. PICK b \in todo :
        /\ decision' = [decision EXCEPT ![b] = SiteOfCluster(dsCount[Root(parent, b)], b)]
        /\ parent' = Found(Found(parent, b), b)
        /\ Advance(b, "done")
  BY DEF DecideBlock
<1>3. b \in Blocks /\ ForestOK(parent) /\ redecide \subseteq Blocks
      /\ todo \subseteq redecide
  BY DEF ClusterInv, DecisionInv
<1>4. SameRoots(parent, parent')
  <2> DEFINE once == Found(parent, b)
  <2>1. ForestOK(once) /\ SameRoots(parent, once)
    BY <1>3, FoundKeeps
  <2> HIDE DEF once
  <2>2. SameRoots(once, Found(once, b))
    BY <1>3, <2>1, FoundKeeps
  <2>3. parent' = Found(once, b)
    BY <1>2 DEF once
  <2> QED
    BY <2>1, <2>2, <2>3 DEF SameRoots
<1>5. Counted = redecide /\ Redecided = redecide \ todo
  BY <1>1 DEF Counted, Redecided
<1>6. /\ Counted' = redecide /\ Redecided' = Redecided \cup {b} /\ todo' \subseteq redecide
      /\ phase' \in {"decide", "done"}
  BY <1>1, <1>2, <1>3 DEF Advance, Counted, Redecided
<1>7. IsTable(Counted)'
  <2> PICK D : D = redecide
    OBVIOUS
  <2>1. IsTable(D)
    BY <1>5 DEF DecisionInv
  <2>2. IsTable(D)'
    BY <1>1, <1>4, <2>1, TableKept
  <2> QED
    BY <1>6, <2>2 DEF IsTable, CountsAt
<1>8. DOMAIN decision = Blocks /\ left = {}
  BY <1>1 DEF DecisionInv
<1>9. ASSUME NEW c \in Redecided'
      PROVE  decision'[c] = SiteOfCluster(dsCount[Root(parent, c)], c)
  <2>1. CASE c = b
    BY <1>2, <1>3, <1>8, <2>1
  <2>2. CASE c # b
    BY <1>2, <1>6, <2>2 DEF DecisionInv
  <2> QED
    BY <2>1, <2>2
<1>10. ASSUME NEW c \in Blocks \ Redecided'
       PROVE  decision'[c] = ScaFromFile(input')[c]
  BY <1>1, <1>2, <1>6 DEF DecisionInv
<1>11. \A c \in Redecided' : decision'[c] = SiteOfCluster(dsCount[Root(parent, c)], c)'
  BY <1>1, <1>4, <1>9 DEF SameRoots, SiteOfCluster
<1>12. DOMAIN decision' = Blocks /\ left' = {}
  BY <1>1, <1>2, <1>8
<1>13. DecisionInv'
  BY <1>1, <1>6, <1>7, <1>10, <1>11, <1>12 DEF DecisionInv
<1> QED
  BY <1>4, <1>13

\* The invariant of the roots, the counts and the decision.
CountInv == ClusterInv /\ RootsFollowPairs /\ DecisionInv

\* Every step keeps it.
LEMMA CountStep == CountInv /\ [Next]_vars => CountInv'
<1> SUFFICES ASSUME CountInv, [Next]_vars PROVE CountInv'
  OBVIOUS
<1>1. ClusterInv /\ RootsFollowPairs /\ DecisionInv
  BY DEF CountInv
<1>2. ClusterInv'
  BY <1>1, ClusterStep
<1>3. CASE UnionPair
  BY <1>1, <1>2, <1>3, RootsUnion, DecisionUnion DEF CountInv
<1>4. CASE CountBlock
  <2>1. UNCHANGED <<vec, left, redecide>>
    BY <1>4 DEF CountBlock
  <2> QED
    BY <1>1, <1>2, <1>4, <2>1, DecisionCount, RootsKept DEF CountInv
<1>5. CASE DecideBlock
  <2>1. UNCHANGED <<vec, left, redecide>>
    BY <1>5 DEF DecideBlock
  <2> QED
    BY <1>1, <1>2, <1>5, <2>1, DecisionDecide, RootsKept DEF CountInv
<1>6. CASE UNCHANGED vars
  <2>1. /\ UNCHANGED <<input, decision, vec, left, parent>>
        /\ UNCHANGED <<redecide, dsCount, todo, phase>>
    BY <1>6 DEF vars
  <2>2. SameRoots(parent, parent')
    BY <2>1 DEF SameRoots
  <2>3. RootsFollowPairs'
    BY <1>1, <2>1, <2>2, RootsKept
  <2>4. Counted' = Counted /\ Redecided' = Redecided
    BY <2>1 DEF Counted, Redecided
  <2>5. PICK D : D = Counted
    OBVIOUS
  <2>6. IsTable(D)'
    BY <1>1, <2>1, <2>2, <2>5, TableKept DEF DecisionInv
  <2>7. IsTable(Counted)'
    BY <2>4, <2>5, <2>6 DEF IsTable, CountsAt
  <2>8. /\ \A b \in Redecided' : decision'[b] = SiteOfCluster(dsCount[Root(parent, b)], b)'
        /\ \A b \in Blocks \ Redecided' : decision'[b] = ScaFromFile(input')[b]
    BY <1>1, <2>1, <2>4 DEF DecisionInv, SiteOfCluster
  <2>9. DecisionInv'
    BY <1>1, <2>1, <2>7, <2>8 DEF DecisionInv
  <2> QED
    BY <1>2, <2>3, <2>9 DEF CountInv
<1> QED
  BY <1>3, <1>4, <1>5, <1>6 DEF Next

\* Roots follow heavy pairs, the table has the blocks counted so far, and what is
\* redecided follows the table, at any time.
THEOREM CountInvariant == Spec => []CountInv
<1>1. Init => CountInv
  BY ClusterInit, RootsInit, DecisionInit DEF CountInv
<1> QED
  BY <1>1, CountStep, PTL DEF Spec

\* When clusters are decided the counts are those of all the blocks that heavy
\* pairs connect, for any number of blocks and any inputs (CostSolver.cpp:1500-1508).
THEOREM CountsTheorem == Spec => []CountsCoverClusters
<1>1. CountInv => CountsCoverClusters
  <2> SUFFICES ASSUME CountInv, phase = "decide", NEW b \in redecide
               PROVE  LET cluster == {a \in Blocks : Connected(a, b)}
                      IN dsCount[Root(parent, b)]
                           = [pim |-> Cardinality({a \in cluster : input.file[a] = "PIM"}),
                              other |-> Cardinality({a \in cluster : input.file[a] # "PIM"})]
    BY DEF CountsCoverClusters
  <2> DEFINE cluster == {a \in Blocks : Connected(a, b)}
             r == Root(parent, b)
  <2>1. ClusterInv /\ RootsFollowPairs /\ left = {} /\ IsTable(redecide) /\ b \in Blocks
        /\ redecide \subseteq Blocks
    BY DEF CountInv, ClusterInv, DecisionInv, Counted
  <2>2. cluster = {a \in Blocks : SameRoot(a, b)}
    BY <2>1, RootsAreClusters
  <2>3. cluster = {a \in redecide : Root(parent, a) = r}
    BY <2>1, <2>2 DEF RootsFollowPairs, SameRoot
  <2>4. dsCount[r] = CountsAt(redecide, r)
    BY <2>1 DEF IsTable
  <2> HIDE DEF cluster
  <2>5. /\ {a \in redecide : Root(parent, a) = r /\ IsPim(a)}
             = {a \in cluster : input.file[a] = "PIM"}
        /\ {a \in redecide : Root(parent, a) = r /\ ~IsPim(a)}
             = {a \in cluster : input.file[a] # "PIM"}
    BY <2>3 DEF IsPim
  <2>6. dsCount[r] = [pim |-> Cardinality({a \in cluster : input.file[a] = "PIM"}),
                      other |-> Cardinality({a \in cluster : input.file[a] # "PIM"})]
    BY <2>4, <2>5 DEF CountsAt
  <2> QED
    BY <2>6 DEF cluster
<1> QED
  BY <1>1, CountInvariant, PTL

\* In the end blocks that heavy pairs connect are on one site, and all others are
\* where the file put them (CostSolver.cpp:1527-1536).
THEOREM TogetherTheorem == Spec => []HeavyPairsStayTogether
<1>1. CountInv => HeavyPairsStayTogether
  <2> SUFFICES ASSUME CountInv, phase = "done" PROVE HeavyPairsStayTogether
    BY DEF HeavyPairsStayTogether
  <2>1. /\ ClusterInv /\ RootsFollowPairs /\ left = {}
        /\ \A b \in redecide : decision[b] = SiteOfCluster(dsCount[Root(parent, b)], b)
        /\ \A b \in Blocks \ redecide : decision[b] = ScaFromFile(input)[b]
    BY DEF CountInv, DecisionInv, Redecided
  <2>2. ASSUME NEW a \in Blocks, NEW b \in Blocks, Connected(a, b)
        PROVE  decision[a] = decision[b]
    <3>1. SameRoot(a, b)
      BY <2>1, <2>2, RootsAreClusters
    <3>2. a = b \/ {a, b} \subseteq redecide
      BY <2>1, <3>1 DEF RootsFollowPairs
    <3> QED
      BY <2>1, <3>1, <3>2 DEF SameRoot, SiteOfCluster
  <2> QED
    BY <2>1, <2>2 DEF HeavyPairsStayTogether
<1> QED
  BY <1>1, CountInvariant, PTL
=============================================================================
