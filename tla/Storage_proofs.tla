--------------------------- MODULE Storage_proofs ---------------------------
(***************************************************************************)
(* Proofs about the cache model, for any hierarchy, blocks and references: *)
(* the instruction fetches that are not looked up again would all hit,     *)
(* each level is looked up as often as those above it missed, each set of  *)
(* a cache keeps the lines used last, and the segments that the trie has   *)
(* are those that the lines' chains of hits were cut into.                 *)
(***************************************************************************)
EXTENDS Storage, FiniteSums, SequenceTheorems, FiniteSetTheorems, FunctionTheorems,
        WellFoundedInduction, TLAPS

-----------------------------------------------------------------------------
(* A set of a cache. *)

\* A nonempty set of numbers has a least one.
LEMMA LeastElement ==
  ASSUME NEW I \in SUBSET Nat, I # {}
  PROVE  Min(I) \in I /\ \A j \in I : Min(I) <= j
<1> DEFINE R == OpToRel(<, Nat)
<1>1. \E x \in I : \A y \in I : ~(<<y, x>> \in R)
  BY NatLessThanWellFounded, WFMin
<1>2. \A x, y \in Nat : <<y, x>> \in R <=> y < x
  BY DEF OpToRel
<1> HIDE DEF R
<1>3. \E x \in I : \A y \in I : x <= y
  <2>1. PICK x \in I : \A y \in I : ~(<<y, x>> \in R)
    BY <1>1
  <2>2. \A y \in I : ~(y < x)
    BY <1>2, <2>1
  <2> QED
    BY <2>2
<1> QED
  BY <1>3 DEF Min

\* r is s without its first e, which is at place k.
WithoutFirst(s, e, r, k) ==
  /\ s[k] = e /\ \A j \in 1 .. k - 1 : s[j] # e
  /\ r \in Seq(Nat) /\ Len(r) = Len(s) - 1
  /\ \A j \in 1 .. k - 1 : r[j] = s[j]
  /\ \A j \in k .. Len(s) - 1 : r[j] = s[j + 1]

\* Taking a line out of a list moves those after it up.
LEMMA RemoveFirstAt ==
  ASSUME NEW s \in Seq(Nat), NEW e, e \in Range(s), NEW r, r = RemoveFirst(s, e)
  PROVE  \E k \in 1 .. Len(s) : WithoutFirst(s, e, r, k)
<1> DEFINE I == {i \in 1 .. Len(s) : s[i] = e}
<1>1. I # {} /\ I \subseteq Nat
  BY DEF Range
<1>2. PICK k : k = Min(I)
  OBVIOUS
<1>3. k \in 1 .. Len(s) /\ s[k] = e /\ \A j \in I : k <= j
  <2>1. k \in I /\ \A y \in I : k <= y
    <3> HIDE DEF I
    <3> QED
      BY <1>1, <1>2, LeastElement
  <2> QED
    BY <2>1
<1>4. \A j \in 1 .. k - 1 : s[j] # e
  BY <1>3
<1>5. RemoveFirst(s, e) = SubSeq(s, 1, k - 1) \o SubSeq(s, k + 1, Len(s))
  <2>1. SelectInSeq(s, LAMBDA v : v = e) = k
    BY <1>1, <1>2 DEF SelectInSeq
  <2> QED
    BY <1>1, <2>1 DEF RemoveFirst, RemoveAt
<1>6. PICK n \in Nat : n = Len(s)
  OBVIOUS
<1>7. PICK a : a = SubSeq(s, 1, k - 1)
  OBVIOUS
<1>8. PICK b : b = SubSeq(s, k + 1, n)
  OBVIOUS
<1>9. a \in Seq(Nat) /\ Len(a) = k - 1 /\ \A j \in 1 .. k - 1 : a[j] = s[j]
  BY <1>3, <1>7
<1>10. b \in Seq(Nat) /\ Len(b) = n - k /\ \A j \in 1 .. n - k : b[j] = s[k + j]
  BY <1>3, <1>6, <1>8
<1>12. r = a \o b
  BY <1>5, <1>6, <1>7, <1>8
<1>13. /\ r \in Seq(Nat) /\ Len(r) = n - 1
       /\ \A j \in 1 .. k - 1 : r[j] = a[j]
       /\ \A j \in 1 .. n - k : r[(k - 1) + j] = b[j]
  <2>1. a \in Seq(Nat) /\ b \in Seq(Nat)
    BY <1>9, <1>10
  <2>2. /\ r \in Seq(Nat) /\ Len(r) = Len(a) + Len(b)
        /\ \A j \in 1 .. Len(a) : r[j] = a[j]
        /\ \A j \in 1 .. Len(b) : r[Len(a) + j] = b[j]
    BY <1>12, <2>1
  <2>3. Len(a) = k - 1 /\ Len(b) = n - k /\ k \in Nat
    BY <1>3, <1>9, <1>10
  <2>4. (k - 1) + (n - k) = n - 1
    BY <2>3
  <2> QED
    BY <2>2, <2>3, <2>4
<1>14. \A j \in k .. n - 1 : r[j] = s[j + 1]
  <2> SUFFICES ASSUME NEW j \in k .. n - 1 PROVE r[j] = s[j + 1]
    OBVIOUS
  <2>1. j - k + 1 \in 1 .. n - k /\ (k - 1) + (j - k + 1) = j /\ k + (j - k + 1) = j + 1
    BY <1>3
  <2>2. r[(k - 1) + (j - k + 1)] = b[j - k + 1] /\ b[j - k + 1] = s[k + (j - k + 1)]
    BY <1>10, <1>13, <2>1
  <2> QED
    BY <2>1, <2>2
<1>15. \A j \in 1 .. k - 1 : r[j] = s[j]
  BY <1>9, <1>13
<1>16. WithoutFirst(s, e, r, k)
  BY <1>3, <1>4, <1>6, <1>13, <1>14, <1>15 DEF WithoutFirst
<1> QED
  BY <1>3, <1>16

\* Taking a line out of a list leaves a list that is one shorter.
LEMMA RemoveFirstFacts ==
  ASSUME NEW s \in Seq(Nat), NEW e \in Range(s)
  PROVE  RemoveFirst(s, e) \in Seq(Nat) /\ Len(RemoveFirst(s, e)) = Len(s) - 1
<1>1. PICK r : r = RemoveFirst(s, e)
  OBVIOUS
<1>2. PICK k \in 1 .. Len(s) : WithoutFirst(s, e, r, k)
  BY <1>1, RemoveFirstAt
<1> QED
  BY <1>1, <1>2 DEF WithoutFirst

SetOK(c, set) ==
  /\ set \in [tags : Seq(Nat), next : 1 .. c.ways]
  /\ Len(set.tags) = c.ways

\* A line that a cache finds is still there afterwards.
LEMMA FoundFacts ==
  ASSUME NEW c \in CacheLevel, NEW set, SetOK(c, set), NEW line \in Nat, line \in Range(set.tags)
  PROVE  SetOK(c, Found(c, set, line)) /\ line \in Range(Found(c, set, line).tags)
<1>0. c.ways \in Nat \ {0}
  BY DEF CacheLevel
<1>1. CASE c.policy = "lru"
  <2> DEFINE rest == RemoveFirst(set.tags, line)
  <2>1. rest \in Seq(Nat) /\ Len(rest) = c.ways - 1
    BY RemoveFirstFacts DEF SetOK
  <2>2. Found(c, set, line) = [set EXCEPT !.tags = <<line>> \o rest]
    BY <1>1 DEF Found
  <2> HIDE DEF rest
  <2>3. /\ <<line>> \o rest \in Seq(Nat) /\ Len(<<line>> \o rest) = c.ways
        /\ (<<line>> \o rest)[1] = line /\ 1 \in DOMAIN (<<line>> \o rest)
    BY <1>0, <2>1
  <2> QED
    BY <1>1, <2>2, <2>3 DEF SetOK, Range
<1>2. CASE c.policy # "lru"
  BY <1>2 DEF Found
<1> QED
  BY <1>1, <1>2

\* A line that is brought in is there.
LEMMA ReplacedFacts ==
  ASSUME NEW c \in CacheLevel, NEW set, SetOK(c, set), NEW line \in Nat
  PROVE  SetOK(c, Replaced(c, set, line)) /\ line \in Range(Replaced(c, set, line).tags)
<1>0. c.ways \in Nat \ {0}
  BY DEF CacheLevel
<1>1. CASE c.policy = "lru"
  <2> DEFINE rest == SubSeq(set.tags, 1, c.ways - 1)
  <2>1. rest \in Seq(Nat) /\ Len(rest) = c.ways - 1
    BY <1>0 DEF SetOK
  <2>2. Replaced(c, set, line) = [set EXCEPT !.tags = <<line>> \o rest]
    BY <1>1 DEF Replaced
  <2> HIDE DEF rest
  <2>3. /\ <<line>> \o rest \in Seq(Nat) /\ Len(<<line>> \o rest) = c.ways
        /\ (<<line>> \o rest)[1] = line /\ 1 \in DOMAIN (<<line>> \o rest)
    BY <1>0, <2>1
  <2> QED
    BY <2>2, <2>3 DEF SetOK, Range
<1>2. CASE c.policy # "lru"
  <2>1. Replaced(c, set, line) = [tags |-> [set.tags EXCEPT ![set.next] = line],
                                  next |-> IF set.next = 1 THEN c.ways ELSE set.next - 1]
    BY <1>2 DEF Replaced
  <2>2. set.tags \in Seq(Nat) /\ Len(set.tags) = c.ways /\ set.next \in 1 .. c.ways
    BY <1>2 DEF SetOK
  <2> DEFINE tags == [set.tags EXCEPT ![set.next] = line]
  <2>3. tags \in Seq(Nat) /\ Len(tags) = c.ways /\ tags[set.next] = line /\ set.next \in DOMAIN tags
    BY <2>2
  <2>4. (IF set.next = 1 THEN c.ways ELSE set.next - 1) \in 1 .. c.ways
    BY <1>0, <2>2
  <2> HIDE DEF tags
  <2> QED
    BY <1>2, <2>1, <2>3, <2>4 DEF SetOK, Range, tags
<1> QED
  BY <1>1, <1>2

-----------------------------------------------------------------------------
(* The first-level instruction caches in a record m of what is changed. *)

HasFirst(s) == "IL1" \in CachesOf(s)
FirstLevel(s) == hierarchy[s]["IL1"]

HierarchyOK == \A s \in Sites : Site(hierarchy[s])

SetsOK(m) ==
  /\ {"cache", "last_icacheline"} \subseteq DOMAIN m
  /\ DOMAIN m.cache = Sites /\ m.last_icacheline \in [Sites -> Nat]
  /\ \A s \in Sites : HasFirst(s) =>
       /\ DOMAIN m.cache[s]["IL1"] = 0 .. FirstLevel(s).sets - 1
       /\ \A i \in 0 .. FirstLevel(s).sets - 1 : SetOK(FirstLevel(s), m.cache[s]["IL1"][i])

Resident(m, s, line) ==
  HasFirst(s) => line \in Range(m.cache[s]["IL1"][line % FirstLevel(s).sets].tags)

FetchedStay(m) == \A s \in Sites : Resident(m, s, m.last_icacheline[s])

\* What is the same in n as in m, for an access that is no fetch.
SameFirst(m, n) ==
  /\ n.last_icacheline = m.last_icacheline
  /\ \A s \in Sites : HasFirst(s) => n.cache[s]["IL1"] = m.cache[s]["IL1"]

\* A line has a set in every cache.
LEMMA LineFacts ==
  ASSUME NEW line \in Nat, NEW n \in Nat \ {0}
  PROVE  line % n \in 0 .. n - 1
OBVIOUS

\* What the levels of a site have in common, in every shape ReadConfig accepts.
LEMMA LevelFacts ==
  ASSUME HierarchyOK, NEW s \in Sites
  PROVE  /\ DOMAIN hierarchy[s] \subseteq Levels
         /\ HasFirst(s) => /\ FirstLevel(s) \in CacheLevel
                           /\ FirstLevel(s).sets \in Nat \ {0}
                           /\ {"IL1", "DL1", "MEM"} \subseteq DOMAIN hierarchy[s]
         /\ \A l \in Levels : Depth[l] \in Nat \ {0}
         /\ Depth["IL1"] = 1 /\ Depth["DL1"] = 1
<1>1. DOMAIN hierarchy[s] \in Shapes
  BY DEF HierarchyOK, Site
<1>2. DOMAIN hierarchy[s] \subseteq Levels /\ (HasFirst(s) => {"IL1", "DL1", "MEM"} \subseteq DOMAIN hierarchy[s])
  BY <1>1 DEF Shapes, Levels, Caches, HasFirst, CachesOf
<1>3. HasFirst(s) => FirstLevel(s) \in CacheLevel
  BY DEF HierarchyOK, Site, HasFirst, FirstLevel, CachesOf
<1>4. FirstLevel(s) \in CacheLevel => FirstLevel(s).sets \in Nat \ {0}
  BY DEF CacheLevel
<1>5. Depth["IL1"] = 1 /\ Depth["DL1"] = 1 /\ \A l \in Levels : Depth[l] \in Nat \ {0}
  BY DEF Depth, Levels, Caches
<1> QED
  BY <1>2, <1>3, <1>4, <1>5

\* A fetch looks its line up in the instruction cache, which has it afterwards.
LEMMA FetchAccess ==
  ASSUME HierarchyOK, NEW m, SetsOK(m), NEW s \in Sites, HasFirst(s), NEW line \in Nat,
         NEW ref, Type(ref) = "load"
  PROVE  LET n == AccessSingleLine(m, s, "IL1", line, ref)
         IN /\ SetsOK(n) /\ Resident(n, s, line)
            /\ n.last_icacheline = m.last_icacheline
            /\ \A u \in Sites \ {s} : n.cache[u] = m.cache[u]
<1> DEFINE n == AccessSingleLine(m, s, "IL1", line, ref)
           reached == Reached(m, s, "IL1", line, "load")
           c == FirstLevel(s)
           i == line % c.sets
           old == m.cache[s]["IL1"][i]
           in == LineIn(c, old, Holds(m, s, "IL1", line), line, "load")
<1>1. c \in CacheLevel /\ i \in 0 .. c.sets - 1 /\ SetOK(c, old)
  BY LevelFacts, LineFacts DEF SetsOK
<1>2. "IL1" \in reached
  <2>1. "IL1" \in Way(s, "IL1")
    BY DEF Way, HasFirst, CachesOf
  <2>2. \A k \in Way(s, "IL1") : k \in Levels /\ ~(Depth[k] < Depth["IL1"])
    <3>1. Way(s, "IL1") \subseteq Levels
      BY LevelFacts DEF Way
    <3>2. \A l \in Levels : Depth[l] \in Nat \ {0}
      BY LevelFacts
    <3>3. Depth["IL1"] = 1
      BY LevelFacts
    <3>4. \A l \in Levels : ~(Depth[l] < 1)
      BY <3>2
    <3> QED
      BY <3>1, <3>3, <3>4
  <2> QED
    BY <2>1, <2>2 DEF Reached
<1>3. n.cache = CacheAfter(m, s, reached, line, "load") /\ n.last_icacheline = m.last_icacheline
      /\ {"cache", "last_icacheline"} \subseteq DOMAIN n
  BY DEF AccessSingleLine
<1>4. n.cache = [m.cache EXCEPT ![s] =
                   [l \in CachesOf(s) |->
                      IF l \in reached
                      THEN [m.cache[s][l] EXCEPT ![line % hierarchy[s][l].sets] =
                              LineIn(hierarchy[s][l], @, Holds(m, s, l, line), line, "load")]
                      ELSE m.cache[s][l]]]
  BY <1>3 DEF CacheAfter
<1> HIDE DEF n, reached
<1>5. DOMAIN n.cache = Sites /\ \A u \in Sites \ {s} : n.cache[u] = m.cache[u]
  BY <1>4 DEF SetsOK
<1>6. n.cache[s]["IL1"] = [m.cache[s]["IL1"] EXCEPT ![i] = in]
  BY <1>2, <1>4 DEF SetsOK, HasFirst, FirstLevel
<1>7. SetOK(c, in) /\ line \in Range(in.tags)
  <2>1. CASE Holds(m, s, "IL1", line)
    <3>1. line \in Range(old.tags)
      BY <2>1 DEF Holds, SetOf, FirstLevel
    <3> QED
      BY <1>1, <2>1, <3>1, FoundFacts DEF LineIn
  <2>2. CASE ~Holds(m, s, "IL1", line)
    BY <1>1, <2>2, ReplacedFacts DEF LineIn
  <2> QED
    BY <2>1, <2>2
<1> HIDE DEF in, c, i
<1>8. /\ DOMAIN n.cache[s]["IL1"] = 0 .. c.sets - 1
      /\ \A j \in 0 .. c.sets - 1 : SetOK(c, n.cache[s]["IL1"][j])
      /\ n.cache[s]["IL1"][i] = in
  BY <1>1, <1>6, <1>7 DEF SetsOK, c
<1>9. SetsOK(n)
  BY <1>3, <1>5, <1>8 DEF SetsOK, c
<1>10. Resident(n, s, line)
  <2>1. n.cache[s]["IL1"][line % FirstLevel(s).sets] = in
    BY <1>8 DEF c, i
  <2> QED
    BY <1>7, <2>1 DEF Resident
<1> QED
  BY <1>3, <1>5, <1>9, <1>10 DEF n

\* An access by another way down does not come by the instruction cache.
LEMMA OtherAccess ==
  ASSUME HierarchyOK, NEW m, SetsOK(m), NEW s \in Sites, NEW top \in {"DL1", "MEM"},
         NEW line, NEW ref
  PROVE  LET n == AccessSingleLine(m, s, top, line, ref)
         IN SetsOK(n) /\ SameFirst(m, n)
<1> DEFINE n == AccessSingleLine(m, s, top, line, ref)
           reached == Reached(m, s, top, line, Type(ref))
<1>1. "IL1" \notin reached
  <2>1. Depth["IL1"] = 1 /\ Depth[top] \in Nat \ {0}
    BY LevelFacts DEF Levels, Caches
  <2>2. ~(Depth["IL1"] > Depth[top]) /\ top # "IL1"
    BY <2>1
  <2> QED
    BY <2>2 DEF Reached, Way
<1>2. n.cache = CacheAfter(m, s, reached, line, Type(ref)) /\ n.last_icacheline = m.last_icacheline
      /\ {"cache", "last_icacheline"} \subseteq DOMAIN n
  BY DEF AccessSingleLine
<1> HIDE DEF n, reached
<1>3. DOMAIN n.cache = Sites /\ \A u \in Sites \ {s} : n.cache[u] = m.cache[u]
  BY <1>2 DEF SetsOK, CacheAfter
<1>4. HasFirst(s) => n.cache[s]["IL1"] = m.cache[s]["IL1"]
  BY <1>1, <1>2 DEF SetsOK, CacheAfter, HasFirst
<1>5. SameFirst(m, n)
  BY <1>2, <1>3, <1>4 DEF SameFirst
<1>6. SetsOK(n)
  BY <1>2, <1>3, <1>5 DEF SetsOK, SameFirst
<1> QED
  BY <1>5, <1>6 DEF n

\* What no access to an instruction cache changes stays resident.
LEMMA StaysIfSame ==
  ASSUME NEW m, NEW n, FetchedStay(m), SameFirst(m, n)
  PROVE  FetchedStay(n)
BY DEF FetchedStay, SameFirst, Resident

-----------------------------------------------------------------------------
(* What a reference does at one site. *)

\* The lines of a reference are numbers.
LEMMA ReferenceLines ==
  ASSUME NEW ref \in References
  PROVE  LineOf(ref.addr) \in Nat /\ NextLine(ref.addr) \in Nat
<1>1. ref.addr \in Nat /\ LineSize \in Nat \ {0}
  BY ReferenceAssumption DEF Reference
<1>2. LineOf(ref.addr) \in Nat
  BY <1>1 DEF LineOf
<1> QED
  BY <1>2 DEF NextLine

\* InstrCacheRef skips the look-up of a line only when it is the last one.
LEMMA FetchFacts ==
  ASSUME HierarchyOK, NEW m, SetsOK(m), FetchedStay(m), NEW s \in Sites, HasFirst(s),
         NEW ref \in References, ref.kind = "fetch"
  PROVE  SetsOK(Fetch(m, s, ref)) /\ FetchedStay(Fetch(m, s, ref))
<1> DEFINE line == LineOf(ref.addr)
           next == NextLine(ref.addr)
           first == AccessIf(line # m.last_icacheline[s], m, s, "IL1", line, ref)
           second == AccessIf(Crosses(ref), first, s, "IL1", next, ref)
           n == [second EXCEPT !.last_icacheline[s] = LastLine(ref)]
           Others(o) == /\ o.last_icacheline = m.last_icacheline
                        /\ \A u \in Sites \ {s} : o.cache[u] = m.cache[u]
<1>1. line \in Nat /\ next \in Nat /\ Type(ref) = "load"
  BY ReferenceLines DEF Type
<1>2. Fetch(m, s, ref) = n
  BY DEF Fetch
<1>3. SetsOK(first) /\ Resident(first, s, line) /\ Others(first)
  <2>1. CASE line # m.last_icacheline[s]
    <3>1. first = AccessSingleLine(m, s, "IL1", line, ref)
      BY <2>1 DEF AccessIf
    <3> HIDE DEF first, line, next
    <3> QED
      BY <1>1, <3>1, FetchAccess
  <2>2. CASE line = m.last_icacheline[s]
    <3>1. first = m
      BY <2>2 DEF AccessIf
    <3> HIDE DEF first, line
    <3> QED
      BY <2>2, <3>1 DEF FetchedStay
  <2> QED
    BY <2>1, <2>2
<1> HIDE DEF first
<1>4. SetsOK(second) /\ Resident(second, s, LastLine(ref)) /\ Others(second)
  <2>1. CASE Crosses(ref)
    <3>1. second = AccessSingleLine(first, s, "IL1", next, ref) /\ LastLine(ref) = next
      BY <2>1 DEF AccessIf, LastLine
    <3> HIDE DEF second, next
    <3> QED
      BY <1>1, <1>3, <3>1, FetchAccess
  <2>2. CASE ~Crosses(ref)
    <3>1. second = first /\ LastLine(ref) = line
      BY <2>2 DEF AccessIf, LastLine
    <3> QED
      BY <1>3, <3>1
  <2> QED
    BY <2>1, <2>2
<1>5. LastLine(ref) \in Nat
  BY <1>1 DEF LastLine
<1> HIDE DEF second, line, next
<1>6. /\ n.cache = second.cache
      /\ n.last_icacheline = [m.last_icacheline EXCEPT ![s] = LastLine(ref)]
      /\ DOMAIN n = DOMAIN second
  BY <1>4 DEF SetsOK
<1> HIDE DEF n
<1>7. SetsOK(n)
  BY <1>4, <1>5, <1>6 DEF SetsOK
<1>8. ASSUME NEW u \in Sites
      PROVE  Resident(n, u, n.last_icacheline[u])
  <2>1. CASE u = s
    <3>1. n.last_icacheline[u] = LastLine(ref)
      BY <1>4, <1>6, <2>1 DEF SetsOK
    <3> QED
      BY <1>4, <1>6, <2>1, <3>1 DEF Resident
  <2>2. CASE u # s
    <3>1. n.last_icacheline[u] = m.last_icacheline[u] /\ n.cache[u] = m.cache[u]
      BY <1>4, <1>6, <2>2 DEF SetsOK
    <3> QED
      BY <3>1 DEF FetchedStay, Resident
  <2> QED
    BY <2>1, <2>2
<1> QED
  BY <1>2, <1>7, <1>8 DEF FetchedStay

\* A site without an instruction cache has nothing that could be lost.
LEMMA OutcomeFacts ==
  ASSUME HierarchyOK, NEW m, SetsOK(m), FetchedStay(m), NEW s \in Sites,
         NEW ref \in References, ref.kind = "fetch", NEW n \in FetchOutcomes(m, s, ref)
  PROVE  SetsOK(n) /\ FetchedStay(n)
<1>1. CASE HasFirst(s)
  <2>1. n = Fetch(m, s, ref)
    BY <1>1 DEF FetchOutcomes, HasFirst, CachesOf
  <2> QED
    BY <1>1, <2>1, FetchFacts
<1>2. CASE ~HasFirst(s)
  <2> DEFINE once == AccessSingleLine(m, s, "MEM", LineOf(ref.addr), ref)
             twice == AccessSingleLine(once, s, "MEM", NextLine(ref.addr), ref)
  <2>1. n \in {m, once, twice}
    BY <1>2 DEF FetchOutcomes, HasFirst, CachesOf, Caches
  <2>2. SetsOK(once) /\ SameFirst(m, once)
    BY OtherAccess
  <2> HIDE DEF once
  <2>3. SetsOK(twice) /\ SameFirst(once, twice)
    BY <2>2, OtherAccess
  <2> HIDE DEF twice
  <2>4. FetchedStay(once)
    BY <2>2, StaysIfSame
  <2> QED
    BY <2>1, <2>2, <2>3, <2>4, StaysIfSame
<1> QED
  BY <1>1, <1>2

\* A load or store leaves the lines fetched last where they are.
LEMMA AccessFacts ==
  ASSUME HierarchyOK, NEW m, SetsOK(m), FetchedStay(m), NEW s \in Sites, NEW ref
  PROVE  SetsOK(Access(m, s, ref)) /\ FetchedStay(Access(m, s, ref))
<1> DEFINE top == Top(s, "DL1")
           first == AccessSingleLine(m, s, top, LineOf(ref.addr), ref)
           second == AccessSingleLine(first, s, top, NextLine(ref.addr), ref)
<1>1. top \in {"DL1", "MEM"}
  BY DEF Top
<1>2. Access(m, s, ref) \in {first, second}
  BY DEF Access, AccessIf
<1> HIDE DEF top
<1>3. SetsOK(first) /\ SameFirst(m, first)
  BY <1>1, OtherAccess
<1> HIDE DEF first
<1>4. SetsOK(second) /\ SameFirst(first, second)
  BY <1>1, <1>3, OtherAccess
<1> HIDE DEF second
<1>5. FetchedStay(first)
  BY <1>3, StaysIfSame
<1> QED
  BY <1>2, <1>3, <1>4, <1>5, StaysIfSame

-----------------------------------------------------------------------------
(* The invariant of the whole program. *)

FetchInv == HierarchyOK /\ SetsOK(State) /\ FetchedStay(State)

\* An empty cache has no line but 0, which is the line fetched last.
LEMMA FetchInit == Init => FetchInv
<1> SUFFICES ASSUME Init PROVE FetchInv
  OBVIOUS
<1>1. HierarchyOK
  BY HierarchyAssumption DEF Init, HierarchyOK
<1>2. /\ State.cache = cache /\ State.last_icacheline = last_icacheline
      /\ {"cache", "last_icacheline"} \subseteq DOMAIN State
  BY DEF State
<1>3. last_icacheline = [s \in Sites |-> 0] /\ DOMAIN cache = Sites
  BY DEF Init
<1>4. ASSUME NEW s \in Sites, HasFirst(s)
      PROVE  /\ FirstLevel(s).sets \in Nat \ {0} /\ FirstLevel(s).ways \in Nat \ {0}
             /\ cache[s]["IL1"] = [i \in 0 .. FirstLevel(s).sets - 1 |-> EmptySet(FirstLevel(s))]
  <2>1. FirstLevel(s) \in CacheLevel
    BY <1>1, <1>4, LevelFacts
  <2> QED
    BY <1>4, <2>1 DEF Init, HasFirst, FirstLevel, CacheLevel
<1>5. ASSUME NEW c, c.ways \in Nat \ {0}
      PROVE  SetOK(c, EmptySet(c)) /\ 0 \in Range(EmptySet(c).tags)
  <2> DEFINE tags == [w \in 1 .. c.ways |-> 0]
  <2>1. tags \in Seq(Nat) /\ Len(tags) = c.ways /\ tags[1] = 0 /\ 1 \in DOMAIN tags
    BY <1>5
  <2>2. EmptySet(c) = [tags |-> tags, next |-> c.ways]
    BY DEF EmptySet
  <2> HIDE DEF tags
  <2> QED
    BY <1>5, <2>1, <2>2 DEF SetOK, Range
<1>6. SetsOK(State)
  <2>1. ASSUME NEW s \in Sites, HasFirst(s)
        PROVE  /\ DOMAIN State.cache[s]["IL1"] = 0 .. FirstLevel(s).sets - 1
               /\ \A i \in 0 .. FirstLevel(s).sets - 1 :
                    State.cache[s]["IL1"][i] = EmptySet(FirstLevel(s))
    BY <1>2, <1>4, <2>1
  <2>2. ASSUME NEW s \in Sites, HasFirst(s)
        PROVE  SetOK(FirstLevel(s), EmptySet(FirstLevel(s)))
    BY <1>4, <1>5, <2>2
  <2>3. State.last_icacheline \in [Sites -> Nat] /\ DOMAIN State.cache = Sites
    BY <1>2, <1>3
  <2> QED
    BY <1>2, <2>1, <2>2, <2>3 DEF SetsOK
<1>7. ASSUME NEW s \in Sites, HasFirst(s)
      PROVE  0 \in Range(cache[s]["IL1"][0 % FirstLevel(s).sets].tags)
  <2>1. 0 % FirstLevel(s).sets \in 0 .. FirstLevel(s).sets - 1
    BY <1>4, <1>7, LineFacts
  <2> QED
    BY <1>4, <1>5, <1>7, <2>1
<1>8. FetchedStay(State)
  BY <1>2, <1>3, <1>7 DEF FetchedStay, Resident
<1> QED
  BY <1>1, <1>6, <1>8 DEF FetchInv

\* The invariant is about what a reference leaves, whatever else it changed.
LEMMA BecomeFacts ==
  ASSUME HierarchyOK, UNCHANGED hierarchy, NEW n, SetsOK(n), FetchedStay(n),
         cache' = n.cache, last_icacheline' = n.last_icacheline
  PROVE  FetchInv'
<1>1. /\ State'.cache = n.cache /\ State'.last_icacheline = n.last_icacheline
      /\ {"cache", "last_icacheline"} \subseteq DOMAIN State'
  BY DEF State
<1>2. \A s : CachesOf(s)' = CachesOf(s) /\ FirstLevel(s)' = FirstLevel(s)
             /\ (HasFirst(s)' <=> HasFirst(s))
  BY DEF CachesOf, FirstLevel, HasFirst
<1>3. SetsOK(State)'
  BY <1>1, <1>2 DEF SetsOK
<1>4. FetchedStay(State)'
  BY <1>1, <1>2 DEF FetchedStay, Resident
<1>5. HierarchyOK'
  BY DEF HierarchyOK
<1> QED
  BY <1>3, <1>4, <1>5 DEF FetchInv

\* Every reference keeps the lines fetched last.
LEMMA FetchStep == FetchInv /\ [Next]_vars => FetchInv'
<1> SUFFICES ASSUME FetchInv, [Next]_vars PROVE FetchInv'
  OBVIOUS
<1>1. HierarchyOK /\ SetsOK(State) /\ FetchedStay(State)
  BY DEF FetchInv
<1>2. "CPU" \in Sites /\ "PIM" \in Sites
  BY DEF Sites
<1>3. ASSUME NEW ref \in References, InstrCacheRef(ref) PROVE FetchInv'
  <2>1. PICK m \in FetchOutcomes(State, "CPU", ref) :
          \E n \in FetchOutcomes(m, "PIM", ref) : Become(n)
    BY <1>3 DEF InstrCacheRef
  <2>2. PICK n \in FetchOutcomes(m, "PIM", ref) : Become(n)
    BY <2>1
  <2>3. ref.kind = "fetch" /\ UNCHANGED hierarchy
    BY <1>3 DEF InstrCacheRef
  <2>4. SetsOK(m) /\ FetchedStay(m)
    BY <1>1, <1>2, <2>3, OutcomeFacts
  <2>5. SetsOK(n) /\ FetchedStay(n)
    BY <1>1, <1>2, <2>3, <2>4, OutcomeFacts
  <2> QED
    BY <1>1, <2>2, <2>3, <2>5, BecomeFacts DEF Become
<1>4. ASSUME NEW ref \in References, DataCacheRef(ref) PROVE FetchInv'
  <2>1. PICK m : m = Access(State, "CPU", ref)
    OBVIOUS
  <2>2. PICK n : n = Access(m, "PIM", ref)
    OBVIOUS
  <2>3. Become(n) /\ UNCHANGED hierarchy
    BY <1>4, <2>1, <2>2 DEF DataCacheRef
  <2>4. SetsOK(m) /\ FetchedStay(m)
    BY <1>1, <1>2, <2>1, AccessFacts
  <2>5. SetsOK(n) /\ FetchedStay(n)
    BY <1>1, <1>2, <2>2, <2>4, AccessFacts
  <2> QED
    BY <1>1, <2>3, <2>5, BecomeFacts DEF Become
<1>5. CASE UNCHANGED vars
  <2>1. UNCHANGED <<hierarchy, cache, last_icacheline>>
    BY <1>5 DEF vars
  <2>2. cache' = State.cache /\ last_icacheline' = State.last_icacheline
    BY <2>1 DEF State
  <2> QED
    BY <1>1, <2>1, <2>2, BecomeFacts
<1> QED
  BY <1>3, <1>4, <1>5 DEF Next

\* A fetch of the line fetched last would hit, so InstrCacheRef loses no miss by
\* not looking it up: at either site, whatever the policy, the number of sets and
\* ways, and the data accesses in between (Storage.cpp:588).
THEOREM LastFetchedLine == Spec => []LastFetchedLineIsResident
<1>1. FetchInv => LastFetchedLineIsResident
  BY DEF FetchInv, FetchedStay, Resident, LastFetchedLineIsResident, Holds, SetOf,
         HasFirst, FirstLevel, State
<1> QED
  BY <1>1, FetchInit, FetchStep, PTL DEF Spec

-----------------------------------------------------------------------------
(***************************************************************************)
(* The statistics: each level is looked up as often as the levels above it *)
(* missed and passed the access on.                                        *)
(***************************************************************************)

Types == {"load", "store"}

\* The statistics of a level, and those of the levels of a site.
Counts(x) == x \in [Types -> [BOOLEAN -> Nat]]
Hits(x, t) == x[t][TRUE]
Misses(x, t) == x[t][FALSE]

Looked(a, l, t) == Hits(a[l], t) + Misses(a[l], t)
Passed(s, a, l, t) == IF Allocates(s, l, t) THEN Misses(a[l], t) ELSE 0

FirstPassed(s, a, t) == Passed(s, a, "IL1", t) + Passed(s, a, "DL1", t)

\* The last cache is the one before memory.
LastPassed(s, a, t) ==
  IF "UL3" \in DOMAIN hierarchy[s] THEN Passed(s, a, "UL3", t)
  ELSE IF "UL2" \in DOMAIN hierarchy[s] THEN Passed(s, a, "UL2", t)
  ELSE FirstPassed(s, a, t)

Balanced(s, a) ==
  HasFirst(s) => \A t \in Types :
    /\ "UL2" \in DOMAIN hierarchy[s] => Looked(a, "UL2", t) = FirstPassed(s, a, t)
    /\ "UL3" \in DOMAIN hierarchy[s] => Looked(a, "UL3", t) = Passed(s, a, "UL2", t)
    /\ Looked(a, "MEM", t) = LastPassed(s, a, t)

SiteOK(s, a) ==
  /\ DOMAIN a = DOMAIN hierarchy[s] /\ \A l \in DOMAIN hierarchy[s] : Counts(a[l])
  /\ Balanced(s, a)

AccessOK(m) ==
  /\ "access" \in DOMAIN m /\ DOMAIN m.access = Sites
  /\ \A s \in Sites : SiteOK(s, m.access[s])

-----------------------------------------------------------------------------
(* The way down. *)

\* What the levels of a site have in common, in every shape ReadConfig accepts.
LEMMA ShapeFacts ==
  ASSUME HierarchyOK, NEW s \in Sites
  PROVE  /\ DOMAIN hierarchy[s] \subseteq Levels /\ "MEM" \in DOMAIN hierarchy[s]
         /\ HasFirst(s) => {"IL1", "DL1"} \subseteq DOMAIN hierarchy[s]
         /\ ~HasFirst(s) => DOMAIN hierarchy[s] = {"MEM"} /\ CachesOf(s) = {}
         /\ "UL3" \in DOMAIN hierarchy[s] => "UL2" \in DOMAIN hierarchy[s]
<1>1. DOMAIN hierarchy[s] \in Shapes
  BY DEF HierarchyOK, Site
<1> QED
  BY <1>1 DEF Shapes, Levels, Caches, HasFirst, CachesOf

\* The levels in order, the two of the first level side by side.
LEMMA DepthFacts ==
  /\ Depth["IL1"] = 1 /\ Depth["DL1"] = 1 /\ Depth["UL2"] = 2 /\ Depth["UL3"] = 3
  /\ Depth["MEM"] = 4
BY DEF Depth, Levels, Caches

\* What goes on from a level reaches the one below, and so on down.
GoesDown(m, s, reached, l, line, type) == l \in reached /\ MissGoesOn(m, s, l, line, type)

Descends(m, s, reached, top, line, type) ==
  /\ \A l \in {"IL1", "DL1"} : l \in reached <=> l = top
  /\ "UL2" \in DOMAIN hierarchy[s] =>
       ("UL2" \in reached <=> GoesDown(m, s, reached, top, line, type))
  /\ "UL3" \in DOMAIN hierarchy[s] =>
       ("UL3" \in reached <=> GoesDown(m, s, reached, "UL2", line, type))
  /\ "MEM" \in reached <=>
       IF "UL3" \in DOMAIN hierarchy[s] THEN GoesDown(m, s, reached, "UL3", line, type)
       ELSE IF "UL2" \in DOMAIN hierarchy[s] THEN GoesDown(m, s, reached, "UL2", line, type)
       ELSE GoesDown(m, s, reached, top, line, type)

\* An access reaches a level if the one before passed it on.
LEMMA WayDown ==
  ASSUME HierarchyOK, NEW m, NEW s \in Sites, HasFirst(s), NEW top \in {"IL1", "DL1"},
         NEW line, NEW type, NEW reached, reached = Reached(m, s, top, line, type)
  PROVE  Descends(m, s, reached, top, line, type)
<1> DEFINE D == DOMAIN hierarchy[s]
           Goes(l) == MissGoesOn(m, s, l, line, type)
<1>1. /\ D \subseteq Levels /\ {"IL1", "DL1", "MEM"} \subseteq D
      /\ "UL3" \in D => "UL2" \in D
  BY ShapeFacts
<1>2. Way(s, top) = {top} \cup (D \cap {"UL2", "UL3", "MEM"})
  BY <1>1, DepthFacts DEF Way, Levels, Caches
<1>3. \A l : l \in reached <=>
        /\ l \in {top} \cup (D \cap {"UL2", "UL3", "MEM"})
        /\ \A k \in {top} \cup (D \cap {"UL2", "UL3", "MEM"}) : Depth[k] < Depth[l] => Goes(k)
  BY <1>2 DEF Reached
<1> HIDE DEF Goes
<1>4. top \in reached
  BY <1>3, DepthFacts
<1>5. "UL2" \in D => ("UL2" \in reached <=> Goes(top))
  BY <1>3, DepthFacts
<1>6. "UL3" \in D => ("UL3" \in reached <=> Goes(top) /\ Goes("UL2"))
  BY <1>1, <1>3, DepthFacts
<1>7. "MEM" \in reached <=>
        Goes(top) /\ ("UL2" \in D => Goes("UL2")) /\ ("UL3" \in D => Goes("UL3"))
  BY <1>1, <1>3, DepthFacts
<1>8. \A l \in {"IL1", "DL1"} : l \in reached <=> l = top
  BY <1>3, <1>4
<1> QED
  BY <1>1, <1>4, <1>5, <1>6, <1>7, <1>8 DEF Goes, GoesDown, Descends

-----------------------------------------------------------------------------
(* One access. *)

One(condition) == IF condition THEN 1 ELSE 0

\* Hits and misses are numbers.
LEMMA CountsAreNumbers ==
  ASSUME NEW x, Counts(x), NEW t \in Types
  PROVE  Hits(x, t) \in Nat /\ Misses(x, t) \in Nat
<1>1. x[t] \in [BOOLEAN -> Nat]
  BY DEF Counts
<1>2. x[t][TRUE] \in Nat /\ x[t][FALSE] \in Nat
  BY <1>1
<1> QED
  BY <1>2 DEF Hits, Misses

Counted(x, type, held) == [x EXCEPT ![type][held] = @ + 1]

\* A level that is reached counts a hit or a miss of the type.
LEMMA Incremented ==
  ASSUME NEW x, Counts(x), NEW type \in Types, NEW held \in BOOLEAN,
         NEW y, y = Counted(x, type, held), NEW t \in Types
  PROVE  /\ Counts(y)
         /\ Hits(y, t) = IF t = type /\ held THEN Hits(x, t) + 1 ELSE Hits(x, t)
         /\ Misses(y, t) = IF t = type /\ ~held THEN Misses(x, t) + 1 ELSE Misses(x, t)
<1>1. PICK n : n = x[type][held] + 1
  OBVIOUS
<1>2. x \in [Types -> [BOOLEAN -> Nat]] /\ x[type] \in [BOOLEAN -> Nat]
  BY DEF Counts
<1>3. n \in Nat
  BY <1>1, <1>2
<1>4. PICK z : z = [x[type] EXCEPT ![held] = n]
  OBVIOUS
<1>5. y = [x EXCEPT ![type] = z]
  BY <1>1, <1>4 DEF Counted
<1>6. z \in [BOOLEAN -> Nat] /\ \A h \in BOOLEAN : z[h] = IF h = held THEN n ELSE x[type][h]
  BY <1>2, <1>3, <1>4
<1>7. /\ y \in [Types -> [BOOLEAN -> Nat]] /\ y[type] = z
      /\ y[t] = IF t = type THEN z ELSE x[t]
  BY <1>2, <1>5, <1>6
<1>8. /\ y[type][TRUE] = IF held THEN x[type][TRUE] + 1 ELSE x[type][TRUE]
      /\ y[type][FALSE] = IF ~held THEN x[type][FALSE] + 1 ELSE x[type][FALSE]
  <2>1. CASE held = TRUE
    BY <1>1, <1>6, <1>7, <2>1
  <2>2. CASE held = FALSE
    BY <1>1, <1>6, <1>7, <2>2
  <2> QED
    BY <2>1, <2>2
<1>9. t # type => y[t] = x[t]
  BY <1>7
<1> QED
  BY <1>7, <1>8, <1>9 DEF Counts, Hits, Misses

After(x, y, there, type, held) == y = IF there THEN Counted(x, type, held) ELSE x

\* What a level that may be reached adds to its look-ups and to what it passes on.
LEMMA CountFacts ==
  ASSUME NEW a, NEW l, Counts(a[l]),
         NEW type \in Types, NEW held \in BOOLEAN, NEW b, NEW there \in BOOLEAN,
         After(a[l], b[l], there, type, held),
         NEW t \in Types, NEW s
  PROVE  /\ Counts(b[l])
         /\ Looked(a, l, t) \in Nat /\ Passed(s, a, l, t) \in Nat
         /\ Looked(b, l, t) = Looked(a, l, t) + One(there /\ t = type)
         /\ Passed(s, b, l, t)
              = Passed(s, a, l, t) + One(there /\ t = type /\ ~held /\ Allocates(s, l, t))
<1>1. Hits(a[l], t) \in Nat /\ Misses(a[l], t) \in Nat
  BY CountsAreNumbers
<1>2. /\ Counts(b[l])
      /\ Hits(b[l], t) = Hits(a[l], t) + One(there /\ t = type /\ held)
      /\ Misses(b[l], t) = Misses(a[l], t) + One(there /\ t = type /\ ~held)
  <2>1. CASE ~there
    <3>1. b[l] = a[l]
      BY <2>1 DEF After
    <3> QED
      BY <1>1, <2>1, <3>1 DEF One
  <2>2. CASE there
    <3>1. PICK x, y : x = a[l] /\ y = b[l]
      OBVIOUS
    <3>2. y = Counted(x, type, held) /\ Counts(x)
      BY <2>2, <3>1 DEF After
    <3>3. /\ Counts(y)
          /\ Hits(y, t) = IF t = type /\ held THEN Hits(x, t) + 1 ELSE Hits(x, t)
          /\ Misses(y, t) = IF t = type /\ ~held THEN Misses(x, t) + 1 ELSE Misses(x, t)
      BY <3>2, Incremented
    <3>4. /\ Counts(b[l])
          /\ Hits(b[l], t) = IF t = type /\ held THEN Hits(a[l], t) + 1 ELSE Hits(a[l], t)
          /\ Misses(b[l], t) = IF t = type /\ ~held THEN Misses(a[l], t) + 1 ELSE Misses(a[l], t)
      BY <3>1, <3>3
    <3> QED
      BY <1>1, <2>2, <3>4 DEF One
  <2> QED
    BY <2>1, <2>2
<1> QED
  BY <1>1, <1>2 DEF Looked, Passed, One

LevelsCount(m, s, a, b, reached, line, type) ==
  \A l \in DOMAIN hierarchy[s] :
    b[l] = IF l \in reached THEN Counted(a[l], type, Holds(m, s, l, line)) ELSE a[l]

\* What one level passes on is what the next is looked up for.
LEMMA BalanceKeeps ==
  ASSUME HierarchyOK, NEW m, NEW s \in Sites, HasFirst(s), NEW a, SiteOK(s, a), NEW b,
         NEW top \in {"IL1", "DL1"}, NEW line, NEW type \in Types, NEW reached,
         reached = Reached(m, s, top, line, type),
         LevelsCount(m, s, a, b, reached, line, type)
  PROVE  Balanced(s, b)
<1> DEFINE D == DOMAIN hierarchy[s]
           On(l) == GoesDown(m, s, reached, l, line, type)
<1>1. /\ {"IL1", "DL1", "MEM"} \subseteq D
      /\ "UL3" \in D => "UL2" \in D
  BY ShapeFacts
<1>0. Descends(m, s, reached, top, line, type)
  BY WayDown
<1>2. /\ \A l \in {"IL1", "DL1"} : l \in reached <=> l = top
      /\ "UL2" \in D => ("UL2" \in reached <=> On(top))
      /\ "UL3" \in D => ("UL3" \in reached <=> On("UL2"))
      /\ "MEM" \in reached <=>
           IF "UL3" \in D THEN On("UL3") ELSE IF "UL2" \in D THEN On("UL2") ELSE On(top)
  BY <1>0 DEF Descends
<1>3. (\A l \in D : Counts(a[l])) /\ Balanced(s, a)
  BY DEF SiteOK
<1>4. ASSUME NEW l \in D, NEW t \in Types
      PROVE  /\ Looked(a, l, t) \in Nat /\ Passed(s, a, l, t) \in Nat
             /\ Looked(b, l, t) = Looked(a, l, t) + One(t = type /\ l \in reached)
             /\ l # "MEM" => Passed(s, b, l, t) = Passed(s, a, l, t) + One(t = type /\ On(l))
  <2>1. PICK held \in BOOLEAN : held = Holds(m, s, l, line)
    BY DEF Holds
  <2>2. PICK there \in BOOLEAN : there <=> l \in reached
    <3>1. CASE l \in reached
      BY <3>1
    <3>2. CASE l \notin reached
      BY <3>2
    <3> QED
      BY <3>1, <3>2
  <2>3. Counts(a[l]) /\ After(a[l], b[l], there, type, held)
    BY <1>3, <2>1, <2>2 DEF After, LevelsCount
  <2>4. /\ Looked(a, l, t) \in Nat /\ Passed(s, a, l, t) \in Nat
        /\ Looked(b, l, t) = Looked(a, l, t) + One(there /\ t = type)
        /\ Passed(s, b, l, t)
             = Passed(s, a, l, t) + One(there /\ t = type /\ ~held /\ Allocates(s, l, t))
    BY <2>3, CountFacts
  <2>5. One(there /\ t = type) = One(t = type /\ l \in reached)
    BY <2>2 DEF One
  <2>6. l # "MEM" =>
          One(there /\ t = type /\ ~held /\ Allocates(s, l, t)) = One(t = type /\ On(l))
    BY <2>1, <2>2 DEF One, MissGoesOn, GoesDown
  <2> QED
    BY <2>4, <2>5, <2>6
<1> HIDE DEF On
<1>5. ASSUME NEW t \in Types, t # type
      PROVE  /\ \A l \in D : Looked(b, l, t) = Looked(a, l, t)
             /\ \A l \in D \ {"MEM"} : Passed(s, b, l, t) = Passed(s, a, l, t)
  BY <1>4, <1>5 DEF One
<1>6. /\ \A l \in D : Looked(b, l, type) = Looked(a, l, type) + One(l \in reached)
      /\ \A l \in D \ {"MEM"} : Passed(s, b, l, type) = Passed(s, a, l, type) + One(On(l))
  BY <1>4 DEF One
<1>7. FirstPassed(s, b, type) = FirstPassed(s, a, type) + One(On(top))
  <2>1. \A l \in {"IL1", "DL1"} : l # top => ~On(l)
    BY <1>2 DEF On, GoesDown
  <2>2. \A l \in {"IL1", "DL1"} :
          /\ Passed(s, a, l, type) \in Nat
          /\ Passed(s, b, l, type) = Passed(s, a, l, type) + One(On(l))
    BY <1>1, <1>4, <1>6
  <2>3. CASE top = "IL1"
    BY <2>1, <2>2, <2>3 DEF FirstPassed, One
  <2>4. CASE top = "DL1"
    BY <2>1, <2>2, <2>4 DEF FirstPassed, One
  <2> QED
    BY <2>3, <2>4
<1>8. ASSUME NEW t \in Types, t # type
      PROVE  /\ "UL2" \in D => Looked(b, "UL2", t) = FirstPassed(s, b, t)
             /\ "UL3" \in D => Looked(b, "UL3", t) = Passed(s, b, "UL2", t)
             /\ Looked(b, "MEM", t) = LastPassed(s, b, t)
  BY <1>1, <1>3, <1>5, <1>8 DEF Balanced, FirstPassed, LastPassed
<1>9. "UL2" \in D => Looked(b, "UL2", type) = FirstPassed(s, b, type)
  <2> SUFFICES ASSUME "UL2" \in D PROVE Looked(b, "UL2", type) = FirstPassed(s, b, type)
    OBVIOUS
  <2>1. Looked(a, "UL2", type) = FirstPassed(s, a, type)
    BY <1>3 DEF Balanced
  <2>2. One("UL2" \in reached) = One(On(top))
    BY <1>2 DEF One
  <2>3. Looked(b, "UL2", type) = Looked(a, "UL2", type) + One("UL2" \in reached)
    BY <1>6
  <2> QED
    BY <1>7, <2>1, <2>2, <2>3
<1>10. "UL3" \in D => Looked(b, "UL3", type) = Passed(s, b, "UL2", type)
  <2> SUFFICES ASSUME "UL3" \in D PROVE Looked(b, "UL3", type) = Passed(s, b, "UL2", type)
    OBVIOUS
  <2>1. Looked(a, "UL3", type) = Passed(s, a, "UL2", type)
    BY <1>3 DEF Balanced
  <2>2. One("UL3" \in reached) = One(On("UL2"))
    BY <1>2 DEF One
  <2>3. /\ Looked(b, "UL3", type) = Looked(a, "UL3", type) + One("UL3" \in reached)
        /\ Passed(s, b, "UL2", type) = Passed(s, a, "UL2", type) + One(On("UL2"))
    BY <1>1, <1>6
  <2> QED
    BY <2>1, <2>2, <2>3
<1>11. Looked(b, "MEM", type) = LastPassed(s, b, type)
  <2> DEFINE last == IF "UL3" \in D THEN "UL3" ELSE IF "UL2" \in D THEN "UL2" ELSE top
  <2>1. Looked(a, "MEM", type) = LastPassed(s, a, type)
    BY <1>3 DEF Balanced
  <2>2. One("MEM" \in reached) = One(On(last))
    <3>1. "MEM" \in reached <=> On(last)
      BY <1>2
    <3> QED
      BY <3>1 DEF One
  <2>3. Looked(b, "MEM", type) = Looked(a, "MEM", type) + One("MEM" \in reached)
    BY <1>1, <1>6
  <2>4. LastPassed(s, b, type) = LastPassed(s, a, type) + One(On(last))
    <3>1. CASE "UL3" \in D
      BY <1>6, <3>1 DEF LastPassed
    <3>2. CASE "UL3" \notin D /\ "UL2" \in D
      BY <1>6, <3>2 DEF LastPassed
    <3>3. CASE "UL3" \notin D /\ "UL2" \notin D
      BY <1>7, <3>3 DEF LastPassed
    <3> QED
      BY <3>1, <3>2, <3>3
  <2> QED
    BY <2>1, <2>2, <2>3, <2>4
<1> QED
  BY <1>8, <1>9, <1>10, <1>11 DEF Balanced

\* One access keeps the statistics of all sites numbers that balance.
LEMMA AccessKeeps ==
  ASSUME HierarchyOK, NEW m, AccessOK(m), NEW s \in Sites, NEW top,
         HasFirst(s) => top \in {"IL1", "DL1"}, NEW line, NEW ref
  PROVE  AccessOK(AccessSingleLine(m, s, top, line, ref))
<1> DEFINE n == AccessSingleLine(m, s, top, line, ref)
           type == Type(ref)
           reached == Reached(m, s, top, line, type)
           D == DOMAIN hierarchy[s]
<1>1. type \in Types
  BY DEF Type, Types
<1>2. /\ "access" \in DOMAIN n
      /\ n.access = [m.access EXCEPT ![s] =
           [l \in D |-> IF l \in reached
                        THEN [m.access[s][l] EXCEPT ![type][Holds(m, s, l, line)] = @ + 1]
                        ELSE m.access[s][l]]]
  BY DEF AccessSingleLine, CountsAfter
<1> HIDE DEF n, type, reached
<1>3. /\ DOMAIN n.access = Sites /\ \A u \in Sites \ {s} : n.access[u] = m.access[u]
      /\ DOMAIN n.access[s] = D
      /\ \A l \in D : n.access[s][l] = IF l \in reached
           THEN [m.access[s][l] EXCEPT ![type][Holds(m, s, l, line)] = @ + 1]
           ELSE m.access[s][l]
  BY <1>2 DEF AccessOK
<1>4. \A l \in D : n.access[s][l] =
        IF l \in reached THEN Counted(m.access[s][l], type, Holds(m, s, l, line))
        ELSE m.access[s][l]
  BY <1>3 DEF Counted
<1>5. LevelsCount(m, s, m.access[s], n.access[s], reached, line, type)
  BY <1>4 DEF LevelsCount
<1>6. \A l \in D : Counts(n.access[s][l])
  <2> SUFFICES ASSUME NEW l \in D, l \in reached
               PROVE  Counts(Counted(m.access[s][l], type, Holds(m, s, l, line)))
    BY <1>4 DEF AccessOK, SiteOK
  <2>1. PICK held \in BOOLEAN : held = Holds(m, s, l, line)
    BY DEF Holds
  <2>2. PICK x, y : x = m.access[s][l] /\ y = Counted(x, type, held)
    OBVIOUS
  <2>3. Counts(x)
    BY <2>2 DEF AccessOK, SiteOK
  <2>4. Counts(y)
    BY <1>1, <2>2, <2>3, Incremented
  <2> QED
    BY <2>1, <2>2, <2>4
<1>7. Balanced(s, n.access[s])
  <2>1. CASE HasFirst(s)
    <3>1. PICK a, b : a = m.access[s] /\ b = n.access[s]
      OBVIOUS
    <3>2. SiteOK(s, a) /\ LevelsCount(m, s, a, b, reached, line, type)
      BY <1>5, <3>1 DEF AccessOK
    <3>3. Balanced(s, b)
      BY <1>1, <2>1, <3>2, BalanceKeeps DEF reached
    <3> QED
      BY <3>1, <3>3
  <2>2. CASE ~HasFirst(s)
    BY <2>2 DEF Balanced
  <2> QED
    BY <2>1, <2>2
<1>8. SiteOK(s, n.access[s])
  BY <1>3, <1>6, <1>7 DEF SiteOK
<1> QED
  BY <1>2, <1>3, <1>8 DEF AccessOK, n

-----------------------------------------------------------------------------
(* What a reference does at one site. *)

\* A fetch at a site with caches makes up to two accesses.
LEMMA FetchKeeps ==
  ASSUME HierarchyOK, NEW m, AccessOK(m), NEW s \in Sites, HasFirst(s), NEW ref
  PROVE  AccessOK(Fetch(m, s, ref))
<1> DEFINE first == AccessIf(LineOf(ref.addr) # m.last_icacheline[s],
                             m, s, "IL1", LineOf(ref.addr), ref)
           second == AccessIf(Crosses(ref), first, s, "IL1", NextLine(ref.addr), ref)
           n == [second EXCEPT !.last_icacheline[s] = LastLine(ref)]
<1>1. AccessOK(first)
  <2>1. first \in {AccessSingleLine(m, s, "IL1", LineOf(ref.addr), ref), m}
    BY DEF AccessIf
  <2> QED
    BY <2>1, AccessKeeps
<1> HIDE DEF first
<1>2. AccessOK(second)
  <2>1. second \in {AccessSingleLine(first, s, "IL1", NextLine(ref.addr), ref), first}
    BY DEF AccessIf
  <2> QED
    BY <1>1, <2>1, AccessKeeps
<1>3. Fetch(m, s, ref) = n
  BY DEF Fetch, first
<1> HIDE DEF second
<1>4. n.access = second.access /\ DOMAIN n = DOMAIN second
  BY <1>2 DEF AccessOK
<1> HIDE DEF n
<1> QED
  BY <1>2, <1>3, <1>4 DEF AccessOK

\* However many accesses a fetch makes, the statistics balance.
LEMMA OutcomeKeeps ==
  ASSUME HierarchyOK, NEW m, AccessOK(m), NEW s \in Sites, NEW ref,
         NEW n \in FetchOutcomes(m, s, ref)
  PROVE  AccessOK(n)
<1>1. CASE HasFirst(s)
  <2>1. n = Fetch(m, s, ref)
    BY <1>1 DEF FetchOutcomes, HasFirst, CachesOf
  <2> QED
    BY <1>1, <2>1, FetchKeeps
<1>2. CASE ~HasFirst(s)
  <2> DEFINE once == AccessSingleLine(m, s, "MEM", LineOf(ref.addr), ref)
             twice == AccessSingleLine(once, s, "MEM", NextLine(ref.addr), ref)
  <2>1. n \in {m, once, twice}
    BY <1>2 DEF FetchOutcomes, HasFirst, CachesOf, Caches
  <2>2. AccessOK(once)
    BY <1>2, AccessKeeps
  <2> HIDE DEF once
  <2>3. AccessOK(twice)
    BY <1>2, <2>2, AccessKeeps
  <2> QED
    BY <2>1, <2>2, <2>3
<1> QED
  BY <1>1, <1>2

\* A load or store makes one access or two.
LEMMA DataKeeps ==
  ASSUME HierarchyOK, NEW m, AccessOK(m), NEW s \in Sites, NEW ref
  PROVE  AccessOK(Access(m, s, ref))
<1> DEFINE top == Top(s, "DL1")
           first == AccessSingleLine(m, s, top, LineOf(ref.addr), ref)
           second == AccessSingleLine(first, s, top, NextLine(ref.addr), ref)
<1>1. HasFirst(s) => top \in {"IL1", "DL1"}
  BY ShapeFacts DEF Top
<1>2. Access(m, s, ref) \in {first, second}
  BY DEF Access, AccessIf
<1> HIDE DEF top
<1>3. AccessOK(first)
  BY <1>1, AccessKeeps
<1> HIDE DEF first
<1>4. AccessOK(second)
  BY <1>1, <1>3, AccessKeeps
<1> QED
  BY <1>2, <1>3, <1>4

-----------------------------------------------------------------------------
(* The invariant of the whole program. *)

CountInv == HierarchyOK /\ AccessOK(State)

\* All statistics start at 0.
LEMMA CountInit == Init => CountInv
<1> SUFFICES ASSUME Init PROVE CountInv
  OBVIOUS
<1>1. HierarchyOK
  BY HierarchyAssumption DEF Init, HierarchyOK
<1>2. State.access = access /\ "access" \in DOMAIN State
  BY DEF State
<1>3. DOMAIN access = Sites
  BY DEF Init
<1>4. ASSUME NEW s \in Sites PROVE SiteOK(s, access[s])
  <2>1. access[s] = [l \in DOMAIN hierarchy[s] |-> [t \in Types |-> [hit \in BOOLEAN |-> 0]]]
    BY DEF Init, Types
  <2>2. PICK none : none = [t \in Types |-> [hit \in BOOLEAN |-> 0]]
    OBVIOUS
  <2>3. Counts(none) /\ \A t \in Types : Hits(none, t) = 0 /\ Misses(none, t) = 0
    BY <2>2 DEF Counts, Hits, Misses
  <2>4. DOMAIN access[s] = DOMAIN hierarchy[s] /\ \A l \in DOMAIN hierarchy[s] : access[s][l] = none
    BY <2>1, <2>2
  <2>5. \A l \in DOMAIN hierarchy[s], t \in Types :
          Looked(access[s], l, t) = 0 /\ Passed(s, access[s], l, t) = 0
    BY <2>3, <2>4 DEF Looked, Passed
  <2>6. Balanced(s, access[s])
    BY <1>1, <2>5, ShapeFacts DEF Balanced, FirstPassed, LastPassed
  <2> QED
    BY <2>3, <2>4, <2>6 DEF SiteOK
<1> QED
  BY <1>1, <1>2, <1>3, <1>4 DEF CountInv, AccessOK

\* The invariant is about what a reference leaves, whatever else it changed.
LEMMA CountBecome ==
  ASSUME HierarchyOK, UNCHANGED hierarchy, NEW n, AccessOK(n), access' = n.access
  PROVE  CountInv'
<1>1. State'.access = n.access /\ "access" \in DOMAIN State'
  BY DEF State
<1>2. ASSUME NEW s \in Sites, NEW a, SiteOK(s, a)
      PROVE  SiteOK(s, a)'
  BY <1>2 DEF SiteOK, Balanced, HasFirst, CachesOf, LastPassed, FirstPassed, Passed, Allocates
<1>3. AccessOK(State)'
  BY <1>1, <1>2 DEF AccessOK
<1>4. HierarchyOK'
  BY DEF HierarchyOK
<1> QED
  BY <1>3, <1>4 DEF CountInv

\* Both kinds of references keep the statistics balanced.
LEMMA CountStep == CountInv /\ [Next]_vars => CountInv'
<1> SUFFICES ASSUME CountInv, [Next]_vars PROVE CountInv'
  OBVIOUS
<1>1. HierarchyOK /\ AccessOK(State) /\ "CPU" \in Sites /\ "PIM" \in Sites
  BY DEF CountInv, Sites
<1>2. ASSUME NEW ref \in References, InstrCacheRef(ref) PROVE CountInv'
  <2>1. PICK m \in FetchOutcomes(State, "CPU", ref) :
          \E n \in FetchOutcomes(m, "PIM", ref) : Become(n)
    BY <1>2 DEF InstrCacheRef
  <2>2. PICK n \in FetchOutcomes(m, "PIM", ref) : Become(n)
    BY <2>1
  <2>3. AccessOK(m)
    BY <1>1, OutcomeKeeps
  <2>4. AccessOK(n)
    BY <1>1, <2>3, OutcomeKeeps
  <2>5. access' = n.access /\ UNCHANGED hierarchy
    BY <1>2, <2>2 DEF Become, InstrCacheRef
  <2> QED
    BY <1>1, <2>4, <2>5, CountBecome
<1>3. ASSUME NEW ref \in References, DataCacheRef(ref) PROVE CountInv'
  <2>1. PICK m : m = Access(State, "CPU", ref)
    OBVIOUS
  <2>2. PICK n : n = Access(m, "PIM", ref)
    OBVIOUS
  <2>3. Become(n) /\ UNCHANGED hierarchy
    BY <1>3, <2>1, <2>2 DEF DataCacheRef
  <2>4. AccessOK(m)
    BY <1>1, <2>1, DataKeeps
  <2>5. AccessOK(n)
    BY <1>1, <2>2, <2>4, DataKeeps
  <2>6. access' = n.access
    BY <2>3 DEF Become
  <2> QED
    BY <1>1, <2>3, <2>5, <2>6, CountBecome
<1>4. CASE UNCHANGED vars
  <2>1. access' = State.access /\ UNCHANGED hierarchy
    BY <1>4 DEF vars, State
  <2> QED
    BY <1>1, <2>1, CountBecome
<1> QED
  BY <1>2, <1>3, <1>4 DEF Next

\* What the statistics of a site with caches say, in the words of the property.
LEMMA CountsAgree == CountInv => MissesFeedNextLevel
<1> SUFFICES ASSUME CountInv, NEW s \in Sites, CachesOf(s) # {},
                    NEW l \in {"UL2", "UL3", "MEM"} \cap DOMAIN hierarchy[s],
                    NEW t \in {"load", "store"}
             PROVE  Lookups(s, l, t) = Arrivals(s, l, t)
  BY DEF MissesFeedNextLevel
<1>1. HierarchyOK /\ HasFirst(s) /\ t \in Types
  BY ShapeFacts DEF CountInv, Types
<1>2. Balanced(s, access[s])
  BY DEF CountInv, AccessOK, SiteOK, State
<1>3. /\ "UL2" \in DOMAIN hierarchy[s] <=> "UL2" \in CachesOf(s)
      /\ "UL3" \in DOMAIN hierarchy[s] <=> "UL3" \in CachesOf(s)
  BY DEF CachesOf, Caches
<1>4. /\ Lookups(s, l, t) = Looked(access[s], l, t)
      /\ \A k : PassedOn(s, k, t) = Passed(s, access[s], k, t)
  BY DEF Lookups, PassedOn, Looked, Passed, Hits, Misses
<1>5. CASE l = "UL2"
  <2>1. Arrivals(s, l, t) = PassedOn(s, "IL1", t) + PassedOn(s, "DL1", t)
    BY <1>5, DepthFacts DEF Arrivals
  <2> QED
    BY <1>1, <1>2, <1>4, <1>5, <2>1 DEF Balanced, FirstPassed
<1>6. CASE l = "UL3"
  <2>1. Arrivals(s, l, t) = PassedOn(s, "UL2", t)
    BY <1>6, DepthFacts DEF Arrivals
  <2> QED
    BY <1>1, <1>2, <1>4, <1>6, <2>1 DEF Balanced
<1>7. CASE l = "MEM"
  <2>1. Looked(access[s], "MEM", t) = LastPassed(s, access[s], t)
    BY <1>1, <1>2 DEF Balanced
  <2>2. Arrivals(s, l, t) = LastPassed(s, access[s], t)
    BY <1>3, <1>4, <1>7, DepthFacts DEF Arrivals, LastPassed, FirstPassed
  <2> QED
    BY <1>4, <1>7, <2>1, <2>2
<1> QED
  BY <1>5, <1>6, <1>7

\* The statistics of every level are numbers and balance, for each type of access
\* and whatever the hierarchy (Storage.cpp:256-300).
THEOREM CountInvariant == Spec => []CountInv
BY CountInit, CountStep, PTL DEF Spec

\* No access is dropped or looked up twice on its way down: each level is looked up
\* as often as those above it missed and passed on (Storage.cpp:256-300).
THEOREM MissesTheorem == Spec => []MissesFeedNextLevel
BY CountInvariant, CountsAgree, PTL

-----------------------------------------------------------------------------
(***************************************************************************)
(* The lines kept: each set has the lines used last, in the order of use.  *)
(***************************************************************************)

NoTwice(s) == \A j, k \in DOMAIN s : s[j] = s[k] => j = k

\* The lines used later than line x.
Newer(order, x) ==
  {order[j] : j \in {j \in DOMAIN order : \E k \in DOMAIN order : j < k /\ order[k] = x}}

\* In a list without repetitions, the later ones are those before its place.
LEMMA NewerAt ==
  ASSUME NEW order \in Seq(Nat), NoTwice(order), NEW k \in DOMAIN order
  PROVE  /\ Newer(order, order[k]) = {order[j] : j \in 1 .. k - 1}
         /\ order[k] \notin Newer(order, order[k])
         /\ Newer(order, order[k]) \subseteq Range(order)
<1>1. \A j, i \in DOMAIN order : order[i] = order[k] => i = k
  BY DEF NoTwice
<1>2. {j \in DOMAIN order : \E i \in DOMAIN order : j < i /\ order[i] = order[k]} = 1 .. k - 1
  BY <1>1
<1>3. Newer(order, order[k]) = {order[j] : j \in 1 .. k - 1}
  BY <1>2 DEF Newer
<1>4. \A j \in 1 .. k - 1 : order[j] # order[k] /\ j \in DOMAIN order
  BY DEF NoTwice
<1> QED
  BY <1>3, <1>4 DEF Range

\* A line that is used comes first, and is newer than all others.
LEMMA MovedFacts ==
  ASSUME NEW order \in Seq(Nat), NoTwice(order), NEW line \in Nat
  PROVE  LET p == Moved(order, line)
         IN /\ p \in Seq(Nat) /\ NoTwice(p) /\ Range(p) = Range(order) \cup {line}
            /\ Newer(p, line) = {}
            /\ \A x \in Range(order) \ {line} : Newer(p, x) = Newer(order, x) \cup {line}
<1>1. PICK r : r = RemoveFirst(order, line)
  OBVIOUS
<1>2. PICK p : p = Moved(order, line)
  OBVIOUS
<1>3. PICK n \in Nat : n = Len(order)
  OBVIOUS
<1> DEFINE Taken(k) ==
             /\ k <= n + 1 /\ \A j \in 1 .. k - 1 : order[j] # line
             /\ k <= n => order[k] = line
             /\ r \in Seq(Nat) /\ Len(r) = (IF k <= n THEN n - 1 ELSE n)
             /\ \A j \in 1 .. k - 1 : r[j] = order[j]
             /\ \A j \in k .. n - 1 : r[j] = order[j + 1]
<1>0. PICK k \in Nat \ {0} : Taken(k)
  <2>1. CASE line \in Range(order)
    <3>0. PICK k \in 1 .. Len(order) : WithoutFirst(order, line, r, k)
      BY <1>1, <2>1, RemoveFirstAt
    <3>1. /\ order[k] = line /\ \A j \in 1 .. k - 1 : order[j] # line
          /\ r \in Seq(Nat) /\ Len(r) = Len(order) - 1
          /\ \A j \in 1 .. k - 1 : r[j] = order[j]
          /\ \A j \in k .. Len(order) - 1 : r[j] = order[j + 1]
      BY <3>0 DEF WithoutFirst
    <3>2. k \in Nat \ {0} /\ k <= n /\ k <= n + 1
      BY <1>3, <3>1
    <3>3. Taken(k)
      <4>1. Len(order) = n
        BY <1>3
      <4>2. r \in Seq(Nat) /\ Len(r) = (IF k <= n THEN n - 1 ELSE n)
        BY <3>1, <3>2, <4>1
      <4>3. \A j \in k .. n - 1 : r[j] = order[j + 1]
        BY <3>1, <4>1
      <4>4. /\ k <= n => order[k] = line
            /\ \A j \in 1 .. k - 1 : order[j] # line
            /\ \A j \in 1 .. k - 1 : r[j] = order[j]
        BY <3>1
      <4> QED
        BY <3>2, <4>2, <4>3, <4>4
    <3> HIDE DEF Taken
    <3> QED
      BY <3>2, <3>3
  <2>2. CASE line \notin Range(order)
    <3>1. \A j \in 1 .. Len(order) : order[j] # line
      BY <2>2 DEF Range
    <3>2. r = order
      BY <1>1, <3>1 DEF RemoveFirst
    <3>3. n + 1 \in Nat \ {0} /\ (n + 1) - 1 = n /\ ~(n + 1 <= n) /\ (n + 1) .. n - 1 = {}
      BY <1>3
    <3>4. Taken(n + 1)
      BY <1>3, <3>1, <3>2, <3>3
    <3> HIDE DEF Taken
    <3> QED
      BY <3>3, <3>4
  <2> QED
    BY <2>1, <2>2
<1>4. /\ k <= n + 1 /\ \A j \in 1 .. k - 1 : order[j] # line
      /\ k <= n => order[k] = line
      /\ r \in Seq(Nat) /\ Len(r) = (IF k <= n THEN n - 1 ELSE n)
      /\ \A j \in 1 .. k - 1 : r[j] = order[j]
      /\ \A j \in k .. n - 1 : r[j] = order[j + 1]
  BY <1>0
<1> HIDE DEF Taken
<1>5. PICK m \in Nat : m = Len(r)
  BY <1>4
<1>6. p = <<line>> \o r
  BY <1>1, <1>2 DEF Moved
<1>7. p \in Seq(Nat) /\ Len(p) = m + 1 /\ p[1] = line /\ \A j \in 1 .. m : p[j + 1] = r[j]
  BY <1>4, <1>5, <1>6
<1>8. \A i, j \in 1 .. n : order[i] = order[j] => i = j
  BY <1>3 DEF NoTwice
<1>9. /\ \A j \in 2 .. k : p[j] = order[j - 1]
      /\ \A j \in k + 1 .. m + 1 : p[j] = order[j] /\ j \in 1 .. n
      /\ (IF k <= n THEN m + 1 = n ELSE m + 1 = k)
      /\ k <= m + 1
  <2>1. (IF k <= n THEN m + 1 = n ELSE m + 1 = k) /\ k <= m + 1
    BY <1>4, <1>5
  <2>2. ASSUME NEW j \in 2 .. k PROVE p[j] = order[j - 1]
    <3>1. j - 1 \in 1 .. m /\ (j - 1) + 1 = j /\ j - 1 \in 1 .. k - 1
      BY <2>1
    <3> QED
      BY <1>4, <1>7, <3>1
  <2>3. ASSUME NEW j \in k + 1 .. m + 1 PROVE p[j] = order[j] /\ j \in 1 .. n
    <3>1. j - 1 \in 1 .. m /\ (j - 1) + 1 = j /\ j - 1 \in k .. n - 1 /\ j \in 1 .. n
      BY <2>1
    <3>2. p[(j - 1) + 1] = r[j - 1]
      BY <1>7, <3>1
    <3>3. r[j - 1] = order[(j - 1) + 1]
      BY <1>4, <3>1
    <3> QED
      BY <3>1, <3>2, <3>3
  <2> QED
    BY <2>1, <2>2, <2>3
<1>10. \A j \in 2 .. m + 1 : p[j] # line
  <2> SUFFICES ASSUME NEW j \in 2 .. m + 1 PROVE p[j] # line
    OBVIOUS
  <2>1. CASE j <= k
    <3>1. j \in 2 .. k /\ j - 1 \in 1 .. k - 1
      BY <2>1
    <3>2. p[j] = order[j - 1]
      BY <1>9, <3>1
    <3>3. order[j - 1] # line
      BY <1>4, <3>1
    <3> QED
      BY <3>2, <3>3
  <2>2. CASE j > k
    <3>1. j \in k + 1 .. m + 1
      BY <2>2
    <3>2. p[j] = order[j] /\ j \in 1 .. n
      BY <1>9, <3>1
    <3>3. k \in 1 .. n /\ order[k] = line
      BY <1>4, <1>9, <2>2, <3>2
    <3> QED
      BY <1>8, <2>2, <3>2, <3>3
  <2> QED
    BY <2>1, <2>2
<1>11. NoTwice(p)
  <2> SUFFICES ASSUME NEW i \in 1 .. m + 1, NEW j \in 1 .. m + 1, i < j PROVE p[i] # p[j]
    BY <1>7 DEF NoTwice
  <2>1. CASE i = 1
    BY <1>7, <1>10, <2>1
  <2>2. CASE i # 1
    <3>1. i \in 2 .. m + 1 /\ j \in 2 .. m + 1
      BY <2>2
    <3>2. CASE j <= k
      BY <1>8, <1>9, <3>1, <3>2, <1>4
    <3>3. CASE i <= k /\ j > k
      <4>1. p[i] = order[i - 1] /\ i - 1 \in 1 .. n
        BY <1>9, <1>4, <3>1, <3>3
      <4>2. p[j] = order[j] /\ j \in 1 .. n
        <5>1. j \in k + 1 .. m + 1
          BY <3>1, <3>3
        <5> QED
          BY <1>9, <5>1
      <4> QED
        BY <1>8, <4>1, <4>2
    <3>4. CASE i > k
      <4>1. p[i] = order[i] /\ i \in 1 .. n /\ p[j] = order[j] /\ j \in 1 .. n
        BY <1>9, <3>1, <3>4
      <4> QED
        BY <1>8, <4>1
    <3> QED
      BY <3>1, <3>2, <3>3, <3>4
  <2> QED
    BY <2>1, <2>2
<1>12. ASSUME NEW i \in 1 .. n
       PROVE  \/ i = k /\ order[i] = line
              \/ i < k /\ i + 1 \in 2 .. m + 1 /\ order[i] = p[i + 1]
              \/ i > k /\ i \in 2 .. m + 1 /\ order[i] = p[i]
  <2>1. CASE i = k
    BY <1>4, <2>1
  <2>2. CASE i < k
    <3>1. i + 1 \in 2 .. k /\ (i + 1) - 1 = i /\ i + 1 \in 2 .. m + 1
      BY <1>9, <2>2
    <3> QED
      BY <1>9, <2>2, <3>1
  <2>3. CASE i > k
    <3>1. i \in k + 1 .. m + 1 /\ i \in 2 .. m + 1
      BY <1>4, <1>9, <2>3
    <3> QED
      BY <1>9, <2>3, <3>1
  <2> QED
    BY <2>1, <2>2, <2>3
<1>13. ASSUME NEW j \in 2 .. m + 1
       PROVE  \/ j <= k /\ j - 1 \in 1 .. n /\ p[j] = order[j - 1]
              \/ j > k /\ j \in 1 .. n /\ p[j] = order[j]
  BY <1>4, <1>9
<1>14. Range(p) = Range(order) \cup {line}
  <2>1. \A i \in 1 .. n : \E j \in 1 .. m + 1 : order[i] = p[j]
    <3> SUFFICES ASSUME NEW i \in 1 .. n PROVE \E j \in 1 .. m + 1 : order[i] = p[j]
      OBVIOUS
    <3>1. 1 \in 1 .. m + 1 /\ p[1] = line
      BY <1>7
    <3>2. 2 .. m + 1 \subseteq 1 .. m + 1
      BY <1>5
    <3> QED
      BY <1>12, <3>1, <3>2
  <2>2. \A j \in 1 .. m + 1 : p[j] = line \/ \E i \in 1 .. n : p[j] = order[i]
    <3> SUFFICES ASSUME NEW j \in 1 .. m + 1 PROVE p[j] = line \/ \E i \in 1 .. n : p[j] = order[i]
      OBVIOUS
    <3>1. j = 1 \/ j \in 2 .. m + 1
      BY <1>5
    <3> QED
      BY <1>7, <1>13, <3>1
  <2>3. DOMAIN p = 1 .. m + 1 /\ DOMAIN order = 1 .. n /\ line = p[1] /\ 1 \in 1 .. m + 1
    BY <1>3, <1>7
  <2>4. Range(p) = {p[j] : j \in 1 .. m + 1} /\ Range(order) = {order[i] : i \in 1 .. n}
    BY <2>3 DEF Range
  <2>5. \A x \in Range(order) \cup {line} : x \in Range(p)
    BY <2>1, <2>3, <2>4
  <2>6. \A x \in Range(p) : x \in Range(order) \cup {line}
    BY <2>2, <2>4
  <2> QED
    BY <2>5, <2>6
<1>15. Newer(p, line) = {}
  <2>1. 1 \in DOMAIN p /\ p[1] = line
    BY <1>7
  <2>2. Newer(p, p[1]) = {p[j] : j \in 1 .. 1 - 1}
    BY <1>7, <1>11, <2>1, NewerAt
  <2> QED
    BY <2>1, <2>2
<1>16. ASSUME NEW x \in Range(order), x # line
       PROVE  Newer(p, x) = Newer(order, x) \cup {line}
  <2>1. PICK i \in 1 .. n : order[i] = x
    BY <1>3 DEF Range
  <2>2. PICK q \in 2 .. m + 1 : p[q] = x /\ ((q = i + 1 /\ i < k) \/ (q = i /\ i > k))
    <3>1. i # k
      BY <1>4, <1>16, <2>1
    <3> QED
      BY <1>12, <2>1, <3>1
  <2>3. Newer(order, x) = {order[j] : j \in 1 .. i - 1}
    BY <1>3, <2>1, NewerAt
  <2>4. Newer(p, x) = {p[j] : j \in 1 .. q - 1}
    <3>1. q \in DOMAIN p
      BY <1>7
    <3> QED
      BY <1>7, <1>11, <2>2, <3>1, NewerAt
  <2>5. \A j \in 1 .. i - 1 : order[j] = line \/ \E h \in 1 .. q - 1 : order[j] = p[h]
    <3> SUFFICES ASSUME NEW j \in 1 .. i - 1, order[j] # line
                 PROVE  \E h \in 1 .. q - 1 : order[j] = p[h]
      OBVIOUS
    <3>1. j \in 1 .. n
      BY <2>1
    <3>2. \/ j < k /\ order[j] = p[j + 1]
          \/ j > k /\ order[j] = p[j]
      BY <1>12, <3>1
    <3>3. (j < k => j + 1 \in 1 .. q - 1) /\ (j > k => j \in 1 .. q - 1)
      BY <2>2, <3>1
    <3> QED
      BY <3>2, <3>3
  <2>6. \A h \in 1 .. q - 1 : p[h] = line \/ \E j \in 1 .. i - 1 : p[h] = order[j]
    <3> SUFFICES ASSUME NEW h \in 1 .. q - 1
                 PROVE  p[h] = line \/ \E j \in 1 .. i - 1 : p[h] = order[j]
      OBVIOUS
    <3>1. CASE h = 1
      BY <1>7, <3>1
    <3>2. CASE h # 1
      <4>1. h \in 2 .. m + 1
        BY <2>2, <3>2
      <4>2. \/ h <= k /\ p[h] = order[h - 1]
            \/ h > k /\ p[h] = order[h]
        BY <1>13, <4>1
      <4>3. (h <= k => h - 1 \in 1 .. i - 1) /\ (h > k => h \in 1 .. i - 1)
        BY <2>2, <3>2
      <4> QED
        BY <4>2, <4>3
    <3> QED
      BY <3>1, <3>2
  <2>7. line = p[1] /\ 1 \in 1 .. q - 1
    BY <1>7, <2>2
  <2>8. line \in Newer(p, x) /\ \A y \in Newer(order, x) : y # line => y \in Newer(p, x)
    BY <2>3, <2>4, <2>5, <2>7
  <2>9. \A y \in Newer(p, x) : y = line \/ y \in Newer(order, x)
    BY <2>3, <2>4, <2>6
  <2>10. \A y \in Newer(order, x) : y \in Newer(p, x)
    BY <2>8
  <2> QED
    BY <2>8, <2>9, <2>10
<1> QED
  BY <1>2, <1>7, <1>11, <1>14, <1>15, <1>16

-----------------------------------------------------------------------------
(* The tags of a set by the age of their lines. *)

\* An lru set has them in order; the others go down from the victim before next.
Place(c, set, w) ==
  IF c.policy = "lru" THEN w
  ELSE IF set.next + w > c.ways THEN set.next + w - c.ways ELSE set.next + w
Aged(c, set) == [w \in 1 .. c.ways |-> set.tags[Place(c, set, w)]]

LinesIn(a, ways) == {a[w] : w \in 1 .. ways}

\* No tag is left out.
LEMMA AgedFacts ==
  ASSUME NEW c \in CacheLevel, NEW set, SetOK(c, set), NEW a, a = Aged(c, set)
  PROVE  /\ a \in [1 .. c.ways -> Nat] /\ c.ways \in Nat \ {0}
         /\ Range(set.tags) = LinesIn(a, c.ways)
<1>1. c.ways \in Nat \ {0} /\ set.tags \in Seq(Nat) /\ Len(set.tags) = c.ways /\ set.next \in 1 .. c.ways
  BY DEF CacheLevel, SetOK
<1>2. PICK n \in Nat \ {0} : n = c.ways
  BY <1>1
<1>3. PICK tags : tags = set.tags
  OBVIOUS
<1>4. tags \in Seq(Nat) /\ DOMAIN tags = 1 .. n /\ \A w \in 1 .. n : tags[w] \in Nat
  BY <1>1, <1>2, <1>3
<1>5. \A w \in 1 .. n : Place(c, set, w) \in 1 .. n /\ a[w] = tags[Place(c, set, w)]
  <2> SUFFICES ASSUME NEW w \in 1 .. n
               PROVE  Place(c, set, w) \in 1 .. n /\ a[w] = tags[Place(c, set, w)]
    OBVIOUS
  <2>1. Place(c, set, w) \in 1 .. n
    <3>1. PICK e \in 1 .. n : e = set.next
      BY <1>1, <1>2
    <3>2. (IF e + w > n THEN e + w - n ELSE e + w) \in 1 .. n
      OBVIOUS
    <3> QED
      BY <1>2, <3>1, <3>2 DEF Place
  <2>2. a[w] = tags[Place(c, set, w)]
    BY <1>2, <1>3 DEF Aged
  <2> QED
    BY <2>1, <2>2
<1>6. \A j \in 1 .. n : \E w \in 1 .. n : a[w] = tags[j]
  <2> SUFFICES ASSUME NEW j \in 1 .. n PROVE \E w \in 1 .. n : a[w] = tags[j]
    OBVIOUS
  <2>1. PICK w : w = IF c.policy = "lru" THEN j ELSE IF j > set.next THEN j - set.next ELSE j - set.next + n
    OBVIOUS
  <2>2. w \in 1 .. n /\ Place(c, set, w) = j
    <3>1. CASE c.policy = "lru"
      BY <2>1, <3>1 DEF Place
    <3>2. CASE c.policy # "lru" /\ j > set.next
      BY <1>1, <1>2, <2>1, <3>2 DEF Place
    <3>3. CASE c.policy # "lru" /\ ~(j > set.next)
      <4>1. w = j - set.next + n
        BY <2>1, <3>3
      <4>2. set.next \in 1 .. n
        BY <1>1, <1>2
      <4>3. w \in 1 .. n /\ set.next + w > n /\ set.next + w - n = j
        BY <3>3, <4>1, <4>2
      <4> QED
        BY <1>2, <3>3, <4>3 DEF Place
    <3> QED
      BY <3>1, <3>2, <3>3
  <2> QED
    BY <1>5, <2>2
<1>7. a \in [1 .. n -> Nat]
  <2>1. a = [w \in 1 .. n |-> a[w]]
    BY <1>2 DEF Aged
  <2> QED
    BY <1>4, <1>5, <2>1
<1>8. Range(tags) = {tags[j] : j \in 1 .. n}
  BY <1>4 DEF Range
<1>9. \A x \in Range(tags) : x \in {a[w] : w \in 1 .. n}
  BY <1>6, <1>8
<1>10. \A w \in 1 .. n : a[w] \in Range(tags)
  BY <1>5, <1>8
<1> QED
  BY <1>2, <1>3, <1>7, <1>9, <1>10 DEF LinesIn

\* b is a with line moved from place k, or brought in, to the front.
Pushed(a, b, n, line, k) ==
  /\ k \in 1 .. n /\ b[1] = line
  /\ \A w \in 1 .. k - 1 : b[w + 1] = a[w]
  /\ \A w \in k + 1 .. n : b[w] = a[w]
  /\ a[k] = line \/ (k = n /\ \A w \in 1 .. n : a[w] # line)

\* LRU::Find moves the line that it finds to the front (Storage.h:323-345).
LEMMA FoundIsPushed ==
  ASSUME NEW c \in CacheLevel, NEW set, SetOK(c, set), NEW line \in Nat,
         line \in Range(set.tags), c.policy = "lru",
         NEW a, a = Aged(c, set), NEW b, b = Aged(c, Found(c, set, line))
  PROVE  \E k \in 1 .. c.ways : Pushed(a, b, c.ways, line, k)
<1>1. PICK tags : tags = set.tags
  OBVIOUS
<1>2. PICK n \in Nat \ {0} : n = c.ways
  BY DEF CacheLevel
<1>3. tags \in Seq(Nat) /\ Len(tags) = n /\ line \in Range(tags)
  BY <1>1, <1>2 DEF SetOK
<1>4. PICK r : r = RemoveFirst(tags, line)
  OBVIOUS
<1>5. PICK k \in 1 .. Len(tags) : WithoutFirst(tags, line, r, k)
  BY <1>3, <1>4, RemoveFirstAt
<1>6. PICK q : q = <<line>> \o r
  OBVIOUS
<1>7. /\ k \in 1 .. n /\ tags[k] = line /\ r \in Seq(Nat) /\ Len(r) = n - 1
      /\ \A j \in 1 .. k - 1 : r[j] = tags[j]
      /\ \A j \in k .. n - 1 : r[j] = tags[j + 1]
  BY <1>3, <1>5 DEF WithoutFirst
<1>8. q[1] = line /\ \A j \in 1 .. n - 1 : q[j + 1] = r[j]
  BY <1>6, <1>7
<1>9. Found(c, set, line).tags = q
  BY <1>1, <1>4, <1>6 DEF Found, SetOK
<1>10. a = [w \in 1 .. n |-> tags[w]] /\ b = [w \in 1 .. n |-> q[w]]
  BY <1>1, <1>2, <1>9 DEF Aged, Place
<1>11. ASSUME NEW w \in 1 .. k - 1 PROVE b[w + 1] = a[w]
  <2>1. w \in 1 .. n - 1 /\ w + 1 \in 1 .. n /\ w \in 1 .. n
    BY <1>7
  <2> QED
    BY <1>7, <1>8, <1>10, <2>1
<1>12. ASSUME NEW w \in k + 1 .. n PROVE b[w] = a[w]
  <2>1. w - 1 \in k .. n - 1 /\ (w - 1) + 1 = w /\ w \in 1 .. n /\ w - 1 \in 1 .. n - 1
    BY <1>7
  <2>2. q[(w - 1) + 1] = r[w - 1]
    BY <1>8, <2>1
  <2>3. r[w - 1] = tags[(w - 1) + 1]
    BY <1>7, <2>1
  <2> QED
    BY <1>10, <2>1, <2>2, <2>3
<1>13. b[1] = line /\ a[k] = line
  BY <1>7, <1>8, <1>10
<1>14. Pushed(a, b, n, line, k)
  <2>1. (\A w \in 1 .. k - 1 : b[w + 1] = a[w]) /\ (\A w \in k + 1 .. n : b[w] = a[w])
    BY <1>11, <1>12
  <2> QED
    BY <1>7, <1>13, <2>1 DEF Pushed
<1> QED
  BY <1>2, <1>7, <1>14

\* What a miss brings in pushes the oldest line out, whichever the policy.
LEMMA ReplacedIsPushed ==
  ASSUME NEW c \in CacheLevel, NEW set, SetOK(c, set), NEW line \in Nat,
         line \notin Range(set.tags),
         NEW a, a = Aged(c, set), NEW b, b = Aged(c, Replaced(c, set, line))
  PROVE  Pushed(a, b, c.ways, line, c.ways)
<1>1. PICK tags : tags = set.tags
  OBVIOUS
<1>2. PICK n \in Nat \ {0} : n = c.ways
  BY DEF CacheLevel
<1>3. tags \in Seq(Nat) /\ Len(tags) = n /\ set.next \in 1 .. n
  BY <1>1, <1>2 DEF SetOK
<1>4. \A w \in 1 .. n : a[w] # line
  <2>0. /\ a \in [1 .. c.ways -> Nat] /\ c.ways \in Nat \ {0}
        /\ Range(set.tags) = LinesIn(a, c.ways)
    BY AgedFacts
  <2>1. Range(tags) = {a[w] : w \in 1 .. n}
    BY <1>1, <1>2, <2>0 DEF LinesIn
  <2> QED
    BY <1>1, <2>1
<1>5. b[1] = line /\ \A w \in 1 .. n - 1 : b[w + 1] = a[w]
  <2>1. CASE c.policy = "lru"
    <3>1. PICK q : q = <<line>> \o SubSeq(tags, 1, n - 1)
      OBVIOUS
    <3>2. Replaced(c, set, line).tags = q
      BY <1>1, <1>2, <2>1, <3>1 DEF Replaced, SetOK
    <3>3. q[1] = line /\ \A w \in 1 .. n - 1 : q[w + 1] = tags[w]
      <4>1. PICK r : r = SubSeq(tags, 1, n - 1)
        OBVIOUS
      <4>2. r \in Seq(Nat) /\ Len(r) = n - 1 /\ \A w \in 1 .. n - 1 : r[w] = tags[w]
        BY <1>3, <4>1
      <4> QED
        BY <3>1, <4>1, <4>2
    <3>4. a = [w \in 1 .. n |-> tags[w]] /\ b = [w \in 1 .. n |-> q[w]]
      BY <1>1, <1>2, <2>1, <3>2 DEF Aged, Place
    <3> QED
      BY <3>3, <3>4
  <2>2. CASE c.policy # "lru"
    <3>1. PICK e : e = set.next
      OBVIOUS
    <3>2. PICK f : f = IF e = 1 THEN n ELSE e - 1
      OBVIOUS
    <3>3. PICK q : q = [tags EXCEPT ![e] = line]
      OBVIOUS
    <3>4. Replaced(c, set, line) = [tags |-> q, next |-> f]
      BY <1>1, <1>2, <2>2, <3>1, <3>2, <3>3 DEF Replaced
    <3>5. /\ e \in 1 .. n /\ f \in 1 .. n
          /\ q[e] = line /\ \A j \in 1 .. n : j # e => q[j] = tags[j]
      BY <1>3, <3>1, <3>2, <3>3
    <3>6. /\ \A w \in 1 .. n : a[w] = tags[IF e + w > n THEN e + w - n ELSE e + w]
          /\ \A w \in 1 .. n : b[w] = q[IF f + w > n THEN f + w - n ELSE f + w]
      BY <1>1, <1>2, <2>2, <3>1, <3>4 DEF Aged, Place
    <3>7. b[1] = line
      <4>1. (IF f + 1 > n THEN f + 1 - n ELSE f + 1) = e
        BY <3>2, <3>5
      <4> QED
        BY <3>5, <3>6, <4>1
    <3>8. ASSUME NEW w \in 1 .. n - 1 PROVE b[w + 1] = a[w]
      <4>1. PICK j : j = IF e + w > n THEN e + w - n ELSE e + w
        OBVIOUS
      <4>2. (IF f + (w + 1) > n THEN f + (w + 1) - n ELSE f + (w + 1)) = j /\ j \in 1 .. n /\ j # e
        BY <3>2, <3>5, <4>1
      <4>3. w \in 1 .. n /\ w + 1 \in 1 .. n
        OBVIOUS
      <4>4. b[w + 1] = q[j] /\ a[w] = tags[j]
        BY <3>6, <4>1, <4>2, <4>3
      <4> QED
        BY <3>5, <4>2, <4>4
    <3> QED
      BY <3>7, <3>8
  <2> QED
    BY <2>1, <2>2
<1>6. n \in 1 .. n /\ n + 1 .. n = {}
  OBVIOUS
<1> QED
  BY <1>2, <1>4, <1>5, <1>6 DEF Pushed

-----------------------------------------------------------------------------
(* A set keeps the lines used last. *)

\* The lines that were used later and belong to the same of n sets.
Rivals(order, x, n) == {y \in Newer(order, x) : y % n = x % n}

\* Set i of n, with the tags a by age, has those before it in the order of use
\* before each line, and of a line that it has lost it has only newer ones.
KeepsNewest(a, ways, order, n, i) ==
  /\ \A w \in 1 .. ways : a[w] # 0 =>
       /\ a[w] \in Range(order) /\ a[w] % n = i
       /\ Rivals(order, a[w], n) = {a[v] : v \in 1 .. w - 1}
  /\ \A x \in Range(order) : x % n = i /\ (\A w \in 1 .. ways : a[w] # x) =>
       \A w \in 1 .. ways : a[w] \in Rivals(order, x, n)

OrderOK(order) == order \in Seq(Nat) /\ NoTwice(order) /\ 0 \notin Range(order)

\* What a use of line makes of the order.
MovedTo(order, p, line) ==
  /\ OrderOK(p) /\ Range(p) = Range(order) \cup {line} /\ Newer(p, line) = {}
  /\ \A x \in Range(order) \ {line} : Newer(p, x) = Newer(order, x) \cup {line}

\* The history variable recency records just that.
LEMMA MovedIsMovedTo ==
  ASSUME NEW order, OrderOK(order), NEW line \in Nat \ {0}, NEW p, p = Moved(order, line)
  PROVE  MovedTo(order, p, line)
<1>1. order \in Seq(Nat) /\ NoTwice(order) /\ line \in Nat
  BY DEF OrderOK
<1>2. /\ p \in Seq(Nat) /\ NoTwice(p) /\ Range(p) = Range(order) \cup {line}
      /\ Newer(p, line) = {}
      /\ \A x \in Range(order) \ {line} : Newer(p, x) = Newer(order, x) \cup {line}
  BY <1>1, MovedFacts
<1>3. 0 \notin Range(p)
  BY <1>2 DEF OrderOK
<1> QED
  BY <1>2, <1>3 DEF MovedTo, OrderOK

\* Of the lines of one set, a use of another set's line changes nothing.
LEMMA OtherSetKeeps ==
  ASSUME NEW a, NEW ways, NEW order, NEW n, NEW i, NEW line, NEW p,
         MovedTo(order, p, line), line % n # i, KeepsNewest(a, ways, order, n, i)
  PROVE  KeepsNewest(a, ways, p, n, i)
<1>1. \A x \in Range(order) : x % n = i => x # line /\ Rivals(p, x, n) = Rivals(order, x, n)
  BY DEF MovedTo, Rivals
<1>2. \A x \in Range(p) : x % n = i => x \in Range(order)
  BY DEF MovedTo
<1>3. Range(order) \subseteq Range(p)
  BY DEF MovedTo
<1> QED
  BY <1>1, <1>2, <1>3 DEF KeepsNewest

\* The lines in a set, and those lost, stay in order when one is pushed.
LEMMA PushKeeps ==
  ASSUME NEW ways \in Nat \ {0}, NEW a, NEW b, NEW order, NEW n, NEW line, NEW p,
         OrderOK(order), MovedTo(order, p, line),
         KeepsNewest(a, ways, order, n, line % n), NEW k, Pushed(a, b, ways, line, k)
  PROVE  KeepsNewest(b, ways, p, n, line % n)
<1> DEFINE i == line % n
<1>1. /\ k \in 1 .. ways /\ b[1] = line
      /\ \A w \in 1 .. k - 1 : b[w + 1] = a[w]
      /\ \A w \in k + 1 .. ways : b[w] = a[w]
      /\ a[k] = line \/ (k = ways /\ \A w \in 1 .. ways : a[w] # line)
  BY DEF Pushed
<1>2. \A w \in 1 .. ways : a[w] # 0 =>
        /\ a[w] \in Range(order) /\ a[w] % n = i
        /\ Rivals(order, a[w], n) = {a[v] : v \in 1 .. w - 1}
  BY DEF KeepsNewest
<1>3. \A x \in Range(order) : x # 0 /\ x \notin Rivals(order, x, n)
  <2> SUFFICES ASSUME NEW x \in Range(order) PROVE x # 0 /\ x \notin Newer(order, x)
    BY DEF Rivals
  <2>1. PICK j \in DOMAIN order : order[j] = x
    BY DEF Range
  <2>2. order[j] \notin Newer(order, order[j])
    BY <2>1, NewerAt DEF OrderOK
  <2> QED
    BY <2>1, <2>2 DEF OrderOK
<1>4. \A x \in Range(order) : x % n = i /\ x # line =>
        /\ x \in Range(p) /\ Rivals(p, x, n) = Rivals(order, x, n) \cup {line}
  BY DEF MovedTo, Rivals
<1>5. \A v, w \in 1 .. ways : v < w /\ a[w] # 0 => a[v] # a[w]
  <2> SUFFICES ASSUME NEW v \in 1 .. ways, NEW w \in 1 .. ways, v < w, a[w] # 0 PROVE a[v] # a[w]
    OBVIOUS
  <2>1. a[v] \in Rivals(order, a[w], n)
    <3>1. v \in 1 .. w - 1
      OBVIOUS
    <3> QED
      BY <1>2, <3>1
  <2>2. a[w] \notin Rivals(order, a[w], n)
    BY <1>2, <1>3
  <2> QED
    BY <2>1, <2>2
<1>6. ASSUME NEW w \in 1 .. ways, a[w] # 0, w # k PROVE a[w] # line
  <2>1. CASE a[k] = line
    <3>1. a[k] # a[w]
      BY <1>1, <1>5, <1>6, <2>1
    <3> QED
      BY <2>1, <3>1
  <2>2. CASE \A v \in 1 .. ways : a[v] # line
    BY <2>2
  <2> QED
    BY <1>1, <2>1, <2>2
<1>7. ASSUME NEW w \in 1 .. ways, b[w] # 0
      PROVE  /\ b[w] \in Range(p) /\ b[w] % n = i
             /\ Rivals(p, b[w], n) = {b[v] : v \in 1 .. w - 1}
  <2>1. CASE w = 1
    <3>1. line \in Range(p) /\ Newer(p, line) = {}
      BY DEF MovedTo
    <3>2. Rivals(p, line, n) = {} /\ {b[v] : v \in 1 .. w - 1} = {}
      BY <2>1, <3>1 DEF Rivals
    <3> QED
      BY <1>1, <2>1, <3>1, <3>2
  <2>2. CASE w # 1 /\ w <= k
    <3>1. PICK u : u = w - 1
      OBVIOUS
    <3>2. u \in 1 .. ways /\ u \in 1 .. k - 1 /\ u + 1 = w
      BY <1>1, <2>2, <3>1
    <3>3. b[w] = a[u]
      BY <1>1, <3>2
    <3>4. a[u] \in Range(order) /\ a[u] % n = i /\ Rivals(order, a[u], n) = {a[v] : v \in 1 .. u - 1}
      BY <1>2, <1>7, <3>2, <3>3
    <3>5. a[u] # line
      BY <1>6, <1>7, <3>2, <3>3, <1>1
    <3>6. a[u] \in Range(p) /\ Rivals(p, a[u], n) = {a[v] : v \in 1 .. u - 1} \cup {line}
      BY <1>4, <3>4, <3>5
    <3>7. {a[v] : v \in 1 .. u - 1} \cup {line} = {b[v] : v \in 1 .. w - 1}
      <4>1. ASSUME NEW v \in 1 .. u - 1 PROVE a[v] = b[v + 1] /\ v + 1 \in 1 .. w - 1
        BY <1>1, <3>2
      <4>2. ASSUME NEW v \in 1 .. w - 1, v # 1 PROVE b[v] = a[v - 1] /\ v - 1 \in 1 .. u - 1
        <5>1. v - 1 \in 1 .. k - 1 /\ (v - 1) + 1 = v /\ v - 1 \in 1 .. u - 1
          BY <2>2, <3>2, <4>2, <1>1
        <5> QED
          BY <1>1, <5>1
      <4>3. 1 \in 1 .. w - 1
        BY <2>2
      <4> QED
        BY <1>1, <4>1, <4>2, <4>3
    <3> QED
      BY <3>3, <3>4, <3>6, <3>7
  <2>3. CASE w > k
    <3>1. w \in k + 1 .. ways /\ b[w] = a[w]
      BY <1>1, <2>3
    <3>2. a[w] \in Range(order) /\ a[w] % n = i /\ Rivals(order, a[w], n) = {a[v] : v \in 1 .. w - 1}
      BY <1>2, <1>7, <3>1
    <3>3. a[w] # line
      BY <1>6, <1>7, <2>3, <3>1, <1>1
    <3>4. a[w] \in Range(p) /\ Rivals(p, a[w], n) = {a[v] : v \in 1 .. w - 1} \cup {line}
      BY <1>4, <3>2, <3>3
    <3>5. a[k] = line
      BY <1>1, <2>3
    <3>6. {a[v] : v \in 1 .. w - 1} \cup {line} = {b[v] : v \in 1 .. w - 1}
      <4>1. ASSUME NEW v \in 1 .. w - 1 PROVE a[v] \in {b[u] : u \in 1 .. w - 1}
        <5>1. CASE v < k
          <6>1. v \in 1 .. k - 1 /\ v + 1 \in 1 .. w - 1
            BY <1>1, <2>3, <5>1
          <6> QED
            BY <1>1, <6>1
        <5>2. CASE v = k
          <6>1. 1 \in 1 .. w - 1
            BY <1>1, <2>3
          <6> QED
            BY <1>1, <3>5, <5>2, <6>1
        <5>3. CASE v > k
          <6>1. v \in k + 1 .. ways
            BY <5>3, <1>1
          <6> QED
            BY <1>1, <6>1
        <5> QED
          BY <1>1, <5>1, <5>2, <5>3
      <4>2. ASSUME NEW v \in 1 .. w - 1 PROVE b[v] \in {a[u] : u \in 1 .. w - 1} \cup {line}
        <5>1. CASE v = 1
          BY <1>1, <5>1
        <5>2. CASE v # 1 /\ v <= k
          <6>1. v - 1 \in 1 .. k - 1 /\ (v - 1) + 1 = v /\ v - 1 \in 1 .. w - 1
            BY <5>2, <1>1
          <6>2. b[v] = a[v - 1]
            BY <1>1, <6>1
          <6> QED
            BY <6>1, <6>2
        <5>3. CASE v > k
          <6>1. v \in k + 1 .. ways
            BY <5>3, <1>1
          <6> QED
            BY <1>1, <6>1
        <5> QED
          BY <1>1, <5>1, <5>2, <5>3
      <4>3. line \in {b[v] : v \in 1 .. w - 1}
        BY <1>1, <2>3
      <4> QED
        BY <4>1, <4>2, <4>3
    <3> QED
      BY <3>1, <3>2, <3>4, <3>6
  <2> QED
    BY <1>1, <2>1, <2>2, <2>3
<1>8. ASSUME NEW w \in 1 .. ways
      PROVE  b[w] = line \/ \E v \in 1 .. ways : b[w] = a[v] /\ v # k
             \* every tag but the one pushed out is still there
  <2>1. CASE w = 1
    BY <1>1, <2>1
  <2>2. CASE w # 1 /\ w <= k
    <3>1. w - 1 \in 1 .. k - 1 /\ (w - 1) + 1 = w /\ w - 1 \in 1 .. ways /\ w - 1 # k
      BY <1>1, <2>2
    <3>2. b[w] = a[w - 1]
      BY <1>1, <3>1
    <3> QED
      BY <3>1, <3>2
  <2>3. CASE w > k
    <3>1. w \in k + 1 .. ways /\ w # k
      BY <1>1, <2>3
    <3> QED
      BY <1>1, <3>1
  <2> QED
    BY <1>1, <2>1, <2>2, <2>3
<1>9. ASSUME NEW v \in 1 .. ways, v # k PROVE \E w \in 1 .. ways : b[w] = a[v]
  <2>1. CASE v < k
    <3>1. v \in 1 .. k - 1 /\ v + 1 \in 1 .. ways
      BY <1>1, <2>1
    <3> QED
      BY <1>1, <3>1
  <2>2. CASE v > k
    <3>1. v \in k + 1 .. ways
      BY <1>1, <2>2
    <3> QED
      BY <1>1, <3>1
  <2> QED
    BY <1>1, <1>9, <2>1, <2>2
<1>10. ASSUME NEW x \in Range(p), x % n = i, \A w \in 1 .. ways : b[w] # x
       PROVE  \A w \in 1 .. ways : b[w] \in Rivals(p, x, n)
  <2>1. x # line /\ x \in Range(order)
    <3>1. x # line
      BY <1>1, <1>10
    <3> QED
      BY <1>10, <3>1 DEF MovedTo
  <2>2. Rivals(p, x, n) = Rivals(order, x, n) \cup {line}
    BY <1>4, <1>10, <2>1
  <2>3. \A v \in 1 .. ways : v # k => a[v] \in Rivals(order, x, n)
    <3>1. CASE \A w \in 1 .. ways : a[w] # x
      BY <1>10, <2>1, <3>1 DEF KeepsNewest
    <3>2. CASE \E w \in 1 .. ways : a[w] = x
      <4>1. a[k] = x
        BY <1>9, <1>10, <3>2
      <4>2. k = ways
        BY <1>1, <2>1, <4>1
      <4>3. x # 0
        BY <1>3, <2>1
      <4>4. Rivals(order, x, n) = {a[v] : v \in 1 .. ways - 1}
        BY <1>1, <1>2, <4>1, <4>2, <4>3
      <4>5. \A v \in 1 .. ways : v # k => v \in 1 .. ways - 1
        BY <4>2
      <4> QED
        BY <4>4, <4>5
    <3> QED
      BY <3>1, <3>2
  <2> QED
    BY <1>8, <2>2, <2>3
<1> QED
  BY <1>7, <1>10 DEF KeepsNewest

\* A list of n tags has at most n lines, and n if none is there twice.
LEMMA LinesCount ==
  ASSUME NEW a, NEW n \in Nat
  PROVE  /\ IsFiniteSet(LinesIn(a, n)) /\ Cardinality(LinesIn(a, n)) \in Nat
         /\ Cardinality(LinesIn(a, n)) <= n
         /\ (\A v, w \in 1 .. n : a[v] = a[w] => v = w) => Cardinality(LinesIn(a, n)) = n
<1>1. PICK T : T = LinesIn(a, n)
  OBVIOUS
<1>2. PICK g : g = [w \in 1 .. n |-> a[w]]
  OBVIOUS
<1>3. T = {a[w] : w \in 1 .. n}
  BY <1>1 DEF LinesIn
<1>4. g \in [1 .. n -> T] /\ \A y \in T : \E w \in 1 .. n : g[w] = y
  BY <1>2, <1>3
<1>5. g \in Surjection(1 .. n, T)
  BY <1>4 DEF Surjection
<1>6. IsFiniteSet(1 .. n) /\ Cardinality(1 .. n) = n
  BY FS_Interval
<1>7. /\ IsFiniteSet(T) /\ Cardinality(T) <= Cardinality(1 .. n)
      /\ Cardinality(T) = Cardinality(1 .. n) <=> g \in Injection(1 .. n, T)
  BY <1>5, <1>6, FS_Surjection
<1>8. Cardinality(T) \in Nat
  BY <1>7, FS_CardinalityType
<1>9. ASSUME \A v, w \in 1 .. n : a[v] = a[w] => v = w
      PROVE  g \in Injection(1 .. n, T)
  <2>1. \A v, w \in 1 .. n : g[v] = g[w] => v = w
    BY <1>2, <1>9
  <2> QED
    BY <1>4, <2>1 DEF Injection, IsInjective
<1> QED
  BY <1>1, <1>6, <1>7, <1>8, <1>9

-----------------------------------------------------------------------------
(* A level of a site. *)

LevelOK(c, x, order) ==
  /\ DOMAIN x = 0 .. c.sets - 1
  /\ OrderOK(order)
  /\ \A i \in 0 .. c.sets - 1 :
       SetOK(c, x[i]) /\ KeepsNewest(Aged(c, x[i]), c.ways, order, c.sets, i)

UsedBy(c, hit, type) == IF hit THEN c.policy = "lru" ELSE (type = "load" \/ c.allocates)

\* What a look-up does to the set of its line it does to the order of use.
LEMMA LevelKeeps ==
  ASSUME NEW c \in CacheLevel, NEW x, NEW order, LevelOK(c, x, order),
         NEW line \in Nat \ {0}, NEW type, NEW old, old = x[line % c.sets],
         NEW hit, hit = (line \in Range(old.tags)),
         NEW y, y = [x EXCEPT ![line % c.sets] = LineIn(c, old, hit, line, type)],
         NEW p, p = IF UsedBy(c, hit, type) THEN Moved(order, line) ELSE order
  PROVE  LevelOK(c, y, p)
<1>1. PICK n \in Nat \ {0} : n = c.sets
  BY DEF CacheLevel
<1>2. PICK ways \in Nat \ {0} : ways = c.ways
  BY DEF CacheLevel
<1>3. PICK j : j = line % n
  OBVIOUS
<1>4. j \in 0 .. n - 1
  BY <1>3, LineFacts
<1>5. PICK new : new = LineIn(c, old, hit, line, type)
  OBVIOUS
<1>6. /\ DOMAIN x = 0 .. n - 1 /\ OrderOK(order)
      /\ \A i \in 0 .. n - 1 : SetOK(c, x[i]) /\ KeepsNewest(Aged(c, x[i]), ways, order, n, i)
  BY <1>1, <1>2 DEF LevelOK
<1>7. SetOK(c, old) /\ KeepsNewest(Aged(c, old), ways, order, n, j) /\ old = x[j]
  BY <1>1, <1>3, <1>4, <1>6
<1>8. DOMAIN y = 0 .. n - 1 /\ y[j] = new /\ \A i \in 0 .. n - 1 : i # j => y[i] = x[i]
  BY <1>1, <1>3, <1>4, <1>5, <1>6
<1>9. CASE ~UsedBy(c, hit, type)
  <2>1. new = old /\ p = order
    BY <1>5, <1>9 DEF UsedBy, LineIn, Found
  <2>2. \A i \in 0 .. n - 1 : y[i] = x[i]
    BY <1>7, <1>8, <2>1
  <2> QED
    BY <1>1, <1>2, <1>6, <1>8, <2>1, <2>2 DEF LevelOK
<1>10. CASE UsedBy(c, hit, type)
  <2>1. MovedTo(order, p, line)
    <3>1. p = Moved(order, line)
      BY <1>10
    <3> QED
      BY <1>6, <3>1, MovedIsMovedTo
  <2>2. PICK a : a = Aged(c, old)
    OBVIOUS
  <2>3. PICK b : b = Aged(c, new)
    OBVIOUS
  <2>4. SetOK(c, new) /\ \E k \in 1 .. ways : Pushed(a, b, ways, line, k)
    <3>1. CASE hit
      <4>1. c.policy = "lru" /\ new = Found(c, old, line) /\ line \in Range(old.tags) /\ line \in Nat
        BY <1>5, <1>10, <3>1 DEF UsedBy, LineIn
      <4>2. SetOK(c, new)
        BY <1>7, <4>1, FoundFacts
      <4>3. \E k \in 1 .. c.ways : Pushed(a, b, c.ways, line, k)
        BY <1>7, <2>2, <2>3, <4>1, FoundIsPushed
      <4> QED
        BY <1>2, <4>2, <4>3
    <3>2. CASE ~hit
      <4>1. new = Replaced(c, old, line) /\ line \notin Range(old.tags) /\ line \in Nat
        BY <1>5, <1>10, <3>2 DEF UsedBy, LineIn
      <4>2. SetOK(c, new)
        BY <1>7, <4>1, ReplacedFacts
      <4>3. Pushed(a, b, c.ways, line, c.ways)
        BY <1>7, <2>2, <2>3, <4>1, ReplacedIsPushed
      <4>4. ways \in 1 .. ways
        OBVIOUS
      <4> QED
        BY <1>2, <4>2, <4>3, <4>4
    <3> QED
      BY <3>1, <3>2
  <2>5. KeepsNewest(b, ways, p, n, j)
    <3>1. PICK k : Pushed(a, b, ways, line, k)
      BY <2>4
    <3>2. KeepsNewest(a, ways, order, n, line % n)
      BY <1>3, <1>7, <2>2
    <3>3. KeepsNewest(b, ways, p, n, line % n)
      BY <1>6, <2>1, <3>1, <3>2, PushKeeps
    <3> QED
      BY <1>3, <3>3
  <2>6. ASSUME NEW i \in 0 .. n - 1
        PROVE  SetOK(c, y[i]) /\ KeepsNewest(Aged(c, y[i]), ways, p, n, i)
    <3>1. CASE i = j
      BY <1>8, <2>3, <2>4, <2>5, <3>1
    <3>2. CASE i # j
      <4>1. PICK z : z = Aged(c, x[i])
        OBVIOUS
      <4>2. KeepsNewest(z, ways, order, n, i) /\ line % n # i
        BY <1>3, <1>6, <3>2, <4>1
      <4>3. KeepsNewest(z, ways, p, n, i)
        BY <2>1, <4>2, OtherSetKeeps
      <4> QED
        BY <1>6, <1>8, <3>2, <4>1, <4>3
    <3> QED
      BY <3>1, <3>2
  <2>7. OrderOK(p)
    BY <2>1 DEF MovedTo
  <2> QED
    BY <1>1, <1>2, <1>8, <2>6, <2>7 DEF LevelOK
<1> QED
  BY <1>9, <1>10

\* The lines that belong to set i of a cache c and were used last, one for each way.
UsedLast(order, c, i) ==
  {order[k] : k \in {k \in DOMAIN order :
     /\ order[k] % c.sets = i
     /\ Cardinality({order[j] : j \in {j \in 1 .. k - 1 : order[j] % c.sets = i}}) < c.ways}}

\* What is kept are those lines that fewer than a set has ways were used after.
LEMMA LevelHasNewest ==
  ASSUME NEW c \in CacheLevel, NEW x, NEW order, LevelOK(c, x, order), NEW i \in DOMAIN x
  PROVE  Range(x[i].tags) \ {0} = UsedLast(order, c, i)
<1>1. PICK n \in Nat \ {0} : n = c.sets
  BY DEF CacheLevel
<1>2. PICK ways \in Nat \ {0} : ways = c.ways
  BY DEF CacheLevel
<1>3. PICK a : a = Aged(c, x[i])
  OBVIOUS
<1>4. /\ OrderOK(order) /\ SetOK(c, x[i]) /\ KeepsNewest(a, ways, order, n, i)
  BY <1>1, <1>2, <1>3 DEF LevelOK
<1>5. Range(x[i].tags) = LinesIn(a, ways)
  <2>1. PICK set : set = x[i]
    OBVIOUS
  <2>2. /\ a \in [1 .. c.ways -> Nat] /\ c.ways \in Nat \ {0}
        /\ Range(set.tags) = LinesIn(a, c.ways)
    BY <1>3, <1>4, <2>1, AgedFacts
  <2> QED
    BY <1>2, <2>1, <2>2
<1> DEFINE Later(k) == {order[j] : j \in {j \in 1 .. k - 1 : order[j] % n = i}}
<1>6. ASSUME NEW k \in DOMAIN order, order[k] % n = i
      PROVE  /\ Later(k) = Rivals(order, order[k], n) /\ order[k] \notin Later(k)
             /\ Later(k) \subseteq Range(order)
  <2>1. /\ Newer(order, order[k]) = {order[j] : j \in 1 .. k - 1}
        /\ order[k] \notin Newer(order, order[k]) /\ Newer(order, order[k]) \subseteq Range(order)
    BY <1>4, NewerAt DEF OrderOK
  <2>2. Rivals(order, order[k], n) = {y \in {order[j] : j \in 1 .. k - 1} : y % n = i}
    BY <1>6, <2>1 DEF Rivals
  <2>3. Later(k) = Rivals(order, order[k], n)
    BY <2>2
  <2> QED
    BY <2>1, <2>3 DEF Rivals
<1>7. ASSUME NEW k \in DOMAIN order
      PROVE  IsFiniteSet(Later(k)) /\ Cardinality(Later(k)) \in Nat
  <2>1. k - 1 \in Nat
    BY <1>4 DEF OrderOK
  <2>2. IsFiniteSet(LinesIn(order, k - 1))
    BY <2>1, LinesCount
  <2>3. Later(k) \in SUBSET LinesIn(order, k - 1)
    BY DEF LinesIn
  <2> HIDE DEF Later
  <2> QED
    BY <2>2, <2>3, FS_Subset, FS_CardinalityType
<1> HIDE DEF Later
<1>8. ASSUME NEW w \in 1 .. ways, a[w] # 0
      PROVE  \E k \in DOMAIN order : /\ a[w] = order[k] /\ order[k] % n = i
                                     /\ Cardinality(Later(k)) < ways
  <2>1. /\ a[w] \in Range(order) /\ a[w] % n = i
        /\ Rivals(order, a[w], n) = {a[v] : v \in 1 .. w - 1}
    BY <1>4, <1>8 DEF KeepsNewest
  <2>2. PICK k \in DOMAIN order : order[k] = a[w]
    BY <2>1 DEF Range
  <2>3. Later(k) = LinesIn(a, w - 1)
    BY <1>6, <2>1, <2>2 DEF LinesIn
  <2>4. w - 1 \in Nat /\ w - 1 < ways
    OBVIOUS
  <2>5. Cardinality(LinesIn(a, w - 1)) \in Nat /\ Cardinality(LinesIn(a, w - 1)) <= w - 1
    BY <2>4, LinesCount
  <2>6. Cardinality(Later(k)) < ways
    BY <2>3, <2>4, <2>5
  <2> QED
    BY <2>1, <2>2, <2>6
<1>9. ASSUME NEW k \in DOMAIN order, order[k] % n = i, Cardinality(Later(k)) < ways
      PROVE  \E w \in 1 .. ways : a[w] = order[k]
  <2> SUFFICES ASSUME \A w \in 1 .. ways : a[w] # order[k] PROVE FALSE
    OBVIOUS
  <2>1. order[k] \in Range(order)
    BY DEF Range
  <2>2. \A w \in 1 .. ways : a[w] \in Rivals(order, order[k], n)
    BY <1>4, <1>9, <2>1 DEF KeepsNewest
  <2>3. \A w \in 1 .. ways : a[w] \in Later(k) /\ a[w] \in Range(order) /\ a[w] # 0
    BY <1>4, <1>6, <1>9, <2>2 DEF OrderOK
  <2>4. \A v, w \in 1 .. ways : v < w => a[v] # a[w]
    <3> SUFFICES ASSUME NEW v \in 1 .. ways, NEW w \in 1 .. ways, v < w PROVE a[v] # a[w]
      OBVIOUS
    <3>1. /\ a[w] \in Range(order) /\ a[w] % n = i
          /\ Rivals(order, a[w], n) = {a[u] : u \in 1 .. w - 1}
      BY <1>4, <2>3 DEF KeepsNewest
    <3>2. PICK h \in DOMAIN order : order[h] = a[w]
      BY <3>1 DEF Range
    <3>3. a[w] \notin Rivals(order, a[w], n)
      BY <1>6, <3>1, <3>2
    <3>4. v \in 1 .. w - 1
      OBVIOUS
    <3> QED
      BY <3>1, <3>3, <3>4
  <2>5. \A v, w \in 1 .. ways : a[v] = a[w] => v = w
    <3> SUFFICES ASSUME NEW v \in 1 .. ways, NEW w \in 1 .. ways, v # w PROVE a[v] # a[w]
      OBVIOUS
    <3>1. v < w \/ w < v
      OBVIOUS
    <3> QED
      BY <2>4, <3>1
  <2>6. Cardinality(LinesIn(a, ways)) = ways
    BY <2>5, LinesCount
  <2>7. LinesIn(a, ways) \in SUBSET Later(k)
    BY <2>3 DEF LinesIn
  <2>8. Cardinality(LinesIn(a, ways)) <= Cardinality(Later(k)) /\ Cardinality(Later(k)) \in Nat
    BY <1>7, <2>7, FS_Subset
  <2> QED
    BY <1>9, <2>6, <2>8
<1>10. \A k \in DOMAIN order : order[k] # 0
  BY <1>4 DEF OrderOK, Range
<1>11. LinesIn(a, ways) \ {0} =
         {order[k] : k \in {k \in DOMAIN order : order[k] % n = i /\ Cardinality(Later(k)) < ways}}
  BY <1>8, <1>9, <1>10 DEF LinesIn
<1> QED
  BY <1>1, <1>2, <1>5, <1>11 DEF Later, UsedLast

-----------------------------------------------------------------------------
(* What a reference does at one site. *)

KeepOK(m) ==
  /\ {"cache", "recency"} \subseteq DOMAIN m
  /\ DOMAIN m.cache = Sites /\ DOMAIN m.recency = Sites
  /\ \A s \in Sites : \A l \in CachesOf(s) : LevelOK(hierarchy[s][l], m.cache[s][l], m.recency[s][l])

\* Whatever levels an access reaches, each keeps the lines used last.
LEMMA AccessStays ==
  ASSUME HierarchyOK, NEW m, KeepOK(m), NEW s \in Sites, NEW top, NEW line \in Nat \ {0}, NEW ref
  PROVE  KeepOK(AccessSingleLine(m, s, top, line, ref))
<1> DEFINE n == AccessSingleLine(m, s, top, line, ref)
           type == Type(ref)
           reached == Reached(m, s, top, line, type)
<1>1. /\ {"cache", "recency"} \subseteq DOMAIN n
      /\ n.cache = CacheAfter(m, s, reached, line, type)
      /\ n.recency = [m.recency EXCEPT ![s] =
           [l \in CachesOf(s) |-> IF l \in reached /\ Used(m, s, l, line, type)
                                  THEN Moved(m.recency[s][l], line) ELSE m.recency[s][l]]]
  BY DEF AccessSingleLine
<1>2. n.cache = [m.cache EXCEPT ![s] =
                   [l \in CachesOf(s) |->
                      IF l \in reached
                      THEN [m.cache[s][l] EXCEPT ![line % hierarchy[s][l].sets] =
                              LineIn(hierarchy[s][l], @, Holds(m, s, l, line), line, type)]
                      ELSE m.cache[s][l]]]
  BY <1>1 DEF CacheAfter
<1> HIDE DEF n, reached, type
<1>3. /\ DOMAIN n.cache = Sites /\ DOMAIN n.recency = Sites
      /\ \A u \in Sites \ {s} : n.cache[u] = m.cache[u] /\ n.recency[u] = m.recency[u]
  BY <1>1, <1>2 DEF KeepOK
<1>4. ASSUME NEW l \in CachesOf(s)
      PROVE  LevelOK(hierarchy[s][l], n.cache[s][l], n.recency[s][l])
  <2>1. PICK c : c = hierarchy[s][l]
    OBVIOUS
  <2>2. PICK x : x = m.cache[s][l]
    OBVIOUS
  <2>3. PICK order : order = m.recency[s][l]
    OBVIOUS
  <2>4. c \in CacheLevel /\ l # "MEM" /\ LevelOK(c, x, order)
    BY <2>1, <2>2, <2>3 DEF HierarchyOK, Site, CachesOf, Caches, KeepOK
  <2>5. PICK old : old = x[line % c.sets]
    OBVIOUS
  <2>6. PICK hit : hit = (line \in Range(old.tags))
    OBVIOUS
  <2>7. Holds(m, s, l, line) = hit
    <3>1. SetOf(m, s, l, line) = old
      BY <2>1, <2>2, <2>5 DEF SetOf
    <3>2. l # "MEM"
      BY <2>4
    <3>3. (l = "MEM" \/ line \in Range(old.tags)) = (line \in Range(old.tags))
      BY <3>2
    <3> QED
      BY <2>6, <3>1, <3>3 DEF Holds
  <2>8. PICK y : y = n.cache[s][l]
    OBVIOUS
  <2>9. PICK p : p = n.recency[s][l]
    OBVIOUS
  <2>10. /\ y = IF l \in reached THEN [x EXCEPT ![line % c.sets] = LineIn(c, @, hit, line, type)] ELSE x
         /\ p = IF l \in reached /\ Used(m, s, l, line, type) THEN Moved(order, line) ELSE order
    BY <1>1, <1>2, <2>1, <2>2, <2>3, <2>7, <2>8, <2>9 DEF KeepOK
  <2>11. CASE l \in reached
    <3>1. y = [x EXCEPT ![line % c.sets] = LineIn(c, old, hit, line, type)]
      BY <2>5, <2>10, <2>11
    <3>2. Used(m, s, l, line, type) <=> UsedBy(c, hit, type)
      BY <2>1, <2>7 DEF Used, UsedBy, Allocates
    <3>3. p = IF UsedBy(c, hit, type) THEN Moved(order, line) ELSE order
      BY <2>10, <2>11, <3>2
    <3>4. LevelOK(c, y, p)
      BY <2>4, <2>5, <2>6, <3>1, <3>3, LevelKeeps
    <3> QED
      BY <2>1, <2>8, <2>9, <3>4
  <2>12. CASE l \notin reached
    BY <2>1, <2>4, <2>8, <2>9, <2>10, <2>12
  <2> QED
    BY <2>11, <2>12
<1> QED
  BY <1>1, <1>3, <1>4 DEF KeepOK, n

\* No line is 0, which stands for an empty way.
LEMMA LinesArePositive ==
  ASSUME NEW ref \in References
  PROVE  LineOf(ref.addr) \in Nat \ {0} /\ NextLine(ref.addr) \in Nat \ {0}
<1>1. ref.addr \in Nat /\ LineSize \in Nat \ {0} /\ ref.addr >= LineSize
  BY ReferenceAssumption DEF Reference
<1>2. LineOf(ref.addr) \in Nat
  BY ReferenceLines
<1>3. LineOf(ref.addr) # 0
  <2>1. PICK q, e : q = ref.addr \div LineSize /\ e = ref.addr % LineSize
    OBVIOUS
  <2>2. ref.addr = LineSize * q + e /\ e < LineSize
    BY <1>1, <2>1
  <2>3. ASSUME q = 0 PROVE FALSE
    <3>1. LineSize * q = 0
      BY <1>1, <2>3
    <3>2. e \in Nat /\ 0 + e = e
      BY <1>1, <2>1
    <3> QED
      BY <1>1, <2>2, <3>1, <3>2
  <2> QED
    BY <2>1, <2>3 DEF LineOf
<1> QED
  BY <1>2, <1>3 DEF NextLine

\* A fetch at a site with caches makes up to two accesses.
LEMMA FetchStays ==
  ASSUME HierarchyOK, NEW m, KeepOK(m), NEW s \in Sites, NEW ref \in References
  PROVE  KeepOK(Fetch(m, s, ref))
<1> DEFINE first == AccessIf(LineOf(ref.addr) # m.last_icacheline[s],
                             m, s, "IL1", LineOf(ref.addr), ref)
           second == AccessIf(Crosses(ref), first, s, "IL1", NextLine(ref.addr), ref)
           n == [second EXCEPT !.last_icacheline[s] = LastLine(ref)]
<1>1. KeepOK(first)
  <2>1. first \in {AccessSingleLine(m, s, "IL1", LineOf(ref.addr), ref), m}
    BY DEF AccessIf
  <2> QED
    BY <2>1, AccessStays, LinesArePositive
<1> HIDE DEF first
<1>2. KeepOK(second)
  <2>1. second \in {AccessSingleLine(first, s, "IL1", NextLine(ref.addr), ref), first}
    BY DEF AccessIf
  <2> QED
    BY <1>1, <2>1, AccessStays, LinesArePositive
<1>3. Fetch(m, s, ref) = n
  BY DEF Fetch, first
<1> HIDE DEF second
<1>4. n.cache = second.cache /\ n.recency = second.recency /\ DOMAIN n = DOMAIN second
  BY <1>2 DEF KeepOK
<1> HIDE DEF n
<1> QED
  BY <1>2, <1>3, <1>4 DEF KeepOK

\* However many accesses a fetch makes, the caches keep the lines used last.
LEMMA OutcomeStays ==
  ASSUME HierarchyOK, NEW m, KeepOK(m), NEW s \in Sites, NEW ref \in References,
         NEW n \in FetchOutcomes(m, s, ref)
  PROVE  KeepOK(n)
<1> DEFINE once == AccessSingleLine(m, s, "MEM", LineOf(ref.addr), ref)
           twice == AccessSingleLine(once, s, "MEM", NextLine(ref.addr), ref)
<1>1. n \in {Fetch(m, s, ref), m, once, twice}
  BY DEF FetchOutcomes
<1>2. KeepOK(once)
  BY AccessStays, LinesArePositive
<1> HIDE DEF once
<1>3. KeepOK(twice)
  BY <1>2, AccessStays, LinesArePositive
<1> QED
  BY <1>1, <1>2, <1>3, FetchStays

\* A load or store makes one access or two.
LEMMA DataStays ==
  ASSUME HierarchyOK, NEW m, KeepOK(m), NEW s \in Sites, NEW ref \in References
  PROVE  KeepOK(Access(m, s, ref))
<1> DEFINE top == Top(s, "DL1")
           first == AccessSingleLine(m, s, top, LineOf(ref.addr), ref)
           second == AccessSingleLine(first, s, top, NextLine(ref.addr), ref)
<1>1. Access(m, s, ref) \in {first, second}
  BY DEF Access, AccessIf
<1> HIDE DEF top
<1>2. KeepOK(first)
  BY AccessStays, LinesArePositive
<1> HIDE DEF first
<1>3. KeepOK(second)
  BY <1>2, AccessStays, LinesArePositive
<1> QED
  BY <1>1, <1>2, <1>3

-----------------------------------------------------------------------------
(* The invariant of the whole program. *)

KeepInv == HierarchyOK /\ KeepOK(State)

\* An empty cache has used no line.
LEMMA KeepInit == Init => KeepInv
<1> SUFFICES ASSUME Init PROVE KeepInv
  OBVIOUS
<1>1. HierarchyOK
  BY HierarchyAssumption DEF Init, HierarchyOK
<1>2. State.cache = cache /\ State.recency = recency /\ {"cache", "recency"} \subseteq DOMAIN State
  BY DEF State
<1>3. DOMAIN cache = Sites /\ DOMAIN recency = Sites
  BY DEF Init
<1>4. ASSUME NEW s \in Sites, NEW l \in CachesOf(s)
      PROVE  LevelOK(hierarchy[s][l], cache[s][l], recency[s][l])
  <2>1. PICK c : c = hierarchy[s][l]
    OBVIOUS
  <2>2. c \in CacheLevel
    BY <1>1, <2>1 DEF HierarchyOK, Site, CachesOf
  <2>3. cache[s][l] = [i \in 0 .. c.sets - 1 |-> EmptySet(c)] /\ recency[s][l] = << >>
    BY <2>1 DEF Init
  <2>4. OrderOK(<< >>) /\ Range(<< >>) = {}
    BY DEF OrderOK, NoTwice, Range
  <2>5. PICK set : set = EmptySet(c)
    OBVIOUS
  <2>6. SetOK(c, set) /\ \A w \in 1 .. c.ways : set.tags[w] = 0
    <3>1. PICK n \in Nat \ {0} : n = c.ways
      BY <2>2 DEF CacheLevel
    <3>2. PICK tags : tags = [w \in 1 .. n |-> 0]
      OBVIOUS
    <3>3. tags \in Seq(Nat) /\ Len(tags) = n /\ \A w \in 1 .. n : tags[w] = 0
      BY <3>2
    <3>4. set = [tags |-> tags, next |-> n]
      BY <2>5, <3>1, <3>2 DEF EmptySet
    <3>5. n \in 1 .. n
      OBVIOUS
    <3> QED
      BY <3>1, <3>3, <3>4, <3>5 DEF SetOK
  <2>7. PICK a : a = Aged(c, set)
    OBVIOUS
  <2>8. \A w \in 1 .. c.ways : a[w] = 0
    <3>1. /\ a \in [1 .. c.ways -> Nat] /\ c.ways \in Nat \ {0}
          /\ Range(set.tags) = LinesIn(a, c.ways)
      BY <2>2, <2>6, <2>7, AgedFacts
    <3>2. \A y \in Range(set.tags) : y = 0
      BY <2>6 DEF SetOK, Range
    <3> QED
      BY <3>1, <3>2 DEF LinesIn
  <2>9. \A n, i : KeepsNewest(a, c.ways, << >>, n, i)
    BY <2>4, <2>8 DEF KeepsNewest
  <2>10. LevelOK(c, cache[s][l], << >>)
    BY <2>3, <2>4, <2>5, <2>6, <2>7, <2>9 DEF LevelOK
  <2> QED
    BY <2>1, <2>3, <2>10
<1> QED
  BY <1>1, <1>2, <1>3, <1>4 DEF KeepInv, KeepOK

\* The invariant is about what a reference leaves, whatever else it changed.
LEMMA KeepBecome ==
  ASSUME HierarchyOK, UNCHANGED hierarchy, NEW n, KeepOK(n),
         cache' = n.cache, recency' = n.recency
  PROVE  KeepInv'
<1>1. /\ State'.cache = n.cache /\ State'.recency = n.recency
      /\ {"cache", "recency"} \subseteq DOMAIN State'
  BY DEF State
<1>2. \A s : CachesOf(s)' = CachesOf(s)
  BY DEF CachesOf
<1>3. KeepOK(State)'
  BY <1>1, <1>2 DEF KeepOK
<1>4. HierarchyOK'
  BY DEF HierarchyOK
<1> QED
  BY <1>3, <1>4 DEF KeepInv

\* Both kinds of references keep the lines used last.
LEMMA KeepStep == KeepInv /\ [Next]_vars => KeepInv'
<1> SUFFICES ASSUME KeepInv, [Next]_vars PROVE KeepInv'
  OBVIOUS
<1>1. HierarchyOK /\ KeepOK(State) /\ "CPU" \in Sites /\ "PIM" \in Sites
  BY DEF KeepInv, Sites
<1>2. ASSUME NEW ref \in References, InstrCacheRef(ref) PROVE KeepInv'
  <2>1. PICK m \in FetchOutcomes(State, "CPU", ref) :
          \E n \in FetchOutcomes(m, "PIM", ref) : Become(n)
    BY <1>2 DEF InstrCacheRef
  <2>2. PICK n \in FetchOutcomes(m, "PIM", ref) : Become(n)
    BY <2>1
  <2>3. KeepOK(m)
    BY <1>1, OutcomeStays
  <2>4. KeepOK(n)
    BY <1>1, <2>3, OutcomeStays
  <2>5. cache' = n.cache /\ recency' = n.recency /\ UNCHANGED hierarchy
    BY <1>2, <2>2 DEF Become, InstrCacheRef
  <2> QED
    BY <1>1, <2>4, <2>5, KeepBecome
<1>3. ASSUME NEW ref \in References, DataCacheRef(ref) PROVE KeepInv'
  <2>1. PICK m : m = Access(State, "CPU", ref)
    OBVIOUS
  <2>2. PICK n : n = Access(m, "PIM", ref)
    OBVIOUS
  <2>3. KeepOK(m)
    BY <1>1, <2>1, DataStays
  <2>4. KeepOK(n)
    BY <1>1, <2>2, <2>3, DataStays
  <2>5. cache' = n.cache /\ recency' = n.recency /\ UNCHANGED hierarchy
    BY <1>3, <2>1, <2>2 DEF Become, DataCacheRef
  <2> QED
    BY <1>1, <2>4, <2>5, KeepBecome
<1>4. CASE UNCHANGED vars
  <2>1. UNCHANGED <<hierarchy, cache, recency>>
    BY <1>4 DEF vars
  <2>2. cache' = State.cache /\ recency' = State.recency
    BY <2>1 DEF State
  <2> QED
    BY <1>1, <2>1, <2>2, KeepBecome
<1> QED
  BY <1>2, <1>3, <1>4 DEF Next

\* Every set of every cache has the order of use in its tags, newest first.
THEOREM KeepInvariant == Spec => []KeepInv
BY KeepInit, KeepStep, PTL DEF Spec

\* Whatever the policies, sets and ways, each set keeps the lines used last
\* (Storage.h:154-345).
THEOREM KeepsTheorem == Spec => []KeepsMostRecent
<1>1. KeepInv => KeepsMostRecent
  <2> SUFFICES ASSUME KeepInv, NEW s \in Sites, NEW l \in CachesOf(s), NEW i \in DOMAIN cache[s][l]
               PROVE  Range(cache[s][l][i].tags) \ {0} = UsedLast(recency[s][l], hierarchy[s][l], i)
    BY DEF KeepsMostRecent, UsedLast
  <2>0. PICK c, order : c = hierarchy[s][l] /\ order = recency[s][l]
    OBVIOUS
  <2>1. PICK x : x = cache[s][l]
    OBVIOUS
  <2>2. c \in CacheLevel /\ LevelOK(c, x, order)
    BY <2>0, <2>1 DEF KeepInv, KeepOK, State, HierarchyOK, Site, CachesOf
  <2>3. Range(x[i].tags) \ {0} = UsedLast(order, c, i)
    BY <2>1, <2>2, LevelHasNewest
  <2> QED
    BY <2>0, <2>1, <2>3
<1> QED
  BY <1>1, KeepInvariant, PTL

-----------------------------------------------------------------------------
(* The order of the blocks in the trie. *)

BlockIds == Bbls \cup {GLOBAL_BBLID}
ById == [b \in BlockIds |-> b]
RisesById(s, n) == RisesBy(ById, s, n)

\* Blocks are ordered by their ids.
LEMMA IdFacts ==
  \A g, h \in BlockIds : ById[g] \in Int /\ (ById[g] = ById[h] => g = h)
BY BblAssumption DEF BlockIds, ById

\* The trie counts the blocks of a segment as everyone does.
LEMMA TrieCardinality == \A S : Trie!Cardinality(S) = Cardinality(S)
BY DEF Trie!Cardinality, Cardinality

\* The set of a segment, as the trie walks it.
LEMMA SortedFacts ==
  ASSUME NEW S \in SUBSET BlockIds, IsFiniteSet(S)
  PROVE  /\ Trie!Sorted(S) \in [1 .. Cardinality(S) -> S]
         /\ RisesById(Trie!Sorted(S), Cardinality(S))
         /\ \A x \in S : \E i \in 1 .. Cardinality(S) : Trie!Sorted(S)[i] = x
<1>1. Ranks(ById, S)
  BY IdFacts DEF Ranks
<1>2. PICK n, s : n = Cardinality(S) /\ s = Trie!Sorted(S)
  OBVIOUS
<1>3. s = CHOOSE f \in [1 .. n -> S] : \A i, j \in DOMAIN f : i < j => ById[f[i]] < ById[f[j]]
  BY <1>2, TrieCardinality DEF Trie!Sorted, Trie!RankBelow, ById, BlockIds
<1>4. PICK f \in [1 .. n -> S] : RisesBy(ById, f, n)
  BY <1>1, <1>2, SortedExists
<1>5. \A i, j \in DOMAIN f : i < j => ById[f[i]] < ById[f[j]]
  BY <1>4 DEF RisesBy
<1>6. s \in [1 .. n -> S] /\ \A i, j \in DOMAIN s : i < j => ById[s[i]] < ById[s[j]]
  BY <1>3, <1>5
<1>7. s \in [1 .. n -> S] /\ RisesBy(ById, s, n)
  BY <1>6 DEF RisesBy
<1>8. s \in [1 .. Cardinality(S) -> S] /\ RisesBy(ById, s, Cardinality(S))
  BY <1>2, <1>7
<1>9. \A x \in S : \E i \in 1 .. Cardinality(S) : s[i] = x
  BY <1>1, <1>8, SortedHasAll
<1> QED
  BY <1>2, <1>8, <1>9 DEF RisesById

-----------------------------------------------------------------------------
(* What the trie and _leaves look like. *)

Before(p) == Len(p) - 1

\* The path of a recorded segment: it rises to the last but one element, and the
\* last one is in it already.
IsLeafPath(p) ==
  /\ p \in Seq(BlockIds) /\ Len(p) >= 2
  /\ RisesById(p, Before(p))
  /\ \E k \in 1 .. Before(p) : p[Len(p)] = p[k]

StartsWith(p, node) ==
  /\ Len(node) <= Len(p)
  /\ \A i \in 1 .. Len(node) : node[i] = p[i]

\* Every node is on the way to a leaf, and each leaf is listed once.
TrieOK(rt, lvs) ==
  /\ DOMAIN rt.count \subseteq rt.nodes
  /\ \A p \in DOMAIN rt.count : IsLeafPath(p)
  /\ \A node \in rt.nodes :
       node \in Seq(BlockIds) /\ (node = << >> \/ \E p \in DOMAIN rt.count : StartsWith(p, node))
  /\ lvs \in Seq(Seq(BlockIds))
  /\ \A i, j \in DOMAIN lvs : lvs[i] = lvs[j] => i = j
  /\ Range(lvs) = DOMAIN rt.count

SegOK(seg) ==
  /\ seg \in Trie!Segment /\ IsFiniteSet(seg.set)
  /\ seg.set # {} => seg.head \in seg.set

\* No leaf lies on the way to another one.
LEMMA LeavesAreApart ==
  ASSUME NEW p, NEW q, IsLeafPath(p), IsLeafPath(q), StartsWith(q, p)
  PROVE  p = q
<1>1. p \in Seq(BlockIds) /\ q \in Seq(BlockIds) /\ Len(p) \in Nat /\ Len(q) \in Nat
  BY DEF IsLeafPath
<1>2. Len(p) = Len(q)
  <2> SUFFICES ASSUME Len(p) < Len(q) PROVE FALSE
    BY <1>1 DEF StartsWith
  <2>1. PICK k \in 1 .. Before(p) : p[Len(p)] = p[k]
    BY DEF IsLeafPath
  <2>2. k < Len(p) /\ k \in 1 .. Before(q) /\ Len(p) \in 1 .. Before(q)
    BY <1>1, <2>1 DEF Before, IsLeafPath
  <2>3. ById[q[k]] < ById[q[Len(p)]]
    BY <2>2 DEF IsLeafPath, RisesById, RisesBy
  <2>4. q[k] = q[Len(p)] /\ q[k] \in BlockIds
    BY <1>1, <2>1, <2>2 DEF StartsWith, Before
  <2> QED
    BY <2>3, <2>4, IdFacts
<1> QED
  BY <1>1, <1>2 DEF StartsWith

\* What UpdateTrie writes for a segment has the form of a leaf's path.
LEMMA LeafPathFacts ==
  ASSUME NEW seg, SegOK(seg), Trie!Recorded(seg)
  PROVE  IsLeafPath(Trie!LeafPath(seg))
<1> DEFINE n == Cardinality(seg.set)
           s == Trie!Sorted(seg.set)
           p == Trie!LeafPath(seg)
<1> USE DEF Trie!Segment
<1>1. n \in Nat /\ n > 1
  BY TrieCardinality, FS_CardinalityType DEF SegOK, Trie!Recorded
<1>2. /\ s \in [1 .. n -> seg.set] /\ RisesById(s, n)
      /\ \A x \in seg.set : \E i \in 1 .. n : s[i] = x
  <2>1. seg.set \in SUBSET BlockIds /\ IsFiniteSet(seg.set)
    BY DEF SegOK, BlockIds
  <2> QED
    BY <2>1, SortedFacts
<1>3. seg.head \in seg.set /\ seg.set \subseteq BlockIds
  BY <1>1, FS_EmptySet DEF SegOK, BlockIds
<1>4. p = Append(s, seg.head)
  BY DEF Trie!LeafPath
<1> HIDE DEF n, s, p
<1>5. s \in Seq(BlockIds) /\ Len(s) = n
  BY <1>1, <1>2, <1>3
<1>6. p \in Seq(BlockIds) /\ Len(p) = n + 1 /\ p[n + 1] = seg.head /\ \A i \in 1 .. n : p[i] = s[i]
  BY <1>1, <1>3, <1>4, <1>5
<1>7. Before(p) = n
  BY <1>1, <1>6 DEF Before
<1>8. RisesById(p, n)
  BY <1>2, <1>6 DEF RisesById, RisesBy
<1>9. PICK k \in 1 .. n : s[k] = seg.head
  BY <1>2, <1>3
<1>10. p[Len(p)] = p[k]
  BY <1>6, <1>9
<1> QED
  BY <1>1, <1>6, <1>7, <1>8, <1>9, <1>10 DEF IsLeafPath, p

\* The nodes on the way to a path are its beginnings.
LEMMA PrefixFacts ==
  ASSUME NEW p \in Seq(BlockIds), NEW node \in Trie!Prefixes(p)
  PROVE  node \in Seq(BlockIds) /\ StartsWith(p, node)
<1>1. PICK l \in 0 .. Len(p) : node = SubSeq(p, 1, l)
  BY DEF Trie!Prefixes
<1>2. Len(node) = l /\ \A i \in 1 .. l : node[i] = p[i]
  BY <1>1
<1>3. node \in Seq(BlockIds)
  BY <1>1
<1> QED
  BY <1>1, <1>2, <1>3 DEF StartsWith

\* A path is on the way to itself.
LEMMA PathIsPrefix ==
  ASSUME NEW p \in Seq(BlockIds)
  PROVE  p \in Trie!Prefixes(p)
<1>1. p = SubSeq(p, 1, Len(p)) /\ Len(p) \in 0 .. Len(p)
  OBVIOUS
<1> QED
  BY <1>1 DEF Trie!Prefixes

\* UpdateTrie adds the path's leaf if it is not there, and then _leaves grows.
LEMMA SplitKeepsTrie ==
  ASSUME NEW rt, NEW lvs, TrieOK(rt, lvs), NEW seg, SegOK(seg)
  PROVE  TrieOK(Trie!UpdateTrie(rt, seg),
                IF Trie!NewLeaf(rt, seg) THEN Append(lvs, Trie!LeafPath(seg)) ELSE lvs)
<1>1. CASE ~Trie!Recorded(seg)
  BY <1>1 DEF Trie!UpdateTrie, Trie!NewLeaf
<1>2. CASE Trie!Recorded(seg)
  <2> DEFINE p == Trie!LeafPath(seg)
             new == Trie!UpdateTrie(rt, seg)
             grown == IF Trie!NewLeaf(rt, seg) THEN Append(lvs, p) ELSE lvs
  <2>1. IsLeafPath(p)
    BY <1>2, LeafPathFacts
  <2>2. new.nodes = rt.nodes \cup Trie!Prefixes(p) /\ DOMAIN new.count = DOMAIN rt.count \cup {p}
    BY <1>2 DEF Trie!UpdateTrie
  <2>3. p \in Seq(BlockIds) /\ p # << >>
    BY <2>1 DEF IsLeafPath
  <2>4. grown = IF p \notin rt.nodes THEN Append(lvs, p) ELSE lvs
    BY <1>2 DEF Trie!NewLeaf
  <2>5. p \in rt.nodes => p \in DOMAIN rt.count
    <3> SUFFICES ASSUME p \in rt.nodes PROVE p \in DOMAIN rt.count
      OBVIOUS
    <3>1. PICK q \in DOMAIN rt.count : StartsWith(q, p)
      BY <2>3 DEF TrieOK
    <3> QED
      BY <2>1, <3>1, LeavesAreApart DEF TrieOK
  <2> HIDE DEF p, new, grown
  <2>6. DOMAIN new.count \subseteq new.nodes
    BY <2>2, <2>3, PathIsPrefix DEF TrieOK
  <2>7. \A q \in DOMAIN new.count : IsLeafPath(q)
    BY <2>1, <2>2 DEF TrieOK
  <2>8. \A node \in new.nodes :
          node \in Seq(BlockIds) /\ (node = << >> \/ \E q \in DOMAIN new.count : StartsWith(q, node))
    BY <2>2, <2>3, PrefixFacts DEF TrieOK
  <2>9. /\ grown \in Seq(Seq(BlockIds))
        /\ \A i, j \in DOMAIN grown : grown[i] = grown[j] => i = j
        /\ Range(grown) = DOMAIN new.count
    <3>1. CASE p \in rt.nodes
      <4>1. grown = lvs /\ DOMAIN new.count = DOMAIN rt.count
        BY <2>2, <2>4, <2>5, <3>1
      <4> QED
        BY <4>1 DEF TrieOK
    <3>2. CASE p \notin rt.nodes
      <4>1. lvs \in Seq(Seq(BlockIds)) /\ grown = Append(lvs, p) /\ p \notin Range(lvs)
        BY <2>4, <3>2 DEF TrieOK
      <4>2. /\ grown \in Seq(Seq(BlockIds)) /\ DOMAIN grown = 1 .. Len(lvs) + 1
            /\ grown[Len(lvs) + 1] = p /\ \A i \in 1 .. Len(lvs) : grown[i] = lvs[i]
        BY <2>3, <4>1
      <4>3. DOMAIN lvs = 1 .. Len(lvs) /\ Len(lvs) \in Nat
        BY <4>1
      <4>4. \A i, j \in DOMAIN grown : grown[i] = grown[j] => i = j
        BY <4>1, <4>2, <4>3 DEF TrieOK, Range
      <4>5. Range(grown) = Range(lvs) \cup {p}
        <5>1. \A i \in DOMAIN grown : i = Len(lvs) + 1 \/ i \in DOMAIN lvs
          BY <4>2, <4>3
        <5>2. Len(lvs) + 1 \in DOMAIN grown /\ DOMAIN lvs \subseteq DOMAIN grown
          BY <4>2, <4>3
        <5> QED
          BY <4>2, <4>3, <5>1, <5>2 DEF Range
      <4> QED
        BY <2>2, <4>2, <4>4, <4>5 DEF TrieOK
    <3> QED
      BY <3>1, <3>2
  <2> QED
    BY <2>6, <2>7, <2>8, <2>9 DEF TrieOK, new, grown, p
<1> QED
  BY <1>1, <1>2

-----------------------------------------------------------------------------
(* The segment of a line and its chain. *)

\* An instance of ReuseChains has names of its own for the library's operators.
LEMMA ChainOperators ==
  /\ \A f, S : Chains!SumFunctionOnSet(f, S) = SumFunctionOnSet(f, S)
  /\ \A S : Chains!Min(S) = Min(S) /\ Chains!Max(S) = Max(S)
  /\ \A S : Chains!Cardinality(S) = Cardinality(S)
<1>1. \A f, S : Chains!SumFunctionOnSet(f, S) = SumFunctionOnSet(f, S)
  BY DEF Chains!SumFunctionOnSet, SumFunctionOnSet, Chains!FoldFunctionOnSet,
         FoldFunctionOnSet, Chains!MapThenFoldSet, MapThenFoldSet
<1>2. \A S : Chains!Min(S) = Min(S) /\ Chains!Max(S) = Max(S)
  BY DEF Chains!Min, Min, Chains!Max, Max
<1>3. \A S : Chains!Cardinality(S) = Cardinality(S)
  BY DEF Chains!Cardinality, Cardinality
<1> QED
  BY <1>1, <1>2, <1>3

ChainEvent == Chains!Access

\* What an access of a chain is.
LEMMA EventFacts ==
  ASSUME NEW e \in ChainEvent
  PROVE  /\ e.bbl \in BlockIds /\ e.op \in {"load", "store", "miss"}
         /\ e.weight \in Nat \ {0}
<1>1. \A r \in References : r.threads \in Nat \ {0}
  BY ReferenceAssumption DEF Reference
<1> QED
  BY <1>1 DEF ChainEvent, Chains!Access, Chains!Op, BlockIds

\* The segment after an access that the event e of its line's chain stands for.
Inserted(seg, e) == InsertBbl(seg, [bbl |-> e.bbl, threads |-> e.weight])

\* What becomes of the fields.
LEMMA InsertedFacts ==
  ASSUME NEW seg \in Trie!Segment, NEW e \in ChainEvent
  PROVE  /\ Inserted(seg, e) \in Trie!Segment
         /\ Inserted(seg, e).head = IF seg.set = {} THEN e.bbl ELSE seg.head
         /\ Inserted(seg, e).set = seg.set \cup {e.bbl}
         /\ Inserted(seg, e).count = IF e.weight > seg.count THEN e.weight ELSE seg.count
<1>1. PICK b \in BlockIds : b = e.bbl
  BY EventFacts
<1>2. PICK w \in Nat \ {0} : w = e.weight
  BY EventFacts
<1>3. PICK longer : longer = Trie!SegInsert(seg, b)
  OBVIOUS
<1>4. /\ longer \in Trie!Segment /\ longer.head = (IF seg.set = {} THEN b ELSE seg.head)
      /\ longer.set = seg.set \cup {b} /\ longer.count = seg.count
  BY <1>3 DEF Trie!SegInsert, Trie!Segment, BlockIds
<1>5. Inserted(seg, e) = [longer EXCEPT !.count = IF w > seg.count THEN w ELSE seg.count]
  BY <1>1, <1>2, <1>3, <1>4 DEF Inserted, InsertBbl
<1> QED
  BY <1>1, <1>2, <1>4, <1>5 DEF Trie!Segment

\* A segment's head is the block it was given first, also when clear() has left a
\* stale one behind.
LEMMA SegmentKinds ==
  /\ SegOK(Trie!NewSegment)
  /\ \A seg : SegOK(seg) => SegOK(Trie!SegClear(seg))
  /\ \A seg, e : SegOK(seg) /\ e \in ChainEvent => SegOK(Inserted(seg, e))
<1>1. SegOK(Trie!NewSegment)
  BY FS_EmptySet DEF SegOK, Trie!NewSegment, Trie!Segment
<1>2. ASSUME NEW seg, SegOK(seg) PROVE SegOK(Trie!SegClear(seg))
  BY <1>2, FS_EmptySet DEF SegOK, Trie!SegClear, Trie!Segment
<1>3. ASSUME NEW seg, NEW e \in ChainEvent, SegOK(seg) PROVE SegOK(Inserted(seg, e))
  <2>1. IsFiniteSet(seg.set \cup {e.bbl})
    BY <1>3, FS_AddElement DEF SegOK
  <2>2. seg \in Trie!Segment
    BY <1>3 DEF SegOK
  <2> QED
    BY <1>3, <2>1, <2>2, InsertedFacts DEF SegOK
<1> QED
  BY <1>1, <1>2, <1>3

\* The accesses of the segment that is still open.
OpenAt(c) == {k \in 1 .. Len(c) : c[k].op # "miss" /\ \A m \in k + 1 .. Len(c) : c[m].op = "load"}

\* The largest number of threads that one of the accesses K stands for.
Heaviest(c, K) == Max({1} \cup {c[k].weight : k \in K})

\* A larger set has the larger of its greatest elements.
LEMMA MaxWith ==
  ASSUME NEW S \in SUBSET Int, IsFiniteSet(S), S # {}, NEW w \in Int
  PROVE  Max(S \cup {w}) = IF w > Max(S) THEN w ELSE Max(S)
<1>1. IsFiniteSet(S \cup {w}) /\ S \cup {w} \in SUBSET Int /\ S \cup {w} # {}
  BY FS_AddElement
<1>2. PICK T \in SUBSET Int : T = S \cup {w}
  BY <1>1
<1>3. Max(T) \in T /\ \A y \in T : Max(T) >= y
  BY <1>1, <1>2, LeastAndGreatest
<1>4. Max(S) \in S /\ \A y \in S : Max(S) >= y
  BY LeastAndGreatest
<1>5. PICK a \in Int : a = Max(S)
  BY <1>4
<1>6. PICK b \in Int : b = Max(T)
  BY <1>3
<1>7. (b = w \/ b \in S) /\ b >= w /\ b >= a
  BY <1>2, <1>3, <1>4, <1>5, <1>6
<1>8. b \in S => a >= b
  BY <1>4, <1>5
<1>9. b = IF w > a THEN w ELSE a
  BY <1>7, <1>8
<1> QED
  BY <1>2, <1>5, <1>6, <1>9

\* Weights are numbers, and a further access may be the heaviest.
LEMMA HeaviestFacts ==
  ASSUME NEW c \in Seq(ChainEvent), NEW K \in SUBSET (1 .. Len(c))
  PROVE  /\ Heaviest(c, K) \in Nat
         /\ \A e \in ChainEvent : \A d : \A n :
              (\A k \in K : d[k] = c[k]) /\ d[n] = e
                => /\ Heaviest(d, K) = Heaviest(c, K)
                   /\ Heaviest(d, K \cup {n}) = IF e.weight > Heaviest(c, K) THEN e.weight ELSE Heaviest(c, K)
<1>1. \A k \in K : c[k] \in ChainEvent
  OBVIOUS
<1>2. \A k \in K : c[k].weight \in Nat
  BY <1>1, EventFacts
<1>3. PICK f : f = [k \in K |-> c[k].weight]
  OBVIOUS
<1>4. PICK W : W = {f[k] : k \in K}
  OBVIOUS
<1>5. W = {c[k].weight : k \in K}
  BY <1>3, <1>4
<1>6. IsFiniteSet(W)
  <2>1. 1 \in Int /\ Len(c) \in Int
    OBVIOUS
  <2>2. IsFiniteSet(K)
    BY <2>1, FS_Interval, FS_Subset
  <2>3. f \in Surjection(K, W)
    BY <1>3, <1>4 DEF Surjection
  <2> QED
    BY <2>2, <2>3, FS_Surjection
<1>7. PICK S : S = {1} \cup W
  OBVIOUS
<1>8. S \in SUBSET Int /\ IsFiniteSet(S) /\ S # {}
  <2>1. IsFiniteSet(W \cup {1})
    BY <1>6, FS_AddElement
  <2>2. W \cup {1} = S
    BY <1>7
  <2>3. IsFiniteSet(S)
    BY <2>1, <2>2
  <2>4. \A y \in W : y \in Nat
    BY <1>2, <1>5
  <2>5. S \in SUBSET Int /\ S # {}
    BY <1>7, <2>4
  <2> QED
    BY <2>3, <2>5
<1>9. Heaviest(c, K) = Max(S)
  BY <1>5, <1>7 DEF Heaviest
<1>10. Max(S) \in Nat
  <2>1. Max(S) \in S
    BY <1>8, LeastAndGreatest
  <2> QED
    BY <1>2, <1>5, <1>7, <2>1
<1>11. ASSUME NEW e \in ChainEvent, NEW d, NEW n, \A k \in K : d[k] = c[k], d[n] = e
       PROVE  /\ Heaviest(d, K) = Heaviest(c, K)
              /\ Heaviest(d, K \cup {n}) = IF e.weight > Heaviest(c, K) THEN e.weight ELSE Heaviest(c, K)
  <2>1. {d[k].weight : k \in K} = W
    BY <1>5, <1>11
  <2>2. {d[k].weight : k \in K \cup {n}} = W \cup {e.weight}
    BY <1>5, <1>11
  <2>3. Heaviest(d, K) = Max(S)
    BY <1>7, <2>1 DEF Heaviest
  <2>4. {1} \cup {d[k].weight : k \in K \cup {n}} = S \cup {e.weight}
    BY <1>7, <2>2
  <2>5. e.weight \in Int
    BY EventFacts
  <2>6. Max(S \cup {e.weight}) = IF e.weight > Max(S) THEN e.weight ELSE Max(S)
    BY <1>8, <2>5, MaxWith
  <2>7. Heaviest(d, K \cup {n}) = Max(S \cup {e.weight})
    BY <2>4 DEF Heaviest
  <2> QED
    BY <1>9, <2>3, <2>6, <2>7
<1> QED
  BY <1>9, <1>10, <1>11

\* The segment of a line is the open one of its chain.
IsOpen(seg, c) ==
  /\ seg.count = Heaviest(c, OpenAt(c)) /\ seg.set = {c[k].bbl : k \in OpenAt(c)}
  /\ \A k \in OpenAt(c) : (\A j \in OpenAt(c) : k <= j) => seg.head = c[k].bbl

\* d is c with one access more, the n-th.
Longer(c, e, d, n) ==
  /\ n \in Nat \ {0} /\ d \in Seq(ChainEvent) /\ Len(d) = n /\ Len(c) = n - 1 /\ d[n] = e
  /\ \A k \in 1 .. n - 1 : d[k] = c[k]
  /\ OpenAt(c) \subseteq 1 .. n - 1
  /\ OpenAt(d) = (IF e.op = "load" THEN OpenAt(c) ELSE {})
                   \cup (IF e.op = "miss" THEN {} ELSE {n})

\* One access more extends the open segment, or ends it.
LEMMA OpenGrows ==
  ASSUME NEW c \in Seq(ChainEvent), NEW e \in ChainEvent, NEW d, d = Append(c, e), NEW n, n = Len(c) + 1
  PROVE  Longer(c, e, d, n)
<1>1. /\ n \in Nat \ {0} /\ d \in Seq(ChainEvent) /\ Len(d) = n /\ Len(c) = n - 1 /\ d[n] = e
      /\ \A k \in 1 .. n - 1 : d[k] = c[k]
  OBVIOUS
<1>2. OpenAt(c) \subseteq 1 .. n - 1
  BY DEF OpenAt
<1>3. ASSUME NEW k \in 1 .. n - 1
      PROVE  k \in OpenAt(d) <=> e.op = "load" /\ k \in OpenAt(c)
  <2>1. k \in OpenAt(d) <=> d[k].op # "miss" /\ \A m \in k + 1 .. n : d[m].op = "load"
    BY <1>1 DEF OpenAt
  <2>2. k \in OpenAt(c) <=> c[k].op # "miss" /\ \A m \in k + 1 .. n - 1 : c[m].op = "load"
    BY <1>1 DEF OpenAt
  <2>3. (\A m \in k + 1 .. n : d[m].op = "load")
          <=> e.op = "load" /\ \A m \in k + 1 .. n - 1 : c[m].op = "load"
    <3>1. \A m \in k + 1 .. n : m = n \/ m \in k + 1 .. n - 1
      BY <1>1
    <3>2. n \in k + 1 .. n /\ \A m \in k + 1 .. n - 1 : m \in k + 1 .. n /\ d[m] = c[m]
      BY <1>1
    <3> QED
      BY <1>1, <3>1, <3>2
  <2> QED
    BY <1>1, <2>1, <2>2, <2>3
<1>4. n \in OpenAt(d) <=> e.op # "miss"
  BY <1>1 DEF OpenAt
<1>5. \A k \in OpenAt(d) : k = n \/ k \in 1 .. n - 1
  BY <1>1 DEF OpenAt
<1> QED
  BY <1>1, <1>2, <1>3, <1>4, <1>5 DEF Longer

\* What InsertOnHit and SplitOnMiss make of the segment of a line.
Evolved(seg, e) ==
  IF e.op = "load" THEN Inserted(seg, e)
  ELSE IF e.op = "store" THEN Inserted(Trie!SegClear(Inserted(seg, e)), e)
  ELSE Trie!SegClear(seg)

\* The segment of a line stays the open one of its chain (Storage.cpp:63-93).
LEMMA OpenKeeps ==
  ASSUME NEW c \in Seq(ChainEvent), NEW e \in ChainEvent, NEW seg \in Trie!Segment, IsOpen(seg, c)
  PROVE  IsOpen(Evolved(seg, e), Append(c, e))
<1>1. PICK d : d = Append(c, e)
  OBVIOUS
<1>2. PICK n : n = Len(c) + 1
  OBVIOUS
<1>3. /\ n \in Nat \ {0} /\ d \in Seq(ChainEvent) /\ Len(d) = n /\ d[n] = e /\ Len(c) = n - 1
      /\ \A k \in 1 .. n - 1 : d[k] = c[k]
      /\ OpenAt(c) \subseteq 1 .. n - 1
      /\ OpenAt(d) = (IF e.op = "load" THEN OpenAt(c) ELSE {})
                       \cup (IF e.op = "miss" THEN {} ELSE {n})
  <2>1. Longer(c, e, d, n)
    BY <1>1, <1>2, OpenGrows
  <2> QED
    BY <2>1 DEF Longer
<1>4. e.op \in {"load", "store", "miss"}
  BY EventFacts
<1>5. PICK new : new = Evolved(seg, e)
  OBVIOUS
<1>6. seg.count = Heaviest(c, OpenAt(c)) /\ seg.set = {c[k].bbl : k \in OpenAt(c)}
  BY DEF IsOpen
<1>7. /\ \A K \in SUBSET (1 .. n - 1) :
           Heaviest(d, K \cup {n}) = IF e.weight > Heaviest(c, K) THEN e.weight ELSE Heaviest(c, K)
      /\ \A K \in SUBSET (1 .. n - 1) : Heaviest(d, K) = Heaviest(c, K)
  <2> SUFFICES ASSUME NEW K \in SUBSET (1 .. n - 1)
               PROVE  /\ Heaviest(d, K) = Heaviest(c, K)
                      /\ Heaviest(d, K \cup {n})
                           = IF e.weight > Heaviest(c, K) THEN e.weight ELSE Heaviest(c, K)
    OBVIOUS
  <2>1. K \in SUBSET (1 .. Len(c)) /\ \A k \in K : d[k] = c[k]
    BY <1>3
  <2>2. \A f \in ChainEvent : \A x : \A i :
          (\A k \in K : x[k] = c[k]) /\ x[i] = f
            => /\ Heaviest(x, K) = Heaviest(c, K)
               /\ Heaviest(x, K \cup {i}) = IF f.weight > Heaviest(c, K) THEN f.weight ELSE Heaviest(c, K)
    BY <2>1, HeaviestFacts
  <2>3. (\A k \in K : d[k] = c[k]) /\ d[n] = e
    BY <1>3, <2>1
  <2> QED
    BY <2>2, <2>3
<1>8. Heaviest(d, {}) = 1
  <2>1. {1} \cup {d[k].weight : k \in {}} = {1} /\ Max({1}) = 1
    BY DEF Max
  <2> QED
    BY <2>1 DEF Heaviest
<1>9. e.weight \in Nat \ {0}
  BY EventFacts
<1>10. CASE e.op = "load"
  <2>1. /\ new.count = IF e.weight > seg.count THEN e.weight ELSE seg.count
        /\ new.set = seg.set \cup {e.bbl}
        /\ new.head = IF seg.set = {} THEN e.bbl ELSE seg.head
    BY <1>5, <1>10, InsertedFacts DEF Evolved
  <2>2. OpenAt(d) = OpenAt(c) \cup {n}
    BY <1>3, <1>10
  <2>3. new.set = {d[k].bbl : k \in OpenAt(d)}
    BY <1>3, <1>6, <2>1, <2>2
  <2>4. ASSUME NEW k \in OpenAt(d), \A j \in OpenAt(d) : k <= j PROVE new.head = d[k].bbl
    <3>1. CASE OpenAt(c) = {}
      BY <1>3, <1>6, <2>1, <2>2, <3>1
    <3>2. CASE OpenAt(c) # {}
      <4>1. PICK j \in OpenAt(c) : TRUE
        BY <3>2
      <4>2. k <= j /\ j \in 1 .. n - 1 /\ (k = n \/ k \in OpenAt(c))
        BY <1>3, <2>2, <2>4, <4>1
      <4>3. k \in OpenAt(c) /\ \A i \in OpenAt(c) : k <= i
        BY <1>3, <2>2, <2>4, <4>2
      <4>4. seg.head = c[k].bbl
        BY <4>3 DEF IsOpen
      <4>5. seg.set # {}
        BY <1>6, <4>1
      <4>6. d[k] = c[k]
        BY <1>3, <4>3
      <4> QED
        BY <2>1, <4>4, <4>5, <4>6
    <3> QED
      BY <3>1, <3>2
  <2>5. new.count = Heaviest(d, OpenAt(d))
    BY <1>3, <1>6, <1>7, <2>1, <2>2
  <2> QED
    BY <1>1, <1>5, <2>3, <2>4, <2>5 DEF IsOpen
<1>11. CASE e.op = "store"
  <2>1. PICK empty : empty = Trie!SegClear(Inserted(seg, e))
    OBVIOUS
  <2>2. empty \in Trie!Segment /\ empty.set = {} /\ empty.count = 1
    BY <2>1, InsertedFacts DEF Trie!SegClear, Trie!Segment
  <2>3. new.count = (IF e.weight > 1 THEN e.weight ELSE 1) /\ new.set = {e.bbl} /\ new.head = e.bbl
    BY <1>5, <1>11, <2>1, <2>2, InsertedFacts DEF Evolved
  <2>4. OpenAt(d) = {n}
    BY <1>3, <1>11
  <2>5. Heaviest(d, {} \cup {n}) = IF e.weight > 1 THEN e.weight ELSE 1
    <3>1. {} \in SUBSET (1 .. n - 1)
      OBVIOUS
    <3>2. Heaviest(d, {} \cup {n}) = IF e.weight > Heaviest(c, {}) THEN e.weight ELSE Heaviest(c, {})
      BY <1>7, <3>1
    <3>3. Heaviest(d, {}) = Heaviest(c, {})
      BY <1>7, <3>1
    <3> QED
      BY <1>8, <3>2, <3>3
  <2>6. {} \cup {n} = {n}
    OBVIOUS
  <2>7. new.count = Heaviest(d, OpenAt(d))
    BY <2>3, <2>4, <2>5, <2>6
  <2> QED
    BY <1>1, <1>3, <1>5, <2>3, <2>4, <2>7 DEF IsOpen
<1>12. CASE e.op = "miss"
  <2>1. new.count = 1 /\ new.set = {}
    BY <1>5, <1>12 DEF Evolved, Trie!SegClear, Trie!Segment
  <2>2. OpenAt(d) = {}
    BY <1>3, <1>12
  <2> QED
    BY <1>1, <1>5, <1>8, <2>1, <2>2 DEF IsOpen
<1> QED
  BY <1>4, <1>10, <1>11, <1>12

-----------------------------------------------------------------------------
(* What the chains have been cut into. *)

\* The segment that is closed when an access of the kind e ends the open one.
Closed(seg, e) == IF e.op = "store" THEN Inserted(seg, e) ELSE seg

\* A chain that is one access longer: what was cut stays, and a store or miss
\* cuts off the segment that was open.
CutsGrew(c, d, n, closed) ==
  /\ n \notin Chains!CutsOf(c)
  /\ \A i \in Chains!CutsOf(c) :
       Chains!SegmentAt(d, i) = Chains!SegmentAt(c, i) /\ Chains!WeightAt(d, i) = Chains!WeightAt(c, i)
  /\ Chains!CutsOf(d) = Chains!CutsOf(c) \cup
       (IF d[n].op # "load" /\ Trie!Recorded(closed) THEN {n} ELSE {})
  /\ d[n].op # "load" =>
       /\ Chains!SegmentAt(d, n).set = closed.set
       /\ closed.set # {} => Chains!SegmentAt(d, n).head = closed.head
       /\ Chains!WeightAt(d, n) = closed.count

\* What a segment weighs.
LEMMA WeightIsHeaviest ==
  \A c, i : Chains!WeightAt(c, i) = Heaviest(c, Chains!MembersAt(c, i))
BY ChainOperators DEF Chains!WeightAt, Heaviest

\* What a cut closes is what the code has for the line (Storage.cpp:63-93).
LEMMA CutsGrow ==
  ASSUME NEW c \in Seq(ChainEvent), NEW e \in ChainEvent, NEW seg \in Trie!Segment, IsOpen(seg, c),
         NEW d, d = Append(c, e), NEW n, n = Len(c) + 1
  PROVE  CutsGrew(c, d, n, Closed(seg, e))
<1>1. /\ n \in Nat \ {0} /\ d \in Seq(ChainEvent) /\ Len(d) = n /\ Len(c) = n - 1 /\ d[n] = e
      /\ \A k \in 1 .. n - 1 : d[k] = c[k]
      /\ OpenAt(c) \subseteq 1 .. n - 1
  <2>1. Longer(c, e, d, n)
    BY OpenGrows
  <2> QED
    BY <2>1 DEF Longer
<1>2. \A i \in Chains!CutsOf(c) : i \in 1 .. n - 1
  BY <1>1 DEF Chains!CutsOf
<1>3. ASSUME NEW i \in 1 .. n - 1
      PROVE  Chains!MembersAt(d, i) = Chains!MembersAt(c, i)
             /\ Chains!SegmentAt(d, i) = Chains!SegmentAt(c, i)
             /\ Chains!WeightAt(d, i) = Chains!WeightAt(c, i)
  <2>1. \A k \in 1 .. i : d[k] = c[k] /\ \A m \in k + 1 .. i - 1 : d[m] = c[m]
    BY <1>1
  <2>2. Chains!MembersAt(d, i) = Chains!MembersAt(c, i)
    BY <2>1 DEF Chains!MembersAt
  <2>3. \A k \in Chains!MembersAt(c, i) : d[k] = c[k]
    BY <2>1 DEF Chains!MembersAt
  <2>4. {d[k].bbl : k \in Chains!MembersAt(d, i)} = {c[k].bbl : k \in Chains!MembersAt(c, i)}
    BY <2>2, <2>3
  <2>5. Chains!MembersAt(c, i) # {} =>
          d[Min(Chains!MembersAt(d, i))] = c[Min(Chains!MembersAt(c, i))]
    <3> SUFFICES ASSUME Chains!MembersAt(c, i) # {}
                 PROVE  d[Min(Chains!MembersAt(d, i))] = c[Min(Chains!MembersAt(c, i))]
      OBVIOUS
    <3>1. Chains!MembersAt(c, i) \subseteq 1 .. i
      BY DEF Chains!MembersAt
    <3>2. IsFiniteSet(1 .. i)
      BY FS_Interval
    <3>3. IsFiniteSet(Chains!MembersAt(c, i)) /\ Chains!MembersAt(c, i) \in SUBSET Int
      BY <3>1, <3>2, FS_Subset
    <3>4. Min(Chains!MembersAt(c, i)) \in Chains!MembersAt(c, i)
      BY <3>3, LeastAndGreatest
    <3> QED
      BY <2>2, <2>3, <3>4
  <2>6. {d[k].weight : k \in Chains!MembersAt(d, i)} = {c[k].weight : k \in Chains!MembersAt(c, i)}
    BY <2>2, <2>3
  <2>7. Chains!WeightAt(d, i) = Chains!WeightAt(c, i)
    BY <2>6 DEF Chains!WeightAt
  <2> QED
    BY <2>2, <2>4, <2>5, <2>7, ChainOperators DEF Chains!SegmentAt
<1>4. Chains!MembersAt(d, n) = OpenAt(c) \cup (IF e.op = "miss" THEN {} ELSE {n})
  <2>1. ASSUME NEW k \in 1 .. n - 1 PROVE k \in Chains!MembersAt(d, n) <=> k \in OpenAt(c)
    <3>1. k \in Chains!MembersAt(d, n)
            <=> d[k].op # "miss" /\ \A m \in k + 1 .. n - 1 : d[m].op = "load"
      BY <1>1 DEF Chains!MembersAt
    <3>2. k \in OpenAt(c) <=> c[k].op # "miss" /\ \A m \in k + 1 .. n - 1 : c[m].op = "load"
      BY <1>1 DEF OpenAt
    <3>3. d[k] = c[k] /\ \A m \in k + 1 .. n - 1 : d[m] = c[m]
      BY <1>1
    <3> QED
      BY <3>1, <3>2, <3>3
  <2>2. n \in Chains!MembersAt(d, n) <=> e.op # "miss"
    BY <1>1 DEF Chains!MembersAt
  <2>3. \A k \in Chains!MembersAt(d, n) : k = n \/ k \in 1 .. n - 1
    BY <1>1 DEF Chains!MembersAt
  <2> QED
    BY <1>1, <2>1, <2>2, <2>3
<1>5. seg.set = {c[k].bbl : k \in OpenAt(c)}
  BY DEF IsOpen
<1>6. PICK closed : closed = Closed(seg, e)
  OBVIOUS
<1>10. /\ Heaviest(d, OpenAt(c)) = Heaviest(c, OpenAt(c))
       /\ Heaviest(d, OpenAt(c) \cup {n})
            = IF e.weight > Heaviest(c, OpenAt(c)) THEN e.weight ELSE Heaviest(c, OpenAt(c))
  <2>1. OpenAt(c) \in SUBSET (1 .. Len(c)) /\ (\A k \in OpenAt(c) : d[k] = c[k]) /\ d[n] = e
    BY <1>1
  <2>2. \A f \in ChainEvent : \A x : \A i :
          (\A k \in OpenAt(c) : x[k] = c[k]) /\ x[i] = f
            => /\ Heaviest(x, OpenAt(c)) = Heaviest(c, OpenAt(c))
               /\ Heaviest(x, OpenAt(c) \cup {i})
                    = IF f.weight > Heaviest(c, OpenAt(c)) THEN f.weight ELSE Heaviest(c, OpenAt(c))
    BY <2>1, HeaviestFacts
  <2> QED
    BY <2>1, <2>2
<1>7. ASSUME e.op # "load"
      PROVE  /\ Chains!SegmentAt(d, n).set = closed.set
             /\ closed.set # {} => Chains!SegmentAt(d, n).head = closed.head
             /\ Chains!WeightAt(d, n) = closed.count
  <2>1. PICK members : members = Chains!MembersAt(d, n)
    OBVIOUS
  <2>2. /\ Chains!SegmentAt(d, n).set = {d[k].bbl : k \in members}
        /\ members # {} => Chains!SegmentAt(d, n).head = d[Min(members)].bbl
    BY <2>1, ChainOperators DEF Chains!SegmentAt
  <2>3. e.op \in {"store", "miss"}
    BY <1>7, EventFacts
  <2>4. ASSUME members # {} PROVE Min(members) \in members /\ \A k \in members : Min(members) <= k
    <3>1. members \in SUBSET 1 .. n
      BY <2>1 DEF Chains!MembersAt
    <3>2. IsFiniteSet(1 .. n) /\ 1 .. n \subseteq Int
      <4>1. 1 \in Int /\ n \in Int
        BY <1>1
      <4> QED
        BY <4>1, FS_Interval
    <3>3. IsFiniteSet(members) /\ members \in SUBSET Int
      BY <3>1, <3>2, FS_Subset
    <3> QED
      BY <2>4, <3>3, LeastAndGreatest
  <2>5. OpenAt(c) # {} => \E k \in OpenAt(c) : \A j \in OpenAt(c) : k <= j
    <3>1. IsFiniteSet(1 .. n - 1) /\ 1 .. n - 1 \subseteq Int
      <4>1. 1 \in Int /\ n - 1 \in Int
        BY <1>1
      <4> QED
        BY <4>1, FS_Interval
    <3>2. IsFiniteSet(OpenAt(c)) /\ OpenAt(c) \in SUBSET Int
      BY <1>1, <3>1, FS_Subset
    <3> QED
      BY <3>2, LeastAndGreatest
  <2>6. ASSUME OpenAt(c) # {}
        PROVE  Chains!SegmentAt(d, n).head = seg.head
    <3>1. PICK k \in OpenAt(c) : \A j \in OpenAt(c) : k <= j
      BY <2>5, <2>6
    <3>2. members # {} /\ \A j \in members : j = n \/ j \in OpenAt(c)
      BY <1>4, <2>1, <2>6
    <3>3. Min(members) <= k /\ k \in 1 .. n - 1 /\ k \in members
      BY <1>1, <1>4, <2>1, <2>4, <3>1, <3>2
    <3>4. Min(members) \in OpenAt(c) /\ Min(members) = k
      <4>1. PICK least : least = Min(members)
        OBVIOUS
      <4>2. least \in members /\ least <= k
        BY <2>4, <3>2, <3>3, <4>1
      <4>3. n \in Nat /\ k \in 1 .. n - 1 /\ (least = n \/ least \in OpenAt(c))
        BY <1>1, <3>2, <3>3, <4>2
      <4>4. least \in OpenAt(c)
        BY <4>2, <4>3
      <4>5. least \in 1 .. n - 1 /\ k <= least
        BY <1>1, <3>1, <4>4
      <4>6. least = k
        BY <4>2, <4>3, <4>5
      <4> QED
        BY <4>1, <4>4, <4>6
    <3>5. seg.head = c[k].bbl /\ d[k] = c[k]
      BY <1>1, <3>1, <3>3 DEF IsOpen
    <3> QED
      BY <2>2, <3>2, <3>4, <3>5
  <2>7. CASE e.op = "store"
    <3>1. closed.set = seg.set \cup {e.bbl} /\ closed.head = IF seg.set = {} THEN e.bbl ELSE seg.head
      BY <1>6, <2>7, InsertedFacts DEF Closed
    <3>2. members = OpenAt(c) \cup {n}
      BY <1>4, <2>1, <2>7
    <3>3. {d[k].bbl : k \in members} = closed.set
      BY <1>1, <1>5, <3>1, <3>2
    <3>4. OpenAt(c) = {} => Min(members) = n
      BY <2>4, <3>2
    <3>5. (seg.set = {}) <=> (OpenAt(c) = {})
      BY <1>5
    <3>6. Chains!SegmentAt(d, n).head = closed.head
      <4>1. CASE OpenAt(c) = {}
        BY <1>1, <2>2, <3>1, <3>2, <3>4, <3>5, <4>1
      <4>2. CASE OpenAt(c) # {}
        BY <2>6, <3>1, <3>5, <4>2
      <4> QED
        BY <4>1, <4>2
    <3>7. Chains!WeightAt(d, n) = closed.count
      <4>1. Heaviest(d, OpenAt(c) \cup {n})
              = IF e.weight > Heaviest(c, OpenAt(c)) THEN e.weight ELSE Heaviest(c, OpenAt(c))
        BY <1>10
      <4>2. closed.count = IF e.weight > seg.count THEN e.weight ELSE seg.count
        BY <1>6, <2>7, InsertedFacts DEF Closed
      <4>3. seg.count = Heaviest(c, OpenAt(c))
        BY DEF IsOpen
      <4>4. Chains!WeightAt(d, n) = Heaviest(d, members)
        BY <2>1, WeightIsHeaviest
      <4> QED
        BY <3>2, <4>1, <4>2, <4>3, <4>4
    <3> QED
      BY <2>2, <3>3, <3>6, <3>7
  <2>8. CASE e.op = "miss"
    <3>1. closed = seg /\ members = OpenAt(c)
      BY <1>4, <1>6, <2>1, <2>8 DEF Closed
    <3>2. {d[k].bbl : k \in members} = closed.set
      BY <1>1, <1>5, <3>1
    <3>3. closed.set # {} => OpenAt(c) # {}
      BY <1>5, <3>1
    <3>4. Chains!WeightAt(d, n) = closed.count
      <4>1. seg.count = Heaviest(c, OpenAt(c)) /\ Heaviest(d, OpenAt(c)) = Heaviest(c, OpenAt(c))
        BY <1>10 DEF IsOpen
      <4>2. Chains!WeightAt(d, n) = Heaviest(d, members)
        BY <2>1, WeightIsHeaviest
      <4> QED
        BY <3>1, <4>1, <4>2
    <3> QED
      BY <2>2, <2>6, <3>1, <3>2, <3>3, <3>4
  <2> QED
    BY <2>3, <2>7, <2>8
<1>8. Chains!CutsOf(d) = Chains!CutsOf(c) \cup (IF d[n].op # "load" /\ Trie!Recorded(closed) THEN {n} ELSE {})
  <2>1. ASSUME NEW i \in 1 .. n - 1 PROVE i \in Chains!CutsOf(d) <=> i \in Chains!CutsOf(c)
    <3>1. Chains!SegmentAt(d, i) = Chains!SegmentAt(c, i) /\ d[i] = c[i]
      BY <1>1, <1>3
    <3> QED
      BY <1>1, <3>1 DEF Chains!CutsOf
  <2>2. n \in Chains!CutsOf(d) <=> d[n].op # "load" /\ Trie!Recorded(closed)
    <3>1. n \in Chains!CutsOf(d)
            <=> d[n].op # "load" /\ Cardinality(Chains!SegmentAt(d, n).set) > 1
      BY <1>1, ChainOperators DEF Chains!CutsOf
    <3>2. Trie!Recorded(closed) <=> Cardinality(closed.set) > 1
      BY TrieCardinality DEF Trie!Recorded
    <3> QED
      BY <1>1, <1>7, <3>1, <3>2
  <2>3. \A i \in Chains!CutsOf(d) : i = n \/ i \in 1 .. n - 1
    BY <1>1 DEF Chains!CutsOf
  <2> QED
    BY <1>2, <2>1, <2>2, <2>3
<1>9. n \notin Chains!CutsOf(c)
  BY <1>1, <1>2
<1> QED
  BY <1>1, <1>2, <1>3, <1>6, <1>7, <1>8, <1>9 DEF CutsGrew

-----------------------------------------------------------------------------
(* The chains of all lines, and the trie. *)

\* The path that the trie has for the segment closed by a cut.
CutPath(chains, cut) == Trie!LeafPath(Chains!SegmentCut(chains, cut))

WeightOf(chains) ==
  [cut \in Chains!Cuts(chains) |-> Chains!WeightAt(chains[cut[1]], cut[2])]

\* The trie has the path of every segment closed, with the weights of its cuts.
CountsOK(rt, chains) ==
  /\ IsFiniteSet(Chains!Cuts(chains))
  /\ DOMAIN rt.count = {CutPath(chains, cut) : cut \in Chains!Cuts(chains)}
  /\ \A p \in DOMAIN rt.count :
       rt.count[p] = SumFunctionOnSet(WeightOf(chains),
                                      {cut \in Chains!Cuts(chains) : CutPath(chains, cut) = p})

\* What an access adds to the cuts of the chains: the cut at, if it ends
\* the open segment, closed, and that is to be recorded.
CutsGo(chains, new, at, ends, closed) ==
  /\ at \notin Chains!Cuts(chains)
  /\ \A cut \in Chains!Cuts(chains) :
       /\ Chains!SegmentCut(new, cut) = Chains!SegmentCut(chains, cut)
       /\ WeightOf(chains)[cut] \in Nat
       /\ cut \in Chains!Cuts(new) => WeightOf(new)[cut] = WeightOf(chains)[cut]
  /\ ~ends \/ ~Trie!Recorded(closed) => Chains!Cuts(new) = Chains!Cuts(chains)
  /\ ends /\ Trie!Recorded(closed) =>
       /\ Chains!Cuts(new) = Chains!Cuts(chains) \cup {at}
       /\ Chains!SegmentCut(new, at).set = closed.set
       /\ closed.set # {} => Chains!SegmentCut(new, at).head = closed.head
       /\ WeightOf(new)[at] = closed.count

\* A segment weighs a number.
LEMMA WeightIsNumber ==
  ASSUME NEW c \in Seq(ChainEvent), NEW i \in 1 .. Len(c)
  PROVE  Chains!WeightAt(c, i) \in Nat
<1>1. Chains!MembersAt(c, i) \in SUBSET (1 .. Len(c))
  BY DEF Chains!MembersAt
<1>2. Heaviest(c, Chains!MembersAt(c, i)) \in Nat
  BY <1>1, HeaviestFacts
<1> QED
  BY <1>2, WeightIsHeaviest

\* The chains of the other lines stay as they were cut (Storage.cpp:63-93).
LEMMA LineCuts ==
  ASSUME NEW chains \in [Lines -> Seq(ChainEvent)], NEW g \in Lines, NEW e \in ChainEvent,
         NEW seg \in Trie!Segment, IsOpen(seg, chains[g]),
         NEW new, new = [chains EXCEPT ![g] = Append(@, e)],
         NEW n, n = Len(chains[g]) + 1, NEW closed, closed = Closed(seg, e)
  PROVE  CutsGo(chains, new, <<g, n>>, e.op # "load", closed)
<1>1. PICK c \in Seq(ChainEvent) : c = chains[g]
  OBVIOUS
<1>2. PICK d : d = Append(c, e)
  OBVIOUS
<1>3. d \in Seq(ChainEvent) /\ n = Len(c) + 1 /\ d[n] = e
  BY <1>1, <1>2
<1>4. new \in [Lines -> Seq(ChainEvent)] /\ new[g] = d /\ \A h \in Lines : h # g => new[h] = chains[h]
  BY <1>1, <1>2, <1>3
<1>5. CutsGrew(c, d, n, closed)
  BY <1>1, <1>2, <1>3, CutsGrow
<1>6. \A cut : cut \in Chains!Cuts(chains)
                 <=> \E h \in Lines : \E i \in Chains!CutsOf(chains[h]) : cut = <<h, i>>
  BY DEF Chains!Cuts
<1>7. \A cut : cut \in Chains!Cuts(new)
                 <=> \E h \in Lines : \E i \in Chains!CutsOf(new[h]) : cut = <<h, i>>
  BY DEF Chains!Cuts
<1>8. <<g, n>> \notin Chains!Cuts(chains)
  BY <1>1, <1>5, <1>6 DEF CutsGrew
<1>9. ASSUME NEW cut \in Chains!Cuts(chains)
      PROVE  /\ Chains!SegmentCut(new, cut) = Chains!SegmentCut(chains, cut)
             /\ WeightOf(chains)[cut] \in Nat
             /\ cut \in Chains!Cuts(new) => WeightOf(new)[cut] = WeightOf(chains)[cut]
  <2>0. PICK h \in Lines : \E i \in Chains!CutsOf(chains[h]) : cut = <<h, i>>
    BY <1>6
  <2>1. PICK i \in Chains!CutsOf(chains[h]) : cut = <<h, i>>
    BY <2>0
  <2>2. cut[1] = h /\ cut[2] = i
    BY <2>1
  <2>3. Chains!SegmentAt(new[h], i) = Chains!SegmentAt(chains[h], i)
    BY <1>1, <1>4, <1>5, <2>1 DEF CutsGrew
  <2>4. chains[h] \in Seq(ChainEvent) /\ i \in 1 .. Len(chains[h])
    BY <2>1 DEF Chains!CutsOf
  <2>5. Chains!WeightAt(chains[h], i) \in Nat
    BY <2>4, WeightIsNumber
  <2>6. Chains!WeightAt(new[h], i) = Chains!WeightAt(chains[h], i)
    BY <1>1, <1>4, <1>5, <2>1 DEF CutsGrew
  <2> QED
    BY <2>2, <2>3, <2>5, <2>6 DEF Chains!SegmentCut, WeightOf
<1>11. e.op = "load" \/ ~Trie!Recorded(closed) => Chains!Cuts(new) = Chains!Cuts(chains)
  <2> SUFFICES ASSUME e.op = "load" \/ ~Trie!Recorded(closed)
               PROVE  Chains!Cuts(new) = Chains!Cuts(chains)
    OBVIOUS
  <2>1. \A h \in Lines : Chains!CutsOf(new[h]) = Chains!CutsOf(chains[h])
    BY <1>1, <1>3, <1>4, <1>5 DEF CutsGrew
  <2> QED
    BY <2>1, <1>6, <1>7
<1>12. ASSUME e.op # "load", Trie!Recorded(closed)
       PROVE  /\ Chains!Cuts(new) = Chains!Cuts(chains) \cup {<<g, n>>}
              /\ Chains!SegmentCut(new, <<g, n>>).set = closed.set
              /\ closed.set # {} => Chains!SegmentCut(new, <<g, n>>).head = closed.head
              /\ WeightOf(new)[<<g, n>>] = closed.count
  <2>1. /\ \A h \in Lines : h # g => Chains!CutsOf(new[h]) = Chains!CutsOf(chains[h])
        /\ Chains!CutsOf(new[g]) = Chains!CutsOf(chains[g]) \cup {n}
    BY <1>1, <1>3, <1>4, <1>5, <1>12 DEF CutsGrew
  <2>2. Chains!Cuts(new) = Chains!Cuts(chains) \cup {<<g, n>>}
    <3>1. <<g, n>> \in Chains!Cuts(new)
      BY <2>1, <1>7
    <3>2. \A cut \in Chains!Cuts(chains) : cut \in Chains!Cuts(new)
      BY <2>1, <1>6, <1>7
    <3>3. \A cut \in Chains!Cuts(new) : cut = <<g, n>> \/ cut \in Chains!Cuts(chains)
      BY <2>1, <1>6, <1>7
    <3> QED
      BY <3>1, <3>2, <3>3
  <2>3. Chains!SegmentCut(new, <<g, n>>) = Chains!SegmentAt(d, n)
    BY <1>4 DEF Chains!SegmentCut
  <2>4. WeightOf(new)[<<g, n>>] = Chains!WeightAt(d, n)
    BY <1>4, <2>2 DEF WeightOf
  <2> QED
    BY <1>3, <1>5, <1>12, <2>2, <2>3, <2>4 DEF CutsGrew
<1> QED
  BY <1>8, <1>9, <1>11, <1>12 DEF CutsGo

\* UpdateTrie counts the segment that the cut closes (DataReuse.h:353-388).
LEMMA CountsGrow ==
  ASSUME NEW rt, NEW chains, CountsOK(rt, chains),
         NEW new, NEW at, NEW ends \in BOOLEAN, NEW closed, CutsGo(chains, new, at, ends, closed),
         SegOK(closed),
         NEW nrt, nrt = IF ends THEN Trie!UpdateTrie(rt, closed) ELSE rt
  PROVE  CountsOK(nrt, new)
<1>1. PICK cuts : cuts = Chains!Cuts(chains)
  OBVIOUS
<1>2. PICK more : more = Chains!Cuts(new)
  OBVIOUS
<1>3. PICK f : f = WeightOf(chains)
  OBVIOUS
<1>4. PICK h : h = WeightOf(new)
  OBVIOUS
<1>5. /\ at \notin cuts
      /\ \A cut \in cuts : CutPath(new, cut) = CutPath(chains, cut)
      /\ \A cut \in cuts : f[cut] \in Nat
      /\ \A cut \in cuts : cut \in more => h[cut] = f[cut]
  BY <1>1, <1>2, <1>3, <1>4 DEF CutsGo, CutPath
<1>6. /\ IsFiniteSet(cuts)
      /\ DOMAIN rt.count = {CutPath(chains, cut) : cut \in cuts}
      /\ \A p \in DOMAIN rt.count :
           rt.count[p] = SumFunctionOnSet(f, {cut \in cuts : CutPath(chains, cut) = p})
  BY <1>1, <1>3 DEF CountsOK
<1>7. ASSUME NEW p, more = cuts \/ more = cuts \cup {at}
      PROVE  SumFunctionOnSet(h, {cut \in cuts : CutPath(new, cut) = p})
               = SumFunctionOnSet(f, {cut \in cuts : CutPath(chains, cut) = p})
  <2>1. PICK S : S = {cut \in cuts : CutPath(chains, cut) = p}
    OBVIOUS
  <2>2. {cut \in cuts : CutPath(new, cut) = p} = S
    BY <1>5, <2>1
  <2>3. IsFiniteSet(S)
    BY <1>6, <2>1, FS_Subset
  <2>4. \A cut \in S : f[cut] \in Int /\ h[cut] = f[cut]
    BY <1>5, <1>7, <2>1
  <2>5. SumFunctionOnSet(h, S) = SumFunctionOnSet(f, S)
    BY <2>3, <2>4, SumSame
  <2> QED
    BY <2>1, <2>2, <2>5
<1>8. CASE ~ends \/ ~Trie!Recorded(closed)
  <2>1. more = cuts
    BY <1>1, <1>2, <1>8 DEF CutsGo
  <2>2. nrt = rt
    BY <1>8 DEF Trie!UpdateTrie
  <2>3. {CutPath(new, cut) : cut \in more} = {CutPath(chains, cut) : cut \in cuts}
    BY <1>5, <2>1
  <2>4. ASSUME NEW p \in DOMAIN nrt.count
        PROVE  nrt.count[p] = SumFunctionOnSet(h, {cut \in more : CutPath(new, cut) = p})
    BY <1>6, <1>7, <2>1, <2>2
  <2> QED
    BY <1>2, <1>4, <1>6, <2>1, <2>2, <2>3, <2>4 DEF CountsOK
<1>9. CASE ends /\ Trie!Recorded(closed)
  <2>1. /\ more = cuts \cup {at} /\ Chains!SegmentCut(new, at).set = closed.set
        /\ closed.set # {} => Chains!SegmentCut(new, at).head = closed.head
    BY <1>1, <1>2, <1>9 DEF CutsGo
  <2>2. PICK q : q = Trie!LeafPath(closed)
    OBVIOUS
  <2>3. CutPath(new, at) = q
    <3>1. closed.set # {}
      BY <1>9, TrieCardinality, FS_EmptySet DEF Trie!Recorded
    <3> QED
      BY <2>1, <2>2, <3>1 DEF CutPath, Trie!LeafPath
  <2>4. /\ DOMAIN nrt.count = DOMAIN rt.count \cup {q}
        /\ \A p \in DOMAIN nrt.count :
             nrt.count[p] = Trie!LeafCount(rt, p) + IF p = q THEN closed.count ELSE 0
    BY <1>9, <2>2 DEF Trie!UpdateTrie
  <2>5. IsFiniteSet(more)
    BY <1>6, <2>1, FS_AddElement
  <2>6. DOMAIN nrt.count = {CutPath(new, cut) : cut \in more}
    <3>1. \A cut \in cuts : CutPath(new, cut) \in DOMAIN rt.count
      BY <1>5, <1>6
    <3>2. \A p \in DOMAIN rt.count : \E cut \in cuts : p = CutPath(new, cut)
      BY <1>5, <1>6
    <3> QED
      BY <2>1, <2>3, <2>4, <3>1, <3>2
  <2>7. ASSUME NEW p \in DOMAIN nrt.count
        PROVE  nrt.count[p] = SumFunctionOnSet(h, {cut \in more : CutPath(new, cut) = p})
    <3>1. PICK S : S = {cut \in cuts : CutPath(new, cut) = p}
      OBVIOUS
    <3>0. PICK T : T = {cut \in more : CutPath(new, cut) = p}
      OBVIOUS
    <3>2. IsFiniteSet(S) /\ at \notin S
      BY <1>5, <1>6, <3>1, FS_Subset
    <3>3. SumFunctionOnSet(h, S) = Trie!LeafCount(rt, p)
      <4>1. SumFunctionOnSet(h, S) = SumFunctionOnSet(f, {cut \in cuts : CutPath(chains, cut) = p})
        BY <1>7, <2>1, <3>1
      <4>2. CASE p \in DOMAIN rt.count
        BY <1>6, <4>1, <4>2 DEF Trie!LeafCount
      <4>3. CASE p \notin DOMAIN rt.count
        <5>1. S = {}
          BY <1>5, <1>6, <3>1, <4>3
        <5> QED
          BY <4>3, <5>1, SumEmpty DEF Trie!LeafCount
      <4> QED
        BY <4>2, <4>3
    <3>4. (\A cut \in S \cup {at} : h[cut] \in Int) /\ h[at] = closed.count
      <4>1. h[at] = closed.count /\ closed.count \in Nat
        BY <1>1, <1>4, <1>9 DEF CutsGo, SegOK, Trie!Segment
      <4>2. \A cut \in S : h[cut] \in Int
        BY <1>5, <2>1, <3>1
      <4> QED
        BY <4>1, <4>2
    <3>5. SumFunctionOnSet(h, S) \in Int
      BY <3>2, <3>4, SumInt
    <3>6. CASE p = q
      <4>1. T = S \cup {at}
        BY <1>5, <2>1, <2>3, <3>0, <3>1, <3>6
      <4>2. SumFunctionOnSet(h, S \cup {at}) = h[at] + SumFunctionOnSet(h, S)
        BY <3>2, <3>4, SumWith
      <4>3. h[at] = closed.count /\ h[at] \in Int /\ nrt.count[p] = Trie!LeafCount(rt, p) + closed.count
        BY <2>4, <3>4, <3>6
      <4>4. nrt.count[p] = SumFunctionOnSet(h, T)
        BY <3>3, <3>5, <4>1, <4>2, <4>3
      <4> QED
        BY <3>0, <4>4
    <3>7. CASE p # q
      <4>1. T = S
        BY <1>5, <2>1, <2>3, <3>0, <3>1, <3>7
      <4>2. nrt.count[p] = Trie!LeafCount(rt, p) + 0
        BY <2>4, <3>7
      <4>3. nrt.count[p] = SumFunctionOnSet(h, T)
        BY <3>3, <3>5, <4>1, <4>2
      <4> QED
        BY <3>0, <4>3
    <3> QED
      BY <3>6, <3>7
  <2> QED
    BY <1>2, <1>4, <2>5, <2>6, <2>7 DEF CountsOK
<1> QED
  BY <1>8, <1>9

\* The path of a leaf is the segment, its set in order and its head once more.
LEMMA PathSegment ==
  ASSUME NEW S \in SUBSET BlockIds, IsFiniteSet(S), NEW h \in S, NEW p, p = Append(Trie!Sorted(S), h)
  PROVE  Last(p) = h /\ Range(p) = S
<1>2. PICK n \in Nat : n = Cardinality(S)
  BY FS_CardinalityType
<1>3. PICK s : s = Trie!Sorted(S)
  OBVIOUS
<1>4. s \in [1 .. n -> S] /\ \A x \in S : \E i \in 1 .. n : s[i] = x
  BY <1>2, <1>3, SortedFacts
<1>5. s \in Seq(S) /\ Len(s) = n /\ p = Append(s, h)
  BY <1>3, <1>4
<1>6. Len(p) = n + 1 /\ p[n + 1] = h /\ DOMAIN p = 1 .. n + 1 /\ \A i \in 1 .. n : p[i] = s[i]
  BY <1>5
<1>7. Last(p) = h
  BY <1>6 DEF Last
<1>8. \A i \in 1 .. n + 1 : p[i] \in S
  <2>1. \A i \in 1 .. n + 1 : i = n + 1 \/ i \in 1 .. n
    OBVIOUS
  <2> QED
    BY <1>4, <1>6, <2>1
<1>9. \A x \in S : \E i \in 1 .. n + 1 : p[i] = x
  <2>1. 1 .. n \subseteq 1 .. n + 1
    OBVIOUS
  <2> QED
    BY <1>4, <1>6, <2>1
<1> QED
  BY <1>6, <1>7, <1>8, <1>9 DEF Range

\* A cut closes a segment of two blocks or more of its line, the head among them.
LEMMA CutSegments ==
  ASSUME NEW chains \in [Lines -> Seq(ChainEvent)], NEW cut \in Chains!Cuts(chains),
         NEW s, s = Chains!SegmentCut(chains, cut)
  PROVE  /\ s = [head |-> s.head, set |-> s.set] /\ s.set \in SUBSET BlockIds /\ s.head \in s.set
         /\ IsFiniteSet(s.set) /\ WeightOf(chains)[cut] \in Nat
<1>1. PICK g \in Lines : \E i \in Chains!CutsOf(chains[g]) : cut = <<g, i>>
  BY DEF Chains!Cuts
<1>2. PICK i \in Chains!CutsOf(chains[g]) : cut = <<g, i>>
  BY <1>1
<1>3. PICK c \in Seq(ChainEvent) : c = chains[g]
  OBVIOUS
<1>4. s = Chains!SegmentAt(c, i)
  BY <1>2, <1>3 DEF Chains!SegmentCut
<1>5. i \in 1 .. Len(c) /\ Cardinality(s.set) > 1
  BY <1>2, <1>3, <1>4, ChainOperators DEF Chains!CutsOf
<1>6. PICK members : members = Chains!MembersAt(c, i)
  OBVIOUS
<1>7. s = [head |-> IF members = {} THEN 0 ELSE c[Min(members)].bbl, set |-> {c[k].bbl : k \in members}]
  BY <1>4, <1>6, ChainOperators DEF Chains!SegmentAt
<1>8. members \subseteq 1 .. Len(c)
  BY <1>5, <1>6 DEF Chains!MembersAt
<1>9. members # {}
  <2>1. s.set # {}
    <3>1. PICK S : S = s.set
      OBVIOUS
    <3>2. Cardinality(S) # 0
      BY <1>5, <3>1
    <3>3. S # {}
      BY <3>2, FS_EmptySet, Zenon
    <3> QED
      BY <3>1, <3>3
  <2> QED
    BY <1>7, <2>1
<1>10. Min(members) \in members
  <2>1. 1 \in Int /\ Len(c) \in Int /\ 1 .. Len(c) \subseteq Int
    OBVIOUS
  <2>2. IsFiniteSet(1 .. Len(c))
    BY <2>1, FS_Interval
  <2>3. IsFiniteSet(members) /\ members \in SUBSET Int
    BY <1>8, <2>1, <2>2, FS_Subset
  <2> QED
    BY <1>9, <2>3, LeastAndGreatest
<1>11. \A k \in members : c[k].bbl \in BlockIds
  <2>1. \A k \in 1 .. Len(c) : c[k] \in ChainEvent
    OBVIOUS
  <2>2. \A k \in 1 .. Len(c) : c[k].bbl \in BlockIds
    BY <2>1, EventFacts
  <2> QED
    BY <1>8, <2>2
<1>12. WeightOf(chains)[cut] \in Nat
  <2>1. Chains!WeightAt(c, i) \in Nat
    BY <1>5, WeightIsNumber
  <2>2. cut[1] = g /\ cut[2] = i
    BY <1>2
  <2> QED
    BY <1>3, <2>1, <2>2 DEF WeightOf
<1>13. IsFiniteSet(s.set)
  <2>1. PICK f : f = [k \in members |-> c[k].bbl]
    OBVIOUS
  <2>2. PICK S : S = s.set
    OBVIOUS
  <2>3. S = {f[k] : k \in members}
    BY <1>7, <2>1, <2>2
  <2>4. f \in Surjection(members, S)
    BY <2>1, <2>3 DEF Surjection
  <2>5. IsFiniteSet(members)
    <3>1. 1 \in Int /\ Len(c) \in Int
      OBVIOUS
    <3> QED
      BY <1>8, <3>1, FS_Interval, FS_Subset
  <2> QED
    BY <2>2, <2>4, <2>5, FS_Surjection
<1>14. s = [head |-> s.head, set |-> s.set] /\ s.set \in SUBSET BlockIds /\ s.head \in s.set
  BY <1>7, <1>9, <1>10, <1>11
<1> QED
  BY <1>12, <1>13, <1>14

\* The segment that a leaf's path stands for.
SegmentOfPath(p) == [head |-> Last(p), set |-> Range(p)]

\* What the leaves P of a trie say of each segment.
ExportOf(rt, P) ==
  [s \in {SegmentOfPath(p) : p \in P} |->
     SumFunctionOnSet(rt.count, {p \in P : SegmentOfPath(p) = s})]

\* The leaves say of each segment how often it was closed.
LEMMA ExportsCuts ==
  ASSUME NEW chains \in [Lines -> Seq(ChainEvent)], NEW rt, CountsOK(rt, chains),
         NEW P, P = DOMAIN rt.count
  PROVE  ExportOf(rt, P) = Chains!SegmentsOf(chains)
<1>1. PICK cuts : cuts = Chains!Cuts(chains)
  OBVIOUS
<1>2. PICK f : f = WeightOf(chains)
  OBVIOUS
<1>3. /\ P = {CutPath(chains, cut) : cut \in cuts}
      /\ \A p \in P : rt.count[p] = SumFunctionOnSet(f, {cut \in cuts : CutPath(chains, cut) = p})
  BY <1>1, <1>2 DEF CountsOK
<1>4. \A cut \in cuts : SegmentOfPath(CutPath(chains, cut)) = Chains!SegmentCut(chains, cut)
  <2> SUFFICES ASSUME NEW cut \in cuts
               PROVE  SegmentOfPath(CutPath(chains, cut)) = Chains!SegmentCut(chains, cut)
    OBVIOUS
  <2>1. PICK s : s = Chains!SegmentCut(chains, cut)
    OBVIOUS
  <2>2. /\ s = [head |-> s.head, set |-> s.set] /\ s.set \in SUBSET BlockIds /\ s.head \in s.set
        /\ IsFiniteSet(s.set)
    BY <1>1, <2>1, CutSegments
  <2>3. PICK p : p = Append(Trie!Sorted(s.set), s.head)
    OBVIOUS
  <2>4. Last(p) = s.head /\ Range(p) = s.set
    BY <2>2, <2>3, PathSegment
  <2>5. CutPath(chains, cut) = p
    BY <2>1, <2>3 DEF CutPath, Trie!LeafPath
  <2> QED
    BY <2>1, <2>2, <2>4, <2>5 DEF SegmentOfPath
<1>5. PICK D : D = {Chains!SegmentCut(chains, cut) : cut \in cuts}
  OBVIOUS
<1>6. {SegmentOfPath(p) : p \in P} = D
  BY <1>3, <1>4, <1>5
<1>7. ASSUME NEW s \in D
      PROVE  SumFunctionOnSet(rt.count, {p \in P : SegmentOfPath(p) = s})
               = SumFunctionOnSet(f, {cut \in cuts : Chains!SegmentCut(chains, cut) = s})
  <2>1. PICK cut \in cuts : s = Chains!SegmentCut(chains, cut)
    BY <1>5
  <2>2. PICK q : q = CutPath(chains, cut)
    OBVIOUS
  <2>3. q \in P /\ SegmentOfPath(q) = s
    BY <1>3, <1>4, <2>1, <2>2
  <2>4. \A other \in cuts : CutPath(chains, other) = q <=> Chains!SegmentCut(chains, other) = s
    BY <1>4, <2>1, <2>2, <2>3 DEF CutPath
  <2>5. {p \in P : SegmentOfPath(p) = s} = {q}
    BY <1>3, <1>4, <2>3, <2>4
  <2>6. rt.count[q] = SumFunctionOnSet(f, {c \in cuts : CutPath(chains, c) = q})
    BY <1>3, <2>3
  <2>7. {c \in cuts : CutPath(chains, c) = q} = {c \in cuts : Chains!SegmentCut(chains, c) = s}
    BY <2>4
  <2>8. SumFunctionOnSet(rt.count, {q}) = rt.count[q]
    <3>1. PICK S : S = {c \in cuts : CutPath(chains, c) = q}
      OBVIOUS
    <3>2. IsFiniteSet(S)
      BY <1>1, <3>1, FS_Subset DEF CountsOK
    <3>3. \A c \in S : f[c] \in Int
      BY <1>1, <1>2, <3>1, CutSegments
    <3>4. rt.count[q] \in Int
      BY <2>6, <3>1, <3>2, <3>3, SumInt
    <3>5. IsFiniteSet({}) /\ q \notin {} /\ \A x \in {} \cup {q} : rt.count[x] \in Int
      BY <3>4, FS_EmptySet
    <3>6. SumFunctionOnSet(rt.count, {} \cup {q}) = rt.count[q] + SumFunctionOnSet(rt.count, {})
      BY <3>5, SumWith
    <3>7. {} \cup {q} = {q}
      OBVIOUS
    <3> QED
      BY <3>4, <3>6, <3>7, SumEmpty
  <2> QED
    BY <2>5, <2>6, <2>7, <2>8
<1>8. Chains!SegmentsOf(chains)
        = [s \in D |-> SumFunctionOnSet(f, {cut \in cuts : Chains!SegmentCut(chains, cut) = s})]
  BY <1>1, <1>2, <1>5, ChainOperators DEF Chains!SegmentsOf, WeightOf
<1> QED
  BY <1>6, <1>7, <1>8 DEF ExportOf

-----------------------------------------------------------------------------
(* One access: the segments and the chains. *)

ReuseOK(m) ==
  /\ {"segs", "root", "leaves", "chain"} \subseteq DOMAIN m
  /\ m.chain \in [Lines -> Seq(ChainEvent)]
  /\ \A g \in Lines : SegOK(SegmentOf(m, g)) /\ IsOpen(SegmentOf(m, g), m.chain[g])
  /\ TrieOK(m.root, m.leaves)
  /\ CountsOK(m.root, m.chain)

\* A cache of the CPU is known by the cost of its hits.
CpuHitsCost == \A l \in CachesOf("CPU") : hierarchy["CPU"][l].hitcost > 0

\* The lines of a reference.
LEMMA LinesOf ==
  ASSUME NEW ref \in References
  PROVE  LineOf(ref.addr) \in Lines /\ NextLine(ref.addr) \in Lines /\ LineOf(ref.addr) # NextLine(ref.addr)
<1>1. ref.addr \in Nat /\ LineSize \in Nat \ {0}
  BY ReferenceAssumption DEF Reference
<1>2. LineOf(ref.addr) \in Int
  BY <1>1 DEF LineOf
<1> QED
  BY <1>2 DEF Lines, NextLine

\* A level is a cache or memory, and only the last cache has just memory below it.
LEMMA LastCache ==
  ASSUME HierarchyOK, NEW s \in Sites, HasFirst(s), NEW top \in {"IL1", "DL1"}
  PROVE  /\ top \in Way(s, top) \cap CachesOf(s)
         /\ Way(s, top) \subseteq CachesOf(s) \cup {"MEM"}
         /\ \E l \in Way(s, top) \cap CachesOf(s) :
              Way(s, l) = {l, "MEM"} /\ \A k \in Way(s, top) \cap CachesOf(s) : Depth[k] <= Depth[l]
<1> DEFINE D == DOMAIN hierarchy[s]
<1>1. D \in Shapes /\ {"IL1", "DL1", "MEM"} \subseteq D
  BY ShapeFacts DEF HierarchyOK, Site
<1>2. top \in Way(s, top) \cap CachesOf(s) /\ Way(s, top) \subseteq CachesOf(s) \cup {"MEM"}
  BY <1>1 DEF Way, CachesOf, Caches, Shapes, Levels
<1>3. \A l : Way(s, l) = {k \in D : k = l \/ Depth[k] > Depth[l]}
  BY DEF Way
<1>4. \A k \in Levels : Depth[k] <= 4
  BY DepthFacts DEF Levels, Caches
<1>5. CASE D = {"IL1", "DL1", "MEM"}
  <2>1. Way(s, top) = {top, "MEM"} /\ Way(s, top) \cap CachesOf(s) = {top}
    BY <1>3, <1>5, DepthFacts DEF CachesOf, Caches
  <2>2. Depth[top] <= Depth[top]
    BY DepthFacts
  <2> QED
    BY <1>2, <2>1, <2>2
<1>6. CASE D = {"IL1", "DL1", "UL2", "MEM"}
  <2>1. Way(s, "UL2") = {"UL2", "MEM"}
    BY <1>3, <1>6, DepthFacts
  <2>2. Way(s, top) \cap CachesOf(s) = {top, "UL2"}
    BY <1>3, <1>6, DepthFacts DEF CachesOf, Caches
  <2>3. Depth[top] <= Depth["UL2"] /\ Depth["UL2"] <= Depth["UL2"]
    BY DepthFacts
  <2> QED
    BY <1>2, <2>1, <2>2, <2>3
<1>7. CASE D = Levels
  <2>1. Way(s, "UL3") = {"UL3", "MEM"}
    BY <1>3, <1>7, DepthFacts DEF Levels, Caches
  <2>2. Way(s, top) \cap CachesOf(s) = {top, "UL2", "UL3"}
    BY <1>3, <1>7, DepthFacts DEF CachesOf, Levels, Caches
  <2>3. Depth[top] <= Depth["UL3"] /\ Depth["UL2"] <= Depth["UL3"] /\ Depth["UL3"] <= Depth["UL3"]
    BY DepthFacts
  <2> QED
    BY <1>2, <2>1, <2>2, <2>3
<1> QED
  BY <1>1, <1>5, <1>6, <1>7 DEF Shapes

\* Where the references of a site enter its levels.
Enters(s, top) == IF HasFirst(s) THEN top \in {"IL1", "DL1"} ELSE top = "MEM"

\* The access that its line's chain remembers is the one that the code does
\* something for (Storage.cpp:275-296).
LEMMA Branches ==
  ASSUME HierarchyOK, CpuHitsCost, NEW m, NEW s \in Sites,
         NEW top, Enters(s, top),
         NEW line, NEW ref, NEW reached, reached = Reached(m, s, top, line, Type(ref)),
         NEW event, event = Event(s, reached, m, line, ref),
         NEW after, after = Segments(m, s, reached, line, ref)
  PROVE  \/ event = "none" /\ after = m
         \/ event = "miss" /\ after = SplitOnMiss(m, line)
         \/ event = Type(ref) /\ Charged(ref.bbl) /\ after = InsertOnHit(m, line, ref)
<1> USE DEF Enters
<1>1. CASE s # "CPU"
  BY <1>1 DEF Event, Segments, IsCpuCache
<1>2. CASE s = "CPU" /\ ~HasFirst(s)
  <2>1. reached \subseteq {"MEM"}
    BY <1>2, ShapeFacts DEF Reached, Way
  <2>2. "MEM" \notin Caches
    BY DEF Caches
  <2> QED
    BY <2>1, <2>2 DEF Event, Segments, IsCpuCache
<1>3. CASE s = "CPU" /\ HasFirst(s)
  <2>1. reached \subseteq Way(s, top) /\ top \in CachesOf(s) /\ "MEM" \notin CachesOf(s)
        /\ Way(s, top) \subseteq CachesOf(s) \cup {"MEM"}
    BY <1>3, LastCache DEF Reached, CachesOf, Caches
  <2>2. top \in reached
    BY <1>3, WayDown DEF Descends
  <2>3. \A l \in CachesOf(s) : IsCpuCache(s, l)
    BY <1>3 DEF CpuHitsCost, IsCpuCache, CachesOf
  <2>4. \A l : IsCpuCache(s, l) => l # "MEM"
    BY DEF IsCpuCache, Caches
  <2>5. CASE "MEM" \in reached
    <3>1. event = "miss"
      BY <1>3, <2>1, <2>2, <2>5 DEF Event
    <3>2. \A k \in CachesOf(s) : Depth[k] < Depth["MEM"] /\ Depth[k] \in Nat
      BY DepthFacts DEF CachesOf, Caches
    <3>3. \A k \in Way(s, top) \cap CachesOf(s) : MissGoesOn(m, s, k, line, Type(ref))
      BY <2>5, <3>2 DEF Reached
    <3>4. \A k \in Way(s, top) \cap CachesOf(s) : ~Holds(m, s, k, line)
      BY <3>3 DEF MissGoesOn
    <3>5. PICK l \in Way(s, top) \cap CachesOf(s) : Way(s, l) = {l, "MEM"}
      BY <1>3, LastCache
    <3>6. l \in reached
      <4>1. \A k \in Way(s, top) : Depth[k] < Depth[l] => k \in CachesOf(s)
        <5>1. ~(Depth["MEM"] < Depth[l])
          BY <3>2, DepthFacts
        <5> QED
          BY <2>1, <5>1
      <4> QED
        BY <3>3, <3>5, <4>1 DEF Reached
    <3>7. ~\E k \in reached : IsCpuCache(s, k) /\ Holds(m, s, k, line)
      BY <2>1, <2>4, <3>4
    <3> QED
      BY <2>3, <2>5, <3>1, <3>5, <3>6, <3>7 DEF Segments
  <2>6. CASE "MEM" \notin reached
    <3>1. \A k \in reached : IsCpuCache(s, k)
      BY <2>1, <2>3, <2>6
    <3>2. event = IF (\E l \in reached : Holds(m, s, l, line)) /\ Charged(ref.bbl)
                  THEN Type(ref) ELSE "none"
      BY <1>3, <2>1, <2>2, <2>6 DEF Event
    <3>3. after = IF \E l \in reached : Holds(m, s, l, line) THEN InsertOnHit(m, line, ref) ELSE m
      BY <2>6, <3>1 DEF Segments
    <3>4. ~Charged(ref.bbl) => InsertOnHit(m, line, ref) = m
      BY DEF InsertOnHit
    <3> QED
      BY <3>2, <3>3, <3>4
  <2> QED
    BY <2>5, <2>6
<1> QED
  BY <1>1, <1>2, <1>3 DEF Sites

\* What the code does for an access: the segment of its line goes on with it, and
\* what a store or miss ends goes into the trie (Storage.cpp:63-93).
Follows(m, n, line, e, closed) ==
  /\ n.root = IF e.op # "load" THEN Trie!UpdateTrie(m.root, closed) ELSE m.root
  /\ n.leaves = IF e.op # "load" /\ Trie!NewLeaf(m.root, closed)
                THEN Append(m.leaves, Trie!LeafPath(closed)) ELSE m.leaves
  /\ SegmentOf(n, line) = Evolved(SegmentOf(m, line), e)
  /\ \A g \in Lines \ {line} : SegmentOf(n, g) = SegmentOf(m, g)

\* Split keeps the segments of the other lines.
LEMMA SplitFacts ==
  ASSUME NEW m, ReuseOK(m), NEW line, NEW seg, NEW rest, NEW n, n = Split(m, line, seg, rest)
  PROVE  /\ n.root = Trie!UpdateTrie(m.root, seg)
         /\ n.leaves = IF Trie!NewLeaf(m.root, seg) THEN Append(m.leaves, Trie!LeafPath(seg)) ELSE m.leaves
         /\ SegmentOf(n, line) = rest
         /\ \A g \in Lines \ {line} : SegmentOf(n, g) = SegmentOf(m, g)
<1>1. {"segs", "root", "leaves"} \subseteq DOMAIN m
  BY DEF ReuseOK
<1>2. /\ n.segs = [g \in (DOMAIN m.segs) \cup {line} |-> IF g = line THEN rest ELSE m.segs[g]]
      /\ n.root = Trie!UpdateTrie(m.root, seg)
      /\ n.leaves = IF Trie!NewLeaf(m.root, seg) THEN Append(m.leaves, Trie!LeafPath(seg)) ELSE m.leaves
  BY <1>1 DEF Split
<1>3. line \in DOMAIN n.segs /\ n.segs[line] = rest
  BY <1>2
<1>4. \A g : g # line => /\ g \in DOMAIN n.segs <=> g \in DOMAIN m.segs
                         /\ g \in DOMAIN m.segs => n.segs[g] = m.segs[g]
  BY <1>2
<1> QED
  BY <1>2, <1>3, <1>4 DEF SegmentOf

\* An access that hits goes into the segment; a store ends it and begins the next.
LEMMA HitFollows ==
  ASSUME NEW m, ReuseOK(m), NEW line \in Lines, NEW ref \in References, Charged(ref.bbl),
         NEW e \in ChainEvent, e = [bbl |-> ref.bbl, op |-> Type(ref), weight |-> ref.threads],
         NEW n, n = InsertOnHit(m, line, ref)
  PROVE  Follows(m, n, line, e, Closed(SegmentOf(m, line), e))
<1>1. PICK old : old = SegmentOf(m, line)
  OBVIOUS
<1>2. PICK seg : seg = InsertBbl(old, ref)
  OBVIOUS
<1>3. \A x : InsertBbl(x, ref) = Inserted(x, e)
  BY DEF InsertBbl, Inserted
<1>4. CASE ref.kind = "store"
  <2>1. e.op = "store"
    BY <1>4 DEF Type
  <2>2. PICK rest : rest = AfterStore(seg, ref)
    OBVIOUS
  <2>3. n = Split(m, line, seg, rest)
    BY <1>1, <1>2, <1>4, <2>2 DEF InsertOnHit
  <2>4. seg = Closed(old, e) /\ rest = Evolved(old, e)
    BY <1>2, <1>3, <2>1, <2>2 DEF Closed, Evolved, AfterStore
  <2>5. /\ n.root = Trie!UpdateTrie(m.root, seg)
        /\ n.leaves = IF Trie!NewLeaf(m.root, seg) THEN Append(m.leaves, Trie!LeafPath(seg)) ELSE m.leaves
        /\ SegmentOf(n, line) = rest
        /\ \A g \in Lines \ {line} : SegmentOf(n, g) = SegmentOf(m, g)
    BY <2>3, SplitFacts
  <2> QED
    BY <1>1, <2>1, <2>4, <2>5 DEF Follows
<1>5. CASE ref.kind # "store"
  <2>1. e.op = "load"
    BY <1>5 DEF Type
  <2>2. n = [m EXCEPT !.segs = [g \in (DOMAIN @) \cup {line} |-> IF g = line THEN seg ELSE @[g]]]
    BY <1>1, <1>2, <1>5 DEF InsertOnHit
  <2>3. /\ n.segs = [g \in (DOMAIN m.segs) \cup {line} |-> IF g = line THEN seg ELSE m.segs[g]]
        /\ n.root = m.root /\ n.leaves = m.leaves
    BY <2>2 DEF ReuseOK
  <2>4. line \in DOMAIN n.segs /\ n.segs[line] = seg
    BY <2>3
  <2>5. \A g : g # line => /\ g \in DOMAIN n.segs <=> g \in DOMAIN m.segs
                           /\ g \in DOMAIN m.segs => n.segs[g] = m.segs[g]
    BY <2>3
  <2>6. SegmentOf(n, line) = seg /\ \A g \in Lines \ {line} : SegmentOf(n, g) = SegmentOf(m, g)
    BY <2>4, <2>5 DEF SegmentOf
  <2>7. seg = Evolved(old, e)
    BY <1>2, <1>3, <2>1 DEF Evolved
  <2> QED
    BY <1>1, <2>1, <2>3, <2>6, <2>7 DEF Follows
<1> QED
  BY <1>4, <1>5

\* A miss ends the segment, if there is one.
LEMMA MissFollows ==
  ASSUME NEW m, ReuseOK(m), NEW line \in Lines, NEW e \in ChainEvent, e.op = "miss",
         NEW n, n = SplitOnMiss(m, line)
  PROVE  Follows(m, n, line, e, Closed(SegmentOf(m, line), e))
<1>1. PICK old : old = SegmentOf(m, line)
  OBVIOUS
<1>2. PICK rest : rest = Trie!SegClear(old)
  OBVIOUS
<1>3. n = Split(m, line, old, rest)
  BY <1>1, <1>2 DEF SplitOnMiss
<1>4. /\ n.root = Trie!UpdateTrie(m.root, old)
      /\ n.leaves = IF Trie!NewLeaf(m.root, old) THEN Append(m.leaves, Trie!LeafPath(old)) ELSE m.leaves
      /\ SegmentOf(n, line) = rest
      /\ \A g \in Lines \ {line} : SegmentOf(n, g) = SegmentOf(m, g)
  BY <1>3, SplitFacts
<1>5. old = Closed(old, e) /\ rest = Evolved(old, e)
  BY <1>2 DEF Closed, Evolved
<1> QED
  BY <1>1, <1>4, <1>5 DEF Follows

\* What the code does for an access is what a cut of the chain does.
LEMMA Advance ==
  ASSUME NEW m, ReuseOK(m), NEW line \in Lines, NEW e \in ChainEvent,
         NEW n, {"segs", "root", "leaves", "chain"} \subseteq DOMAIN n,
         n.chain = [m.chain EXCEPT ![line] = Append(@, e)],
         Follows(m, n, line, e, Closed(SegmentOf(m, line), e))
  PROVE  ReuseOK(n)
<1>1. PICK seg : seg = SegmentOf(m, line)
  OBVIOUS
<1>2. PICK closed : closed = Closed(seg, e)
  OBVIOUS
<1>3. PICK chains : chains = m.chain
  OBVIOUS
<1>4. PICK new : new = n.chain
  OBVIOUS
<1>5. SegOK(seg) /\ seg \in Trie!Segment /\ chains \in [Lines -> Seq(ChainEvent)] /\ IsOpen(seg, chains[line])
  BY <1>1, <1>3 DEF ReuseOK, SegOK
<1>6. SegOK(closed)
  BY <1>2, <1>5, SegmentKinds DEF Closed
<1>7. PICK k : k = Len(chains[line]) + 1
  OBVIOUS
<1>8. new = [chains EXCEPT ![line] = Append(@, e)] /\ new \in [Lines -> Seq(ChainEvent)]
  BY <1>3, <1>4, <1>5
<1>9. CutsGo(chains, new, <<line, k>>, e.op # "load", closed)
  BY <1>2, <1>5, <1>7, <1>8, LineCuts
<1>10. PICK ends \in BOOLEAN : ends = (e.op # "load")
  OBVIOUS
<1>11. /\ n.root = IF ends THEN Trie!UpdateTrie(m.root, closed) ELSE m.root
       /\ n.leaves = IF ends /\ Trie!NewLeaf(m.root, closed)
                     THEN Append(m.leaves, Trie!LeafPath(closed)) ELSE m.leaves
       /\ SegmentOf(n, line) = Evolved(seg, e)
       /\ \A g \in Lines \ {line} : SegmentOf(n, g) = SegmentOf(m, g)
  BY <1>1, <1>2, <1>10 DEF Follows
<1>12. CountsOK(n.root, new)
  <2>1. CountsOK(m.root, chains)
    BY <1>3 DEF ReuseOK
  <2>2. CutsGo(chains, new, <<line, k>>, ends, closed)
    BY <1>9, <1>10
  <2>3. PICK nrt : nrt = IF ends THEN Trie!UpdateTrie(m.root, closed) ELSE m.root
    OBVIOUS
  <2>4. CountsOK(nrt, new)
    BY <1>6, <2>1, <2>2, <2>3, CountsGrow
  <2> QED
    BY <1>11, <2>3, <2>4
<1>13. TrieOK(n.root, n.leaves)
  <2>1. TrieOK(m.root, m.leaves)
    BY DEF ReuseOK
  <2>2. CASE ends
    <3>1. TrieOK(Trie!UpdateTrie(m.root, closed),
                 IF Trie!NewLeaf(m.root, closed) THEN Append(m.leaves, Trie!LeafPath(closed)) ELSE m.leaves)
      BY <1>6, <2>1, SplitKeepsTrie
    <3> QED
      BY <1>11, <2>2, <3>1
  <2>3. CASE ~ends
    BY <1>11, <2>1, <2>3
  <2> QED
    BY <2>2, <2>3
<1>14. ASSUME NEW g \in Lines PROVE SegOK(SegmentOf(n, g)) /\ IsOpen(SegmentOf(n, g), new[g])
  <2>1. CASE g = line
    <3>1. IsOpen(Evolved(seg, e), Append(chains[line], e))
      BY <1>5, OpenKeeps
    <3>2. new[line] = Append(chains[line], e)
      BY <1>5, <1>8
    <3>3. SegOK(Evolved(seg, e))
      BY <1>5, SegmentKinds DEF Evolved
    <3> QED
      BY <1>11, <2>1, <3>1, <3>2, <3>3
  <2>2. CASE g # line
    <3>1. SegmentOf(n, g) = SegmentOf(m, g) /\ new[g] = chains[g]
      BY <1>5, <1>8, <1>11, <2>2
    <3> QED
      BY <1>3, <3>1 DEF ReuseOK
  <2> QED
    BY <2>1, <2>2
<1> QED
  BY <1>4, <1>8, <1>12, <1>13, <1>14 DEF ReuseOK

\* The chains d are the chains c with at most one access more to each line of G.
OneMore(c, d, G) ==
  \A g \in Lines : d[g] = c[g] \/ (g \in G /\ \E e \in ChainEvent : d[g] = Append(c[g], e))

\* What accesses at a site to the lines of G may make of m.
Extended(m, n, s, G) ==
  /\ ReuseOK(n) /\ OneMore(m.chain, n.chain, G)
  /\ s = "PIM" => n.chain = m.chain

\* An access keeps the segments those that the chains have open.
LEMMA AccessReuse ==
  ASSUME HierarchyOK, CpuHitsCost, NEW m, ReuseOK(m), NEW s \in Sites,
         NEW top, Enters(s, top),
         NEW line \in Lines, NEW ref \in References,
         NEW n, n = AccessSingleLine(m, s, top, line, ref)
  PROVE  Extended(m, n, s, {line})
<1>1. PICK reached : reached = Reached(m, s, top, line, Type(ref))
  OBVIOUS
<1>2. PICK event : event = Event(s, reached, m, line, ref)
  OBVIOUS
<1>3. PICK after : after = Segments(m, s, reached, line, ref)
  OBVIOUS
<1>4. /\ {"segs", "root", "leaves", "chain"} \subseteq DOMAIN n
      /\ n.segs = after.segs /\ n.root = after.root /\ n.leaves = after.leaves
      /\ n.chain = Observed(m, s, reached, line, ref)
  BY <1>1, <1>3 DEF AccessSingleLine
<1>5. PICK e : e = [bbl |-> ref.bbl, op |-> event, weight |-> ref.threads]
  OBVIOUS
<1>6. n.chain = IF event = "none" THEN m.chain ELSE [m.chain EXCEPT ![line] = Append(@, e)]
  BY <1>2, <1>4, <1>5 DEF Observed
<1>7. \/ event = "none" /\ after = m
      \/ event = "miss" /\ after = SplitOnMiss(m, line)
      \/ event = Type(ref) /\ Charged(ref.bbl) /\ after = InsertOnHit(m, line, ref)
  BY <1>1, <1>2, <1>3, Branches
<1>8. s = "PIM" => event = "none"
  BY <1>2 DEF Event
<1>9. \A g : SegmentOf(n, g) = SegmentOf(after, g)
  BY <1>4 DEF SegmentOf
<1>10. m.chain \in [Lines -> Seq(ChainEvent)]
  BY DEF ReuseOK
<1>11. CASE event = "none"
  <2>1. after = m
    BY <1>7, <1>11 DEF Type
  <2>2. n.chain = m.chain /\ n.root = m.root /\ n.leaves = m.leaves
    BY <1>4, <1>6, <1>11, <2>1
  <2>3. \A g : SegmentOf(n, g) = SegmentOf(m, g)
    BY <1>9, <2>1
  <2>4. ReuseOK(n)
    BY <1>4, <2>2, <2>3 DEF ReuseOK
  <2> QED
    BY <2>2, <2>4 DEF OneMore, Extended
<1>12. CASE event # "none"
  <2>1. event \in {"miss", "load", "store"}
    BY <1>7, <1>12 DEF Type
  <2>2. e \in ChainEvent
    <3>1. ref.bbl \in Bbls \cup {GLOBAL_BBLID}
      BY ReferenceAssumption DEF Reference
    <3>2. ref.threads \in {r.threads : r \in References}
      OBVIOUS
    <3> QED
      BY <1>5, <2>1, <3>1, <3>2 DEF ChainEvent, Chains!Access, Chains!Op
  <2>3. PICK closed : closed = Closed(SegmentOf(m, line), e)
    OBVIOUS
  <2>4. e.op = event
    BY <1>5
  <2>5. Follows(m, after, line, e, closed)
    <3>1. CASE event = "miss"
      <4>1. after = SplitOnMiss(m, line)
        BY <1>7, <3>1 DEF Type
      <4> QED
        BY <2>2, <2>3, <2>4, <3>1, <4>1, MissFollows
    <3>2. CASE event # "miss"
      <4>1. event = Type(ref) /\ Charged(ref.bbl) /\ after = InsertOnHit(m, line, ref)
        BY <1>7, <1>12, <3>2
      <4>2. e = [bbl |-> ref.bbl, op |-> Type(ref), weight |-> ref.threads]
        BY <1>5, <4>1
      <4> QED
        BY <2>2, <2>3, <4>1, <4>2, HitFollows
    <3> QED
      BY <3>1, <3>2
  <2>6. Follows(m, n, line, e, closed)
    BY <1>4, <1>9, <2>5 DEF Follows
  <2>7. n.chain = [m.chain EXCEPT ![line] = Append(@, e)]
    BY <1>6, <1>12
  <2>8. ReuseOK(n)
    BY <1>4, <2>2, <2>3, <2>6, <2>7, Advance
  <2>9. n.chain[line] = Append(m.chain[line], e) /\ \A g \in Lines \ {line} : n.chain[g] = m.chain[g]
    BY <1>10, <2>7
  <2>10. OneMore(m.chain, n.chain, {line})
    BY <2>2, <2>9 DEF OneMore
  <2> QED
    BY <1>8, <1>12, <2>8, <2>10 DEF Extended
<1> QED
  BY <1>11, <1>12

-----------------------------------------------------------------------------
(* What a reference does to segments and chains at one site. *)

\* Two accesses of a reference are to two lines.
LEMMA TwoLines ==
  ASSUME NEW m, NEW first, NEW n, NEW s, NEW g, NEW h, g # h,
         Extended(m, first, s, {g}), Extended(first, n, s, {h})
  PROVE  Extended(m, n, s, Lines)
BY DEF OneMore, Extended

\* Lines that no access is made to stay.
LEMMA MoreLines ==
  ASSUME NEW m, ReuseOK(m), NEW s, NEW g
  PROVE  /\ Extended(m, m, s, {g})
         /\ \A n : Extended(m, n, s, {g}) => Extended(m, n, s, Lines)
BY DEF OneMore, Extended

\* A fetch makes up to two accesses.
LEMMA FetchReuse ==
  ASSUME HierarchyOK, CpuHitsCost, NEW m, ReuseOK(m), NEW s \in Sites, HasFirst(s),
         NEW ref \in References
  PROVE  Extended(m, Fetch(m, s, ref), s, Lines)
<1>1. PICK line \in Lines : line = LineOf(ref.addr)
  BY LinesOf
<1>2. PICK next \in Lines : next = NextLine(ref.addr) /\ next # line
  BY <1>1, LinesOf
<1>3. Enters(s, "IL1")
  BY DEF Enters
<1>4. PICK first : first = AccessIf(line # m.last_icacheline[s], m, s, "IL1", line, ref)
  OBVIOUS
<1>5. Extended(m, first, s, {line})
  <2>1. first = m \/ first = AccessSingleLine(m, s, "IL1", line, ref)
    BY <1>4 DEF AccessIf
  <2>2. CASE first = m
    BY <2>2, MoreLines
  <2>3. CASE first = AccessSingleLine(m, s, "IL1", line, ref)
    BY <1>3, <2>3, AccessReuse
  <2> QED
    BY <2>1, <2>2, <2>3
<1>6. PICK second : second = AccessIf(Crosses(ref), first, s, "IL1", next, ref)
  OBVIOUS
<1>7. ReuseOK(first)
  BY <1>5 DEF Extended
<1>8. Extended(first, second, s, {next})
  <2>1. second = first \/ second = AccessSingleLine(first, s, "IL1", next, ref)
    BY <1>6 DEF AccessIf
  <2>2. CASE second = first
    BY <1>7, <2>2, MoreLines
  <2>3. CASE second = AccessSingleLine(first, s, "IL1", next, ref)
    BY <1>3, <1>7, <2>3, AccessReuse
  <2> QED
    BY <2>1, <2>2, <2>3
<1>9. Extended(m, second, s, Lines)
  BY <1>2, <1>5, <1>8, TwoLines
<1>10. PICK n : n = [second EXCEPT !.last_icacheline[s] = LastLine(ref)]
  OBVIOUS
<1>11. Fetch(m, s, ref) = n
  BY <1>1, <1>2, <1>4, <1>6, <1>10 DEF Fetch
<1>12. /\ DOMAIN n = DOMAIN second
       /\ n.chain = second.chain /\ n.segs = second.segs /\ n.root = second.root
       /\ n.leaves = second.leaves
  BY <1>9, <1>10 DEF Extended, ReuseOK
<1>13. ReuseOK(n)
  <2>1. \A g : SegmentOf(n, g) = SegmentOf(second, g)
    BY <1>12 DEF SegmentOf
  <2> QED
    BY <1>9, <1>12, <2>1 DEF Extended, ReuseOK
<1> QED
  BY <1>9, <1>11, <1>12, <1>13 DEF Extended

\* Also where there is no cache, and a fetch may access memory.
LEMMA OutcomeReuse ==
  ASSUME HierarchyOK, CpuHitsCost, NEW m, ReuseOK(m), NEW s \in Sites, NEW ref \in References,
         NEW n \in FetchOutcomes(m, s, ref)
  PROVE  Extended(m, n, s, Lines)
<1>1. CASE HasFirst(s)
  <2>1. n = Fetch(m, s, ref)
    BY <1>1 DEF FetchOutcomes, HasFirst, CachesOf
  <2> QED
    BY <1>1, <2>1, FetchReuse
<1>2. CASE ~HasFirst(s)
  <2>1. PICK line \in Lines : line = LineOf(ref.addr)
    BY LinesOf
  <2>2. PICK next \in Lines : next = NextLine(ref.addr) /\ next # line
    BY <2>1, LinesOf
  <2>3. PICK once : once = AccessSingleLine(m, s, "MEM", line, ref)
    OBVIOUS
  <2>4. PICK twice : twice = AccessSingleLine(once, s, "MEM", next, ref)
    OBVIOUS
  <2>5. n \in {m, once, twice}
    BY <1>2, <2>1, <2>2, <2>3, <2>4 DEF FetchOutcomes, HasFirst, CachesOf, Caches
  <2>6. Enters(s, "MEM")
    BY <1>2 DEF Enters
  <2>7. Extended(m, once, s, {line})
    BY <2>3, <2>6, AccessReuse
  <2>8. ReuseOK(once)
    BY <2>7 DEF Extended
  <2>9. Extended(once, twice, s, {next})
    BY <2>4, <2>6, <2>8, AccessReuse
  <2>10. Extended(m, m, s, Lines) /\ Extended(m, once, s, Lines)
    BY <2>7, MoreLines
  <2>11. Extended(m, twice, s, Lines)
    BY <2>2, <2>7, <2>9, TwoLines
  <2> QED
    BY <2>5, <2>10, <2>11
<1> QED
  BY <1>1, <1>2

\* A load or store makes one access or two.
LEMMA DataReuse ==
  ASSUME HierarchyOK, CpuHitsCost, NEW m, ReuseOK(m), NEW s \in Sites, NEW ref \in References
  PROVE  Extended(m, Access(m, s, ref), s, Lines)
<1>1. PICK line \in Lines : line = LineOf(ref.addr)
  BY LinesOf
<1>2. PICK next \in Lines : next = NextLine(ref.addr) /\ next # line
  BY <1>1, LinesOf
<1>3. PICK top : top = Top(s, "DL1")
  OBVIOUS
<1>4. Enters(s, top)
  BY <1>3, ShapeFacts DEF Top, Enters
<1>5. PICK first : first = AccessSingleLine(m, s, top, line, ref)
  OBVIOUS
<1>6. PICK second : second = AccessSingleLine(first, s, top, next, ref)
  OBVIOUS
<1>7. Access(m, s, ref) \in {first, second}
  BY <1>1, <1>2, <1>3, <1>5, <1>6 DEF Access, AccessIf
<1>8. Extended(m, first, s, {line})
  BY <1>4, <1>5, AccessReuse
<1>9. ReuseOK(first)
  BY <1>8 DEF Extended
<1>10. Extended(first, second, s, {next})
  BY <1>4, <1>6, <1>9, AccessReuse
<1>11. Extended(m, first, s, Lines)
  BY <1>8, MoreLines
<1>12. Extended(m, second, s, Lines)
  BY <1>2, <1>8, <1>10, TwoLines
<1> QED
  BY <1>7, <1>11, <1>12

-----------------------------------------------------------------------------
(* The whole program. *)

ReuseInv == HierarchyOK /\ CpuHitsCost /\ ReuseOK(State)

\* No segment is open and no trie has a path before the first access.
LEMMA ReuseInit == Init => ReuseInv
<1> SUFFICES ASSUME Init PROVE ReuseInv
  OBVIOUS
<1>1. HierarchyOK
  BY HierarchyAssumption DEF Init, HierarchyOK
<1>2. CpuHitsCost
  BY HitCostAssumption DEF Init, CpuHitsCost, CachesOf
<1>3. /\ {"segs", "root", "leaves", "chain"} \subseteq DOMAIN State
      /\ State.segs = segs /\ State.root = root /\ State.leaves = leaves /\ State.chain = chain
  BY DEF State
<1>4. chain = [g \in Lines |-> << >>] /\ << >> \in Seq(ChainEvent)
  BY DEF Init
<1>5. OpenAt(<< >>) = {} /\ Chains!CutsOf(<< >>) = {}
  BY DEF OpenAt, Chains!CutsOf
<1>6. Heaviest(<< >>, {}) = 1
  <2>1. {1} \cup {<< >>[k].weight : k \in {}} = {1} /\ Max({1}) = 1
    BY DEF Max
  <2> QED
    BY <2>1 DEF Heaviest
<1>7. ASSUME NEW g \in Lines
      PROVE  SegOK(SegmentOf(State, g)) /\ IsOpen(SegmentOf(State, g), chain[g])
  <2>1. SegmentOf(State, g) = Trie!NewSegment /\ chain[g] = << >>
    BY <1>3, <1>4 DEF Init, SegmentOf
  <2>2. IsOpen(Trie!NewSegment, << >>)
    BY <1>5, <1>6 DEF IsOpen, Trie!NewSegment
  <2> QED
    BY <2>1, <2>2, SegmentKinds
<1>8. root.nodes = {<< >>} /\ root.count = << >> /\ leaves = << >>
  BY DEF Init, Trie!EmptyRoot
<1>9. TrieOK(root, leaves)
  <2>1. << >> \in Seq(BlockIds) /\ << >> \in Seq(Seq(BlockIds)) /\ DOMAIN << >> = {}
    OBVIOUS
  <2>2. Range(leaves) = {} /\ DOMAIN leaves = {} /\ DOMAIN root.count = {}
    BY <1>8, <2>1 DEF Range
  <2> QED
    BY <1>8, <2>1, <2>2 DEF TrieOK
<1>10. CountsOK(root, chain)
  <2>1. Chains!Cuts(chain) = {}
    BY <1>4, <1>5 DEF Chains!Cuts
  <2>2. DOMAIN root.count = {}
    BY <1>8
  <2> QED
    BY <2>1, <2>2, FS_EmptySet DEF CountsOK
<1>11. ReuseOK(State)
  BY <1>3, <1>4, <1>7, <1>9, <1>10 DEF ReuseOK
<1> QED
  BY <1>1, <1>2, <1>11 DEF ReuseInv

\* The invariant is about what a reference leaves, whatever else it changed.
LEMMA ReuseBecome ==
  ASSUME HierarchyOK, CpuHitsCost, UNCHANGED hierarchy, NEW n, ReuseOK(n),
         segs' = n.segs, root' = n.root, leaves' = n.leaves, chain' = n.chain
  PROVE  ReuseInv'
<1>1. /\ {"segs", "root", "leaves", "chain"} \subseteq DOMAIN State'
      /\ State'.segs = n.segs /\ State'.root = n.root /\ State'.leaves = n.leaves
      /\ State'.chain = n.chain
  BY DEF State
<1>2. \A g : SegmentOf(State', g) = SegmentOf(n, g)
  BY <1>1 DEF SegmentOf
<1>3. ReuseOK(State')
  BY <1>1, <1>2 DEF ReuseOK
<1>4. ReuseOK(State)'
  BY <1>3
<1>5. HierarchyOK'
  BY DEF HierarchyOK
<1>6. CpuHitsCost'
  BY DEF CpuHitsCost, CachesOf
<1> QED
  BY <1>4, <1>5, <1>6 DEF ReuseInv

\* What a step does to the chains.
Touched == ReuseInv' /\ OneMore(chain, chain', Lines)

\* A reference accesses the caches of the CPU and then those of the PIM site, which
\* no chain remembers.
LEMMA SitesTouch ==
  ASSUME ReuseInv, UNCHANGED hierarchy, NEW m, NEW n,
         Extended(State, m, "CPU", Lines), Extended(m, n, "PIM", Lines), Become(n)
  PROVE  Touched
<1>1. n.chain = m.chain /\ OneMore(chain, m.chain, Lines) /\ ReuseOK(n)
  BY DEF Extended, State
<1>2. segs' = n.segs /\ root' = n.root /\ leaves' = n.leaves /\ chain' = n.chain
  BY DEF Become
<1>3. ReuseInv'
  BY <1>1, <1>2, ReuseBecome DEF ReuseInv
<1> QED
  BY <1>1, <1>2, <1>3 DEF Touched

\* Both kinds of references keep the segments and the trie those of the chains.
LEMMA ReuseStep == ReuseInv /\ [Next]_vars => Touched
<1> SUFFICES ASSUME ReuseInv, [Next]_vars PROVE Touched
  OBVIOUS
<1>1. HierarchyOK /\ CpuHitsCost /\ ReuseOK(State) /\ "CPU" \in Sites /\ "PIM" \in Sites
  BY DEF ReuseInv, Sites
<1>2. ASSUME NEW ref \in References, InstrCacheRef(ref) PROVE Touched
  <2>1. PICK m \in FetchOutcomes(State, "CPU", ref) :
          \E n \in FetchOutcomes(m, "PIM", ref) : Become(n)
    BY <1>2 DEF InstrCacheRef
  <2>2. PICK n \in FetchOutcomes(m, "PIM", ref) : Become(n)
    BY <2>1
  <2>3. Extended(State, m, "CPU", Lines)
    BY <1>1, OutcomeReuse
  <2>4. ReuseOK(m)
    BY <2>3 DEF Extended
  <2>5. Extended(m, n, "PIM", Lines)
    BY <1>1, <2>4, OutcomeReuse
  <2>6. UNCHANGED hierarchy
    BY <1>2 DEF InstrCacheRef
  <2> QED
    BY <2>2, <2>3, <2>5, <2>6, SitesTouch
<1>3. ASSUME NEW ref \in References, DataCacheRef(ref) PROVE Touched
  <2>1. PICK m : m = Access(State, "CPU", ref)
    OBVIOUS
  <2>2. PICK n : n = Access(m, "PIM", ref)
    OBVIOUS
  <2>3. Become(n) /\ UNCHANGED hierarchy
    BY <1>3, <2>1, <2>2 DEF DataCacheRef
  <2>4. Extended(State, m, "CPU", Lines)
    BY <1>1, <2>1, DataReuse
  <2>5. ReuseOK(m)
    BY <2>4 DEF Extended
  <2>6. Extended(m, n, "PIM", Lines)
    BY <1>1, <2>2, <2>5, DataReuse
  <2> QED
    BY <2>3, <2>4, <2>6, SitesTouch
<1>4. CASE UNCHANGED vars
  <2>1. /\ segs' = State.segs /\ root' = State.root /\ leaves' = State.leaves
        /\ chain' = State.chain /\ UNCHANGED hierarchy
    BY <1>4 DEF vars, State
  <2>2. ReuseInv'
    BY <1>1, <2>1, ReuseBecome
  <2>3. OneMore(chain, chain', Lines)
    BY <2>1 DEF OneMore, State
  <2> QED
    BY <2>2, <2>3 DEF Touched
<1> QED
  BY <1>2, <1>3, <1>4 DEF Next

\* The segment of every line is the one its chain has open, the trie's leaves are
\* the paths of the segments closed, and each counts what its cuts weigh.
THEOREM ReuseInvariant == Spec => []ReuseInv
<1>1. ReuseInv /\ [Next]_vars => ReuseInv'
  BY ReuseStep DEF Touched
<1> QED
  BY <1>1, ReuseInit, PTL DEF Spec

-----------------------------------------------------------------------------
(* The refinement. *)

ExportsOK == Exported = Chains!SegmentsOf(chain)

\* The leaves that are listed are the nodes that count.
LEMMA ExportsAreCuts == ReuseInv => ExportsOK
<1> SUFFICES ASSUME ReuseInv PROVE Exported = Chains!SegmentsOf(chain)
  BY DEF ExportsOK
<1>1. PICK rt : rt = root
  OBVIOUS
<1>2. ReuseOK(State) /\ State.chain = chain /\ State.root = root /\ State.leaves = leaves
  BY DEF ReuseInv, State
<1>3. PICK chains \in [Lines -> Seq(ChainEvent)] : chains = chain
  BY <1>2 DEF ReuseOK
<1>4. PICK P : P = Range(leaves)
  OBVIOUS
<1>5. CountsOK(rt, chains) /\ P = DOMAIN rt.count
  BY <1>1, <1>2, <1>3, <1>4 DEF ReuseOK, TrieOK
<1>6. Exported = ExportOf(rt, P)
  BY <1>1, <1>4 DEF Exported, ExportOf, SegmentOfPath
<1>7. ExportOf(rt, P) = Chains!SegmentsOf(chains)
  BY <1>5, ExportsCuts
<1> QED
  BY <1>3, <1>6, <1>7

\* Nothing is exported before the first access.
LEMMA ChainsInit == Init => Chains!Init
<1> SUFFICES ASSUME Init PROVE Chains!Init
  OBVIOUS
<1>1. Exported = << >>
  <2>1. Range(leaves) = {}
    BY DEF Init, Range
  <2> QED
    BY <2>1 DEF Exported
<1> QED
  BY <1>1 DEF Init, Chains!Init

\* One access more is what ReuseChains means by it.
LEMMA AppendExtends ==
  ASSUME NEW c \in Seq(ChainEvent), NEW e \in ChainEvent, NEW d, d = Append(c, e)
  PROVE  Chains!Extends(c, d) /\ d # c
<1>1. /\ d \in Seq(ChainEvent) /\ Len(d) = Len(c) + 1 /\ SubSeq(d, 1, Len(d) - 1) = c
      /\ d[Len(d)] = e
  OBVIOUS
<1>2. Chains!Front(d) = c /\ Chains!Last(d) = e
  BY <1>1 DEF Chains!Front, Chains!Last
<1>3. e \in Chains!Access
  BY DEF ChainEvent
<1>4. Chains!Extends(c, d)
  BY <1>1, <1>2, <1>3 DEF Chains!Extends
<1>5. d # c
  <2>1. PICK n \in Nat : n = Len(c)
    OBVIOUS
  <2>2. PICK k : k = Len(d)
    OBVIOUS
  <2>3. k = n + 1
    BY <1>1, <2>1, <2>2
  <2>4. k # n
    BY <2>3
  <2> QED
    BY <2>1, <2>2, <2>4
<1> QED
  BY <1>4, <1>5

\* A reference touches the lines whose chains grow, if there are any.
LEMMA ReferenceTouches ==
  ASSUME ReuseInv, ReuseInv', OneMore(chain, chain', Lines), ExportsOK, ExportsOK'
  PROVE  [Chains!Next]_<<[t \in {"observed"} |-> chain], [t \in {"observed"} |-> Exported]>>
<1>1. PICK c \in [Lines -> Seq(ChainEvent)] : c = chain
  BY DEF ReuseInv, ReuseOK, State
<1>2. PICK d \in [Lines -> Seq(ChainEvent)] : d = chain'
  BY DEF ReuseInv, ReuseOK, State
<1>3. PICK lines : lines = {g \in Lines : d[g] # c[g]}
  OBVIOUS
<1>4. CASE lines = {}
  <2>1. d = c
    BY <1>3, <1>4
  <2>2. Exported' = Exported
    BY <1>1, <1>2, <2>1 DEF ExportsOK
  <2>3. /\ [t \in {"observed"} |-> chain]' = [t \in {"observed"} |-> chain]
        /\ [t \in {"observed"} |-> Exported]' = [t \in {"observed"} |-> Exported]
    BY <1>1, <1>2, <2>1, <2>2
  <2> QED
    BY <2>3
<1>5. CASE lines # {}
  <2>1. \A g \in lines : Chains!Extends(c[g], d[g])
    BY <1>1, <1>2, <1>3, AppendExtends DEF OneMore
  <2>2. d = [g \in Lines |-> IF g \in lines THEN d[g] ELSE c[g]]
    BY <1>3
  <2>3. Exported' = Chains!SegmentsOf(chain')
    BY DEF ExportsOK
  <2>4. Chains!Touch("observed", lines)
    <3>1. \A g \in lines : Chains!Extends([t \in {"observed"} |-> chain]["observed"][g],
                                          [t \in {"observed"} |-> chain]'["observed"][g])
      BY <1>1, <1>2, <2>1
    <3>2. [t \in {"observed"} |-> chain]' =
            [[t \in {"observed"} |-> chain] EXCEPT !["observed"] =
               [g \in Lines |-> IF g \in lines
                                THEN [t \in {"observed"} |-> chain]'["observed"][g] ELSE @[g]]]
      BY <1>1, <1>2, <2>2
    <3>3. [t \in {"observed"} |-> Exported]' =
            [[t \in {"observed"} |-> Exported] EXCEPT !["observed"] =
               Chains!SegmentsOf([t \in {"observed"} |-> chain]'["observed"])]
      BY <2>3
    <3> QED
      BY <3>1, <3>2, <3>3 DEF Chains!Touch
  <2>5. lines \in (SUBSET Lines) \ {{}}
    BY <1>3, <1>5
  <2> QED
    BY <2>4, <2>5 DEF Chains!Next
<1> QED
  BY <1>4, <1>5

\* The chain of a line grows when a cache of the CPU hits it and is cut when the
\* line comes from memory; what the trie exports is what the chains cut off
\* (README.md:12 of the solver; Storage.cpp:63-93, 256-300).
THEOREM RefinementTheorem == Spec => ImplementsReuseChains
<1>1. ReuseInv /\ ReuseInv' /\ ExportsOK /\ ExportsOK' /\ [Next]_vars
        => [Chains!Next]_<<[t \in {"observed"} |-> chain], [t \in {"observed"} |-> Exported]>>
  BY ReuseStep, ReferenceTouches DEF Touched
<1>2. ReuseInv => ExportsOK
  BY ExportsAreCuts
<1> QED
  BY <1>1, <1>2, ChainsInit, ReuseInvariant, PTL DEF Spec, ImplementsReuseChains, Chains!Spec
=============================================================================
