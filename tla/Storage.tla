------------------------------- MODULE Storage -------------------------------
(***************************************************************************)
(* The cache model of Storage.h and Storage.cpp: a hierarchy of caches per *)
(* cost site, through which the Pin front end sends every instruction      *)
(* fetch and data access of the thread it observes (PinFrontEnd).  An      *)
(* access is charged to its basic block at the level that serves it, and   *)
(* hits in the CPU's caches extend the reuse segment of their line.        *)
(*                                                                         *)
(* A hierarchy is what ReadConfig makes of a configuration file: for each  *)
(* site a record for each level it has.  Level MEM is not a cache: it      *)
(* holds everything.                                                       *)
(***************************************************************************)
EXTENDS Integers, SequencesExt, FiniteSetsExt

CONSTANTS
  Bbls,             \* ids of the annotated blocks
  GLOBAL_BBLID,     \* the id of the region outside main
  EnableGlobalBbl,  \* the command line's enableglobalbbl()
  Hierarchies,      \* the configurations, one of which is read
  SimdCapability, CoreCount,   \* of each site
  LineSize,         \* _lineSize, the same at all levels of an accepted file
  References,       \* the accesses the front end may make
  MaxReferences,    \* bound: how many it makes
  NoHead            \* see ReuseTrie

Sites == {"CPU", "PIM"}
Caches == {"IL1", "DL1", "UL2", "UL3"}
Levels == Caches \cup {"MEM"}

\* How far a level is from the processor: IL1 and DL1 are side by side.
Depth == [l \in Levels |-> CASE l \in {"IL1", "DL1"} -> 1 [] l = "UL2" -> 2
                             [] l = "UL3" -> 3 [] l = "MEM" -> 4]

CacheLevel == [policy : {"direct_mapped", "round_robin", "lru"}, sets : Nat \ {0},
               ways : Nat \ {0}, allocates : BOOLEAN, hitcost : Nat]

\* ReadConfig stops at the first level without a section. A site with IL1 alone
\* would have a cache whose next level is never set; no configuration has one.
Shapes == {{"MEM"}, {"IL1", "DL1", "MEM"}, {"IL1", "DL1", "UL2", "MEM"}, Levels}

\* The levels of one site, as ReadConfig makes and links them.
Site(levels) ==
  /\ DOMAIN levels \in Shapes
  /\ \A l \in DOMAIN levels \cap Caches :
       /\ levels[l] \in CacheLevel
       /\ levels[l].policy = "direct_mapped" => levels[l].ways = 1
  /\ levels["MEM"].hitcost \in Nat

ASSUME HierarchyAssumption == \A h \in Hierarchies : \A s \in Sites : Site(h[s])

Reference == [kind : {"fetch", "load", "store"}, addr : Nat, size : Nat \ {0},
              bbl : Bbls \cup {GLOBAL_BBLID}, threads : Nat \ {0}, simd : Nat,
              parallelizable : BOOLEAN]

\* No line is 0, the tag of an empty way; an instruction or operand is no
\* longer than a line, so it touches two at most.
ASSUME ReferenceAssumption ==
  /\ LineSize \in Nat \ {0}
  /\ References \subseteq Reference
  /\ \A r \in References : r.addr >= LineSize /\ r.size <= LineSize

\* A BBLID is an int64_t.
ASSUME BblAssumption == Bbls \cup {GLOBAL_BBLID} \subseteq Int

\* The code takes a cache for the CPU's if its hit costs something; every
\* configuration's does (Storage.cpp:288).
ASSUME HitCostAssumption ==
  \A h \in Hierarchies : \A l \in DOMAIN h["CPU"] \cap Caches : h["CPU"][l].hitcost > 0

ASSUME BoundAssumption == MaxReferences \in Nat

VARIABLES
  hierarchy,                \* what ReadConfig wired, never changed afterwards
  cache,                    \* _sets of each cache of each site
  access,                   \* _access of each level of each site
  memory_cost,              \* _bbl_memory_cost
  instruction_memory_cost,  \* _bbl_instruction_memory_cost
  last_icacheline,          \* _last_icacheline, as a line number
  segs,                     \* _tag_seg_map
  root, leaves,             \* _bbl_data_reuse: the trie and its _leaves
  recency,                  \* history: lines by their last use, for each cache
  chain,                    \* history: what the CPU's caches did with each line
  made                      \* references made so far

vars == <<hierarchy, cache, access, memory_cost, instruction_memory_cost,
          last_icacheline, segs, root, leaves, recency, chain, made>>

Trie == INSTANCE ReuseTrie WITH Elem <- Bbls \cup {GLOBAL_BBLID},
                                Rank <- [b \in Bbls \cup {GLOBAL_BBLID} |-> b]

LineOf(addr) == addr \div LineSize
NextLine(addr) == LineOf(addr) + 1
Lines == UNION {{LineOf(r.addr), NextLine(r.addr)} : r \in References}

Type(ref) == IF ref.kind = "store" THEN "store" ELSE "load"
CachesOf(s) == DOMAIN hierarchy[s] \cap Caches

-----------------------------------------------------------------------------
(* One set of a cache: its tags, and the way round_robin replaces next. *)

EmptySet(c) == [tags |-> [w \in 1..c.ways |-> 0], next |-> c.ways]

\* LRU::Find promotes the line it finds; the other policies leave it alone.
MutFound(c, set, line) == set
Found(c, set, line) ==
  IF c.policy = "lru"
  THEN [set EXCEPT !.tags = <<line>> \o RemoveFirst(@, line)]
  ELSE set

Replaced(c, set, line) ==
  IF c.policy = "lru"
  THEN [set EXCEPT !.tags = <<line>> \o SubSeq(@, 1, c.ways - 1)]
  ELSE [tags |-> [set.tags EXCEPT ![set.next] = line],
        next |-> IF set.next = 1 THEN c.ways ELSE set.next - 1]

-----------------------------------------------------------------------------
(* The operators below work on m, a record of the variables a reference    *)
(* changes.                                                                *)

State ==
  [cache |-> cache, access |-> access, memory_cost |-> memory_cost,
   instruction_memory_cost |-> instruction_memory_cost,
   last_icacheline |-> last_icacheline, segs |-> segs, root |-> root,
   leaves |-> leaves, recency |-> recency, chain |-> chain]

Become(m) ==
  /\ cache' = m.cache /\ access' = m.access
  /\ memory_cost' = m.memory_cost
  /\ instruction_memory_cost' = m.instruction_memory_cost
  /\ last_icacheline' = m.last_icacheline
  /\ segs' = m.segs /\ root' = m.root /\ leaves' = m.leaves
  /\ recency' = m.recency /\ chain' = m.chain

SetOf(m, s, l, line) == m.cache[s][l][line % hierarchy[s][l].sets]
Holds(m, s, l, line) == l = "MEM" \/ line \in Range(SetOf(m, s, l, line).tags)

\* _storage_top: what the references of a site enter, memory if it has no cache
Top(s, l) == IF l \in DOMAIN hierarchy[s] THEN l ELSE "MEM"

\* _next_level: the levels a miss at top may go down through
Way(s, top) == {l \in DOMAIN hierarchy[s] : l = top \/ Depth[l] > Depth[top]}

Allocates(s, l, type) == type = "load" \/ hierarchy[s][l].allocates
MutMissGoesOn(m, s, l, line, type) == l # "MEM" /\ ~Holds(m, s, l, line)
MissGoesOn(m, s, l, line, type) ==
  l # "MEM" /\ ~Holds(m, s, l, line) /\ Allocates(s, l, type)

\* The levels on which one access calls AccessSingleLine, each from the one above.
Reached(m, s, top, line, type) ==
  {l \in Way(s, top) :
     \A k \in Way(s, top) : Depth[k] < Depth[l] => MissGoesOn(m, s, k, line, type)}

-----------------------------------------------------------------------------
(* What is charged. *)

Charged(bbl) == bbl # GLOBAL_BBLID \/ EnableGlobalBbl

Lanes(ref) == IF ref.simd = 0 /\ ref.parallelizable THEN 1 ELSE ref.simd

Multiplier(s, lanes) ==
  IF SimdCapability[s] < lanes THEN lanes \div SimdCapability[s] ELSE 1

MemCost(s, l, ref) ==
  LET cost == hierarchy[s][l].hitcost * ref.threads
  IN IF Lanes(ref) = 0 THEN cost
     ELSE (cost * Multiplier(s, Lanes(ref))) \div CoreCount[s]

AddCost(costs, s, l, ref) ==
  IF Charged(ref.bbl) THEN [costs EXCEPT ![s][ref.bbl] = @ + MemCost(s, l, ref)] ELSE costs

-----------------------------------------------------------------------------
(* The reuse segment of a line: InsertOnHit and SplitOnMiss. *)

IsCpuCache(s, l) == s = "CPU" /\ l \in Caches /\ hierarchy[s][l].hitcost > 0

SegmentOf(m, line) ==
  IF line \in DOMAIN m.segs THEN m.segs[line] ELSE Trie!NewSegment

InsertBbl(seg, ref) ==
  LET longer == Trie!SegInsert(seg, ref.bbl)
  IN [longer EXCEPT !.count = IF ref.threads > @ THEN ref.threads ELSE @]

\* _bbl_data_reuse.UpdateTrie(root, seg), then seg becomes rest
Split(m, line, seg, rest) ==
  [m EXCEPT !.segs = [g \in (DOMAIN @) \cup {line} |-> IF g = line THEN rest ELSE @[g]],
            !.root = Trie!UpdateTrie(@, seg),
            !.leaves = IF Trie!NewLeaf(m.root, seg) THEN Append(@, Trie!LeafPath(seg)) ELSE @]

MutAfterStore(seg, ref) == InsertBbl(seg, ref)
AfterStore(seg, ref) == InsertBbl(Trie!SegClear(seg), ref)

InsertOnHit(m, line, ref) ==
  LET seg == InsertBbl(SegmentOf(m, line), ref)
  IN IF ~Charged(ref.bbl) THEN m
     ELSE IF ref.kind = "store" THEN Split(m, line, seg, AfterStore(seg, ref))
     ELSE [m EXCEPT !.segs = [g \in (DOMAIN @) \cup {line} |-> IF g = line THEN seg ELSE @[g]]]

SplitOnMiss(m, line) ==
  Split(m, line, SegmentOf(m, line), Trie!SegClear(SegmentOf(m, line)))

\* Only the last cache before memory splits, only the CPU's caches insert, and
\* the access that brings a line in belongs to no segment.
Segments(m, s, reached, line, ref) ==
  IF \E l \in reached : IsCpuCache(s, l) /\ Holds(m, s, l, line)
  THEN InsertOnHit(m, line, ref)
  ELSE IF \E l \in reached : IsCpuCache(s, l) /\ Way(s, l) = {l, "MEM"}
          /\ "MEM" \in reached
  THEN SplitOnMiss(m, line)
  ELSE m

-----------------------------------------------------------------------------
(* History variables. *)

\* recency: what a cache found or replaced moves to the front; a policy that
\* does not look at hits orders lines by when they were brought in.
Moved(order, line) == <<line>> \o RemoveFirst(order, line)

Used(m, s, l, line, type) ==
  IF Holds(m, s, l, line) THEN hierarchy[s][l].policy = "lru" ELSE Allocates(s, l, type)

Event(s, reached, m, line, ref) ==
  IF s # "CPU" \/ reached \subseteq {"MEM"} THEN "none"
  ELSE IF "MEM" \in reached THEN "miss"
  ELSE IF (\E l \in reached : Holds(m, s, l, line)) /\ Charged(ref.bbl) THEN Type(ref)
  ELSE "none"

Observed(m, s, reached, line, ref) ==
  LET event == Event(s, reached, m, line, ref)
  IN IF event = "none" THEN m.chain
     ELSE [m.chain EXCEPT ![line] =
             Append(@, [bbl |-> ref.bbl, op |-> event, weight |-> ref.threads])]

-----------------------------------------------------------------------------
(* Accesses. *)

\* CACHE_LEVEL::AccessSingleLine of one level, if the access reaches it
LineIn(c, set, hit, line, type) ==
  IF hit THEN Found(c, set, line)
  ELSE IF type = "load" \/ c.allocates THEN Replaced(c, set, line)
  ELSE set

CacheAfter(m, s, reached, line, type) ==
  [m.cache EXCEPT ![s] =
     [l \in CachesOf(s) |->
        IF l \in reached
        THEN [m.cache[s][l] EXCEPT ![line % hierarchy[s][l].sets] =
                LineIn(hierarchy[s][l], @, Holds(m, s, l, line), line, type)]
        ELSE m.cache[s][l]]]

CountsAfter(m, s, reached, line, type) ==
  [m.access EXCEPT ![s] =
     [l \in DOMAIN hierarchy[s] |->
        IF l \in reached
        THEN [m.access[s][l] EXCEPT ![type][Holds(m, s, l, line)] = @ + 1]
        ELSE m.access[s][l]]]

CostAfter(costs, m, s, served, ref) ==
  IF served = {} THEN costs ELSE AddCost(costs, s, CHOOSE l \in served : TRUE, ref)

\* AccessSingleLine of the level top, with the accesses of next levels it makes
AccessSingleLine(m, s, top, line, ref) ==
  LET reached == Reached(m, s, top, line, Type(ref))
      served == {l \in reached : Holds(m, s, l, line)}
      split == Segments(m, s, reached, line, ref)
  IN [cache |-> CacheAfter(m, s, reached, line, Type(ref)),
      access |-> CountsAfter(m, s, reached, line, Type(ref)),
      memory_cost |-> CostAfter(m.memory_cost, m, s, served, ref),
      instruction_memory_cost |->
        CostAfter(m.instruction_memory_cost, m, s, served \cap {"IL1"}, ref),
      last_icacheline |-> m.last_icacheline,
      segs |-> split.segs, root |-> split.root, leaves |-> split.leaves,
      recency |-> [m.recency EXCEPT ![s] =
        [l \in CachesOf(s) |-> IF l \in reached /\ Used(m, s, l, line, Type(ref))
                               THEN Moved(m.recency[s][l], line) ELSE m.recency[s][l]]],
      chain |-> Observed(m, s, reached, line, ref)]

AccessIf(condition, m, s, top, line, ref) ==
  IF condition THEN AccessSingleLine(m, s, top, line, ref) ELSE m

\* Access: the line of the first byte, and the next one if a byte is in it. The
\* lines of memory's own Access have 64 bytes, those of every configuration too.
Access(m, s, ref) ==
  LET first == AccessSingleLine(m, s, Top(s, "DL1"), LineOf(ref.addr), ref)
  IN AccessIf(ref.addr + ref.size > NextLine(ref.addr) * LineSize,
              first, s, Top(s, "DL1"), NextLine(ref.addr), ref)

\* An instruction that ends with its line fetches the next one as well.
Crosses(ref) == ref.addr + ref.size >= NextLine(ref.addr) * LineSize

MutLastLine(ref) == LineOf(ref.addr)
LastLine(ref) == IF Crosses(ref) THEN NextLine(ref.addr) ELSE LineOf(ref.addr)

Fetch(m, s, ref) ==
  LET first == AccessIf(LineOf(ref.addr) # m.last_icacheline[s],
                        m, s, "IL1", LineOf(ref.addr), ref)
      second == AccessIf(Crosses(ref), first, s, "IL1", NextLine(ref.addr), ref)
  IN [second EXCEPT !.last_icacheline[s] = LastLine(ref)]

\* At a site without caches InstrCacheRef reads the line size of an object that
\* has none: the lines compared are arbitrary, and memory, which looks at no
\* address, is accessed up to twice.
FetchOutcomes(m, s, ref) ==
  LET once == AccessSingleLine(m, s, "MEM", LineOf(ref.addr), ref)
  IN IF "IL1" \in DOMAIN hierarchy[s] THEN {Fetch(m, s, ref)}
     ELSE {m, once, AccessSingleLine(once, s, "MEM", NextLine(ref.addr), ref)}

-----------------------------------------------------------------------------
Init ==
  /\ hierarchy \in Hierarchies
  /\ cache = [s \in Sites |-> [l \in CachesOf(s) |->
                [i \in 0 .. hierarchy[s][l].sets - 1 |-> EmptySet(hierarchy[s][l])]]]
  /\ access = [s \in Sites |-> [l \in DOMAIN hierarchy[s] |->
                 [t \in {"load", "store"} |-> [hit \in BOOLEAN |-> 0]]]]
  /\ memory_cost = [s \in Sites |-> [b \in Bbls \cup {GLOBAL_BBLID} |-> 0]]
  /\ instruction_memory_cost = memory_cost
  /\ last_icacheline = [s \in Sites |-> 0]
  /\ segs = << >>
  /\ root = Trie!EmptyRoot
  /\ leaves = << >>
  /\ recency = [s \in Sites |-> [l \in CachesOf(s) |-> << >>]]
  /\ chain = [g \in Lines |-> << >>]
  /\ made = 0

Count ==
  /\ made < MaxReferences
  /\ made' = made + 1

\* Both functions take the sites in order.
InstrCacheRef(ref) ==
  /\ ref.kind = "fetch"
  /\ Count
  /\ \E m \in FetchOutcomes(State, "CPU", ref) :
       \E n \in FetchOutcomes(m, "PIM", ref) : Become(n)
  /\ UNCHANGED hierarchy

DataCacheRef(ref) ==
  /\ ref.kind # "fetch"
  /\ Count
  /\ Become(Access(Access(State, "CPU", ref), "PIM", ref))
  /\ UNCHANGED hierarchy

Next == \E ref \in References : InstrCacheRef(ref) \/ DataCacheRef(ref)

Spec == Init /\ [][Next]_vars

-----------------------------------------------------------------------------
(* Properties *)

\* Each set of each cache keeps the lines used last, as many as it has ways: an
\* lru cache by any use, the others by when they were brought in. Promotion,
\* the wrap of the round_robin index and the choice of the victim together
\* (Storage.h:154-345).
KeepsMostRecent ==
  \A s \in Sites : \A l \in CachesOf(s) : \A i \in DOMAIN cache[s][l] :
    LET order == recency[s][l]
        c == hierarchy[s][l]
        newer(k) == {order[j] : j \in {j \in 1 .. k - 1 : order[j] % c.sets = i}}
    IN Range(cache[s][l][i].tags) \ {0} =
         {order[k] : k \in {k \in DOMAIN order :
                              order[k] % c.sets = i /\ Cardinality(newer(k)) < c.ways}}

Lookups(s, l, t) == access[s][l][t][TRUE] + access[s][l][t][FALSE]
PassedOn(s, l, t) == IF Allocates(s, l, t) THEN access[s][l][t][FALSE] ELSE 0

\* What the caches above a level passed on to it: those of the two first-level
\* caches together, or that of the one before.
Arrivals(s, l, t) ==
  IF Depth[l] = 3 \/ (l = "MEM" /\ "UL3" \in CachesOf(s)) \/ (l = "MEM" /\ "UL2" \in CachesOf(s))
  THEN PassedOn(s, IF l = "MEM" /\ "UL3" \in CachesOf(s) THEN "UL3" ELSE "UL2", t)
  ELSE PassedOn(s, "IL1", t) + PassedOn(s, "DL1", t)

\* The statistics of the levels agree: a level is looked up exactly as often as
\* those above it missed and allocated, so no access is dropped or looked up twice
\* on its way down (Storage.cpp:256-300).
MissesFeedNextLevel ==
  \A s \in Sites : CachesOf(s) # {} =>
    \A l \in {"UL2", "UL3", "MEM"} \cap DOMAIN hierarchy[s] : \A t \in {"load", "store"} :
      Lookups(s, l, t) = Arrivals(s, l, t)

\* The line fetched last, which InstrCacheRef does not look up again, is still
\* in the first-level instruction cache (Storage.cpp:588).
LastFetchedLineIsResident ==
  \A s \in Sites : "IL1" \in CachesOf(s) => Holds(State, s, "IL1", last_icacheline[s])

\* What the leaves of the trie say, as the report would print them.
Exported ==
  LET segment(path) == [head |-> Last(path), set |-> Range(path)]
  IN [s \in {segment(p) : p \in Range(leaves)} |->
        SumFunctionOnSet(root.count, {p \in Range(leaves) : segment(p) = s})]

Chains == INSTANCE ReuseChains
            WITH Threads <- {"observed"}, Bbls <- Bbls \cup {GLOBAL_BBLID}, Tags <- Lines,
                 Weights <- {r.threads : r \in References},
                 chain <- [t \in {"observed"} |-> chain],
                 closed <- [t \in {"observed"} |-> Exported]

\* The chain of a line grows when any of the CPU's caches hits it and is cut
\* when the line has to come from memory, as PIMProfSolver/README.md:12 says;
\* segments weigh as many threads as they stand for (Storage.cpp:66-89).
ImplementsReuseChains == Chains!Spec
=============================================================================
