----------------------------- MODULE ThreadStats -----------------------------
(***************************************************************************)
(* The profile collector: one ThreadStats object (Stats.h) per simulated   *)
(* thread.  Sniper calls it for every annotation the instrumented program  *)
(* executes and for every memory access; no two threads share an object.   *)
(***************************************************************************)
EXTENDS Integers, Sequences, FiniteSetsExt, Functions

CONSTANTS
  Threads,
  Bbls,        \* hashes of annotated basic blocks; none is GLOBAL_BBLHASH
  Tags,        \* cache line tags
  Address,     \* where each block's RunStats is allocated: std::set's order
  NoHead,      \* indeterminate _head of a fresh segment
  Offloaded,   \* the blocks that the binary brackets with offload calls; the others
               \* have the plain calls: all of them if AnnotationInjection made the
               \* binary, main if OffloaderInjection did and main stays on the CPU
  MaxDepth,    \* bound: blocks open at once in a thread
  MaxStarts, MaxTicks, MaxAccesses,  \* bounds: calls of each kind, all threads
  MaxEvents    \* bound: calls of the three kinds together

GLOBAL_BBLHASH == 0   \* the region outside main
Phantom == -1         \* the RunStats last_begin_bblstats starts from: it is in no map

ASSUME ThreadsAssumption == IsFiniteSet(Threads)
ASSUME HashAssumption == Bbls \subseteq Nat \ {GLOBAL_BBLHASH} /\ IsFiniteSet(Bbls)
ASSUME AddressAssumption ==
  /\ DOMAIN Address = Bbls \cup {GLOBAL_BBLHASH}
  /\ \A g, h \in DOMAIN Address : Address[g] \in Nat /\ (Address[g] = Address[h] => g = h)
ASSUME NoHeadAssumption == NoHead \notin Bbls \cup {GLOBAL_BBLHASH}
ASSUME OffloadedAssumption == Offloaded \subseteq Bbls
ASSUME BoundsAssumption == {MaxDepth, MaxStarts, MaxTicks, MaxAccesses, MaxEvents} \subseteq Nat

Hashes == Bbls \cup {GLOBAL_BBLHASH}
Sites == {"CPU", "PIM"}

Trie == INSTANCE ReuseTrie WITH Elem <- Hashes, Rank <- Address

VARIABLES
  usingPim,   \* m_using_pim, a stack; the last element is the top
  stack,      \* m_current_bblstats, a stack of hashes
  last,       \* last_begin_bblstats
  stats,      \* m_bbl_hash2stats: counters of the blocks seen so far; cpu is
              \* the block's entry of m_bblhash2cputime
  pimTime,    \* m_pim_time
  matrix,     \* m_bbl_switch_count._count, 0 where the code has no entry
  total,      \* m_bbl_switch_count._total_count
  cpu2pim, pim2cpu,  \* m_switch_cpu2pim, m_switch_pim2cpu
  segs,       \* m_tag2seg: segments of the tags seen so far
  root, leaves,      \* m_bbl_data_reuse: its trie and its _leaves
  aborted,    \* an assertion failed: the whole process is gone
  starts,     \* history: how often each block was started
  chain       \* history: what happened to each tag

callVars == <<usingPim, stack, last, matrix, total, cpu2pim, pim2cpu, starts>>
reuseVars == <<segs, root, leaves, chain>>
tickVars == <<stats, pimTime>>
vars == <<callVars, tickVars, reuseVars, aborted>>

ZeroStats == [time |-> 0, instr |-> 0, mem |-> 0, cpu |-> 0]
Top(s) == s[Len(s)]
Pop(s) == SubSeq(s, 1, Len(s) - 1)
GetCurrent(t) == Top(stack[t])

Init ==
  /\ usingPim = [t \in Threads |-> <<FALSE>>]
  /\ stack = [t \in Threads |-> <<GLOBAL_BBLHASH>>]
  /\ last = [t \in Threads |-> Phantom]
  /\ stats = [t \in Threads |-> [h \in {GLOBAL_BBLHASH} |-> ZeroStats]]
  /\ pimTime = [t \in Threads |-> 0]
  /\ matrix = [t \in Threads |-> [e \in (Hashes \cup {Phantom}) \X Hashes |-> 0]]
  /\ total = [t \in Threads |-> [h \in Hashes \cup {Phantom} |-> 0]]
  /\ cpu2pim = [t \in Threads |-> 0]
  /\ pim2cpu = [t \in Threads |-> 0]
  /\ segs = [t \in Threads |-> << >>]
  /\ root = [t \in Threads |-> Trie!EmptyRoot]
  /\ leaves = [t \in Threads |-> << >>]
  /\ aborted = FALSE
  /\ starts = [t \in Threads |-> [h \in Hashes |-> 0]]
  /\ chain = [t \in Threads |-> [g \in Tags |-> << >>]]

-----------------------------------------------------------------------------
(* The bounds of the model. *)

StartsMade == MapThenSumSet(LAMBDA t : SumFunction(starts[t]), Threads)
TicksOf(t) ==
  pimTime[t] + MapThenSumSet(LAMBDA h : stats[t][h].time + stats[t][h].mem + stats[t][h].cpu,
                             DOMAIN stats[t])
TicksMade == MapThenSumSet(TicksOf, Threads)
AccessesMade ==
  MapThenSumSet(LAMBDA t : MapThenSumSet(LAMBDA tag : Len(chain[t][tag]), Tags), Threads)

Room(made, bound) == made < bound /\ StartsMade + TicksMade + AccessesMade < MaxEvents

-----------------------------------------------------------------------------
(* Basic block calls.  The annotations nest; the code asserts that they do. *)

With(f, k, v) == [x \in (DOMAIN f) \cup {k} |-> IF x = k THEN v ELSE f[x]]

\* m_bbl_switch_count->insert(from, to)
MutSwitchFromStack(t) == GetCurrent(t)
SwitchFrom(t) == last[t]

EnterBbl(t, h) ==
  /\ Len(stack[t]) <= MaxDepth /\ Room(StartsMade, MaxStarts)
  /\ UNCHANGED pimTime
  /\ stats' = [stats EXCEPT ![t] = IF h \in DOMAIN @ THEN @ ELSE With(@, h, ZeroStats)]
  /\ stack' = [stack EXCEPT ![t] = Append(@, h)]
  /\ matrix' = [matrix EXCEPT ![t][<<SwitchFrom(t), h>>] = @ + 1]
  /\ total' = [total EXCEPT ![t][SwitchFrom(t)] = @ + 1]
  /\ last' = [last EXCEPT ![t] = h]
  /\ starts' = [starts EXCEPT ![t][h] = @ + 1]

\* assert(bblhash == GetCurrentBBLHash()), then pop; last_begin_bblstats stays
MutLeavesWhatIsOnTop(t, h) ==
  /\ stack' = [stack EXCEPT ![t] = Pop(@)]
  /\ UNCHANGED <<last, tickVars, matrix, total, starts, aborted>>
MutIgnoresMismatch(t, h) ==
  /\ stack' = [stack EXCEPT ![t] = IF h = GetCurrent(t) THEN Pop(@) ELSE @]
  /\ UNCHANGED <<last, tickVars, matrix, total, starts, aborted>>
LeaveBbl(t, h) ==
  /\ aborted' = (h # GetCurrent(t))
  /\ stack' = [stack EXCEPT ![t] = IF h = GetCurrent(t) THEN Pop(@) ELSE @]
  /\ UNCHANGED <<last, tickVars, matrix, total, starts>>

BBLStart(t, h) ==
  /\ ~aborted /\ h \notin Offloaded
  /\ EnterBbl(t, h)
  /\ UNCHANGED <<usingPim, cpu2pim, pim2cpu, reuseVars, aborted>>

BBLEnd(t, h) ==
  /\ ~aborted /\ h \notin Offloaded
  /\ LeaveBbl(t, h)
  /\ UNCHANGED <<usingPim, cpu2pim, pim2cpu, reuseVars>>

-----------------------------------------------------------------------------
(* Offload calls also maintain the stack of sites. *)

CountSwitch(t, from, to) ==
  /\ cpu2pim' = [cpu2pim EXCEPT ![t] = @ + IF ~from /\ to THEN 1 ELSE 0]
  /\ pim2cpu' = [pim2cpu EXCEPT ![t] = @ + IF from /\ ~to THEN 1 ELSE 0]

OffloadStart(t, h, site) ==
  /\ ~aborted /\ h \in Offloaded
  /\ usingPim' = [usingPim EXCEPT ![t] = Append(@, site = "PIM")]
  /\ CountSwitch(t, Top(usingPim[t]), site = "PIM")
  /\ EnterBbl(t, h)
  /\ UNCHANGED <<reuseVars, aborted>>

\* What the site stack says once its top is gone; back() of an empty
\* vector<bool> is undefined and may read either way.
MutSiteAfterEnd(t) == {FALSE}
SiteAfterEnd(t) ==
  IF Len(usingPim[t]) = 1 THEN BOOLEAN ELSE {Top(Pop(usingPim[t]))}

OffloadEnd(t, h, site) ==
  /\ ~aborted /\ h \in Offloaded
  /\ IF Top(usingPim[t]) # (site = "PIM")
     THEN /\ aborted' = TRUE
          /\ UNCHANGED <<callVars, tickVars>>
     ELSE /\ usingPim' = [usingPim EXCEPT ![t] = Pop(@)]
          /\ \E after \in SiteAfterEnd(t) : CountSwitch(t, Top(usingPim[t]), after)
          /\ LeaveBbl(t, h)
  /\ UNCHANGED reuseVars

-----------------------------------------------------------------------------
(* Counters are charged to the block on top of the stack. *)

Charge(t, field, amount) ==
  stats' = [stats EXCEPT ![t][GetCurrent(t)][field] = @ + amount]

AddTimeInstruction(t, time, instr) ==
  /\ ~aborted /\ Room(TicksMade, MaxTicks)
  /\ stats' = [stats EXCEPT ![t][GetCurrent(t)].time = @ + time,
                            ![t][GetCurrent(t)].instr = @ + instr]
  /\ UNCHANGED <<callVars, pimTime, reuseVars, aborted>>

AddMemory(t, accesses) ==
  /\ ~aborted /\ Room(TicksMade, MaxTicks)
  /\ Charge(t, "mem", accesses)
  /\ UNCHANGED <<callVars, pimTime, reuseVars, aborted>>

AddCPUTime(t, time) ==
  /\ ~aborted /\ Room(TicksMade, MaxTicks)
  /\ Charge(t, "cpu", time)
  /\ UNCHANGED <<callVars, pimTime, reuseVars, aborted>>

AddOffloadingTime(t, time) ==
  /\ ~aborted /\ Room(TicksMade, MaxTicks)
  /\ pimTime' = [pimTime EXCEPT ![t] = @ + time]
  /\ UNCHANGED <<callVars, stats, reuseVars, aborted>>

-----------------------------------------------------------------------------
(* Reuse segments: one open segment per tag, split on stores and on misses. *)

SegmentOf(t, tag) == IF tag \in DOMAIN segs[t] THEN segs[t][tag] ELSE Trie!NewSegment

Observe(t, tag, op) ==
  /\ Room(AccessesMade, MaxAccesses)
  /\ chain' = [chain EXCEPT ![t][tag] = Append(@, [bbl |-> GetCurrent(t), op |-> op,
                                                         weight |-> 1])]

\* m_bbl_data_reuse->UpdateTrie(root, seg)
SplitInto(t, seg) ==
  /\ root' = [root EXCEPT ![t] = Trie!UpdateTrie(@, seg)]
  /\ leaves' = [leaves EXCEPT ![t] = IF Trie!NewLeaf(root[t], seg)
                                     THEN Append(@, Trie!LeafPath(seg)) ELSE @]

MutSegmentAfterStore(seg, bbl) == Trie!SegClear(seg)
SegmentAfterStore(seg, bbl) == Trie!SegInsert(Trie!SegClear(seg), bbl)

InsertSegOnHit(t, tag, is_store) ==
  /\ ~aborted
  /\ Observe(t, tag, IF is_store THEN "store" ELSE "load")
  /\ LET bbl == GetCurrent(t)
         seg == Trie!SegInsert(SegmentOf(t, tag), bbl)
     IN IF is_store
        THEN /\ SplitInto(t, seg)
             /\ segs' = [segs EXCEPT ![t] = With(@, tag, SegmentAfterStore(seg, bbl))]
        ELSE /\ segs' = [segs EXCEPT ![t] = With(@, tag, seg)]
             /\ UNCHANGED <<root, leaves>>
  /\ UNCHANGED <<callVars, tickVars, aborted>>

SegmentAfterMiss(seg) == Trie!SegClear(seg)

SplitSegOnMiss(t, tag) ==
  /\ ~aborted
  /\ Observe(t, tag, "miss")
  /\ IF tag \in DOMAIN segs[t]
     THEN /\ SplitInto(t, segs[t][tag])
          /\ segs' = [segs EXCEPT ![t][tag] = SegmentAfterMiss(@)]
     ELSE UNCHANGED <<segs, root, leaves>>
  /\ UNCHANGED <<callVars, tickVars, aborted>>

-----------------------------------------------------------------------------
CallStep(t) ==
  \E h \in Bbls :
    \/ BBLStart(t, h) \/ BBLEnd(t, h)
    \/ \E site \in Sites : OffloadStart(t, h, site) \/ OffloadEnd(t, h, site)

TickStep(t) ==
  \/ AddTimeInstruction(t, 1, 1) \/ AddMemory(t, 1)
  \/ AddCPUTime(t, 1) \/ AddOffloadingTime(t, 1)

ReuseStep(t) ==
  \E tag \in Tags :
    \/ \E is_store \in BOOLEAN : InsertSegOnHit(t, tag, is_store)
    \/ SplitSegOnMiss(t, tag)

Next == \E t \in Threads : CallStep(t) \/ TickStep(t) \/ ReuseStep(t)

Spec == Init /\ [][Next]_vars

-----------------------------------------------------------------------------
(* Properties *)

\* The collector's variables keep their types.
CallTypeOK ==
  /\ usingPim \in [Threads -> Seq(BOOLEAN)]
  /\ stack \in [Threads -> Seq(Hashes)]
  /\ last \in [Threads -> Hashes \cup {Phantom}]
  /\ matrix \in [Threads -> [(Hashes \cup {Phantom}) \X Hashes -> Nat]]
  /\ total \in [Threads -> [Hashes \cup {Phantom} -> Nat]]
  /\ cpu2pim \in [Threads -> Nat]
  /\ pim2cpu \in [Threads -> Nat]
  /\ starts \in [Threads -> [Hashes -> Nat]]
  /\ aborted \in BOOLEAN

Counters == [time : Nat, instr : Nat, mem : Nat, cpu : Nat]

TickTypeOK ==
  /\ pimTime \in [Threads -> Nat]
  /\ \A t \in Threads : DOMAIN stats[t] \subseteq Hashes
  /\ \A t \in Threads : \A h \in DOMAIN stats[t] : stats[t][h] \in Counters

ReuseTypeOK ==
  \A t \in Threads :
    /\ DOMAIN segs[t] \subseteq Tags
    /\ \A tag \in DOMAIN segs[t] : segs[t][tag] \in Trie!Segment
    /\ \A path \in root[t].nodes : Range(path) \subseteq Hashes
    /\ Range(leaves[t]) \subseteq root[t].nodes

TypeOK == CallTypeOK /\ TickTypeOK /\ ReuseTypeOK

\* A block is left as often as it was started, unless it was started last; the
\* placeholder last_begin_bblstats starts from is left once (Stats.h:146, 216).
TotalsFollowStarts ==
  \A t \in Threads :
    /\ \A h \in Hashes : total[t][h] + (IF h = last[t] THEN 1 ELSE 0) = starts[t][h]
    /\ total[t][Phantom] = IF last[t] = Phantom THEN 0 ELSE 1

\* last_begin_bblstats makes the switch counts the edges of one path through
\* the blocks a thread starts (Stats.h:216): a row sums to its total, a column
\* to the number of times the block was started, which is what the solver's
\* bbTimesFromSwitchInfo reads it as, and the path never breaks.
SwitchCountsFollowOnePath ==
  /\ TotalsFollowStarts
  /\ \A t \in Threads :
       /\ \A f \in Hashes \cup {Phantom} :
            SumFunction([h \in Hashes |-> matrix[t][<<f, h>>]]) = total[t][f]
       /\ \A h \in Hashes :
            SumFunction([f \in Hashes \cup {Phantom} |-> matrix[t][<<f, h>>]]) = starts[t][h]

\* The blocks under execution have counters, the outermost one is the region
\* outside main, and it is never left (Stats.h:230 pops without looking).
OpenBlocksAreKnown ==
  \A t \in Threads :
    /\ Len(stack[t]) >= 1 /\ stack[t][1] = GLOBAL_BBLHASH
    /\ Range(stack[t]) \subseteq DOMAIN stats[t]

\* Crossings alternate: starting on the CPU, CPU-to-PIM switches exceed
\* PIM-to-CPU switches by one exactly while the current site is the PIM
\* (Stats.h:239-246, 263-268).
CrossingsMatchSite ==
  \A t \in Threads :
    ~aborted => cpu2pim[t] - pim2cpu[t] = IF Top(usingPim[t]) THEN 1 ELSE 0

\* Where on a stack of blocks those are that also push a site.
OffloadedIn(blocks) == {i \in DOMAIN blocks : blocks[i] \in Offloaded}

\* The site stack holds one site for each offloaded block under execution, and
\* the first, so m_using_pim runs empty only in a call that the assertion of
\* BBLEnd then stops (Stats.h:258-269).
SiteStackFollowsBlocks ==
  \A t \in Threads :
    ~aborted => Len(usingPim[t]) = 1 + Cardinality(OffloadedIn(stack[t]))

\* What the leaves of a thread's trie say, as the report would print them.
Exported(t) ==
  LET segment(path) == [head |-> Top(path), set |-> Range(path)]
  IN [s \in {segment(p) : p \in Range(leaves[t])} |->
        SumFunctionOnSet(root[t].count, {p \in Range(leaves[t]) : segment(p) = s})]

Chains == INSTANCE ReuseChains
            WITH Bbls <- Hashes, Weights <- {1}, chain <- chain,
                 closed <- [t \in Threads |-> Exported(t)]

\* The trie, its leaf list and the open segments together implement the
\* counting of reuse segments described at DataReuse.h:326-337: nothing is
\* lost, counted twice or given the wrong head, whatever the pointer order.
ImplementsReuseChains == Chains!Spec

\* A leaf is never also an inner node, and is listed once: DeleteTrie does not
\* look below a leaf and PrintAllSegments prints each listed leaf
\* (DataReuse.h:376-384, 392-398, 514-519).
LeavesAreListedOnce ==
  \A t \in Threads :
    /\ \A i, j \in DOMAIN leaves[t] : leaves[t][i] = leaves[t][j] => i = j
    /\ Range(leaves[t]) = DOMAIN root[t].count
    /\ \A leaf \in Range(leaves[t]) : \A node \in root[t].nodes :
         ~Trie!IsStrictPrefix(leaf, node)
=============================================================================
