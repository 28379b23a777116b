----------------------------- MODULE ReuseChains -----------------------------
(***************************************************************************)
(* What the collector promises about data reuse, with no open segments, no *)
(* trie and no leaves: the chain of accesses to each cache line is cut at  *)
(* every store, which ends one segment and begins the next, and at every   *)
(* miss, and the segments that involve two basic blocks or more are        *)
(* counted (the comment at DataReuse.h:326-337), each as often as the      *)
(* largest number of threads that ran during one of its accesses.          *)
(***************************************************************************)
EXTENDS Integers, FiniteSetsExt, SequencesExt

CONSTANTS
  Threads, Bbls, Tags,
  Weights  \* the numbers of threads an access may stand for, {1} where it is one's own

VARIABLES
  chain,   \* chain[t][tag]: the accesses of a thread to a line, oldest first
  closed   \* closed[t]: how often each segment was closed, a bag of segments

Op == {"load", "store", "miss"}
Access == [bbl : Bbls, op : Op, weight : Weights]

\* The accesses of the segment that is closed at position i of chain c: those
\* after the previous cut, and the store that made that cut.
MembersAt(c, i) ==
  {k \in 1..i : c[k].op # "miss" /\ \A m \in k+1 .. i-1 : c[m].op = "load"}

SegmentAt(c, i) ==
  LET members == MembersAt(c, i)
  IN [head |-> IF members = {} THEN 0 ELSE c[Min(members)].bbl,
      set |-> {c[k].bbl : k \in members}]

WeightAt(c, i) == Max({1} \cup {c[k].weight : k \in MembersAt(c, i)})

\* The positions of c at which a segment of two blocks or more is closed.
CutsOf(c) ==
  {i \in 1..Len(c) : c[i].op # "load" /\ Cardinality(SegmentAt(c, i).set) > 1}

Cuts(chains) == UNION {{g} \X CutsOf(chains[g]) : g \in Tags}
SegmentCut(chains, cut) == SegmentAt(chains[cut[1]], cut[2])

SegmentsOf(chains) ==
  [s \in {SegmentCut(chains, cut) : cut \in Cuts(chains)} |->
     SumFunctionOnSet([cut \in Cuts(chains) |-> WeightAt(chains[cut[1]], cut[2])],
                      {cut \in Cuts(chains) : SegmentCut(chains, cut) = s})]

Init ==
  /\ chain = [t \in Threads |-> [g \in Tags |-> << >>]]
  /\ closed = [t \in Threads |-> << >>]

Extends(old, new) == Len(new) = Len(old) + 1 /\ Front(new) = old /\ Last(new) \in Access

\* One access of a thread, to one line or to several at once.
Touch(t, lines) ==
  /\ \A g \in lines : Extends(chain[t][g], chain'[t][g])
  /\ chain' = [chain EXCEPT ![t] = [g \in Tags |-> IF g \in lines THEN chain'[t][g] ELSE @[g]]]
  /\ closed' = [closed EXCEPT ![t] = SegmentsOf(chain'[t])]

Next == \E t \in Threads : \E lines \in (SUBSET Tags) \ {{}} : Touch(t, lines)

Spec == Init /\ [][Next]_<<chain, closed>>
=============================================================================
