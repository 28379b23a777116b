---------------------------- MODULE MCReuseSearch ----------------------------
(* Small profiles for ReuseSearch: what a run of a program with three or    *)
(* four blocks can leave behind.                                            *)
EXTENDS ReuseSearch

MCFlush == [s \in {"CPU", "PIM"} |-> IF s = "CPU" THEN 60 ELSE 30]
MCFetch == MCFlush
MCSwitch == [s \in {"CPU", "PIM"} |-> 800]

\* The switch rows of a program that starts the blocks of path in this order:
\* the first switch is printed as one from block 0.
RowsOf(path) ==
  LET full == <<0>> \o path
      edges == {<<full[i], full[i + 1]>> : i \in 1 .. Len(path)}
      count(e) == Cardinality({i \in 1 .. Len(path) : <<full[i], full[i + 1]>> = e})
  IN [from \in 0 .. Max({e[1] : e \in edges}) |->
        [to \in {e[2] : e \in {x \in edges : x[1] = from}} |-> count(<<from, to>>)]]

TrieOf(segments) == FoldSet(LAMBDA seg, root : Trie!UpdateTrie(root, seg), Trie!EmptyRoot, segments)

Segments(counts) ==
  {seg \in [head : Ids, set : SUBSET Ids, count : counts] :
     Cardinality(seg.set) >= 2 /\ seg.head \in seg.set}

SegmentSets(counts) ==
  {S \in UNION {kSubset(k, Segments(counts)) : k \in 0 .. 2} :
     \A a, b \in S : a.head = b.head /\ a.set = b.set => a = b}

Paths == {<<1>>, <<1, 2>>, <<2, 1>>, <<1, 2, 1>>, <<1, 2, 1, 2, 1>>}

MCProfiles ==
  {[time |-> [CPU |-> cpu, PIM |-> [i \in Ids |-> 300]], rows |-> RowsOf(path),
    root |-> TrieOf(segments)] :
     cpu \in [Ids -> {100, 1000}], path \in Paths, segments \in SegmentSets({1, 40})}
=============================================================================
