------------------------------ MODULE ReuseTrie ------------------------------
(***************************************************************************)
(* The data-reuse trie of DataReuse.h as operators on values.              *)
(*                                                                         *)
(* A DataReuseSegment is the set of basic blocks that touched one cache    *)
(* line between two splits, the block that touched it first (the head) and *)
(* a count.  A trie root is a record: the set of its nodes, each named by  *)
(* the sequence of keys that leads to it, and the count of every node      *)
(* marked as a leaf.  The vector _leaves, shared by all the roots of a     *)
(* DataReuse object, belongs to whoever owns the object.                   *)
(***************************************************************************)
EXTENDS Integers, Sequences, SequencesExt

CONSTANTS
  Elem,   \* what a segment is made of: RunStats pointers or BBLIDs
  Rank,   \* the order std::set and std::map iterate in, injective: a RunStats
          \* pointer has an address, a BBLID is its own rank
  NoHead  \* the indeterminate _head of a segment nothing was inserted into

Segment == [head : Elem \cup {NoHead}, set : SUBSET Elem, count : Nat]

NewSegment == [head |-> NoHead, set |-> {}, count |-> 1]

SegInsert(seg, e) ==
  [seg EXCEPT !.head = IF seg.set = {} THEN e ELSE @, !.set = @ \cup {e}]

\* clear() does not touch _head: it stays stale until the next insert
SegClear(seg) == [seg EXCEPT !.set = {}, !.count = 1]

-----------------------------------------------------------------------------
RankBelow(a, b) == Rank[a] < Rank[b]

EmptyRoot == [nodes |-> {<< >>}, count |-> << >>]

(***************************************************************************)
(* UpdateTrie walks the set in order, creating the nodes that are missing, *)
(* and ends one level deeper in a node keyed by the head.                  *)
(***************************************************************************)
Sorted(S) ==
  CHOOSE s \in [1 .. Cardinality(S) -> S] :
    \A i, j \in DOMAIN s : i < j => RankBelow(s[i], s[j])

LeafPath(seg) == Append(Sorted(seg.set), seg.head)

\* A segment of size 1 carries no reuse between blocks.
Recorded(seg) == Cardinality(seg.set) > 1

\* _leaves grows only when the leaf's node did not exist under this root
MutAlwaysNewLeaf(root, seg) == Recorded(seg)
NewLeaf(root, seg) == Recorded(seg) /\ LeafPath(seg) \notin root.nodes

LeafCount(root, path) == IF path \in DOMAIN root.count THEN root.count[path] ELSE 0

MutUpdateTrie(root, seg) ==
  LET path == LeafPath(seg)
  IN  IF ~Recorded(seg) THEN root
      ELSE [nodes |-> root.nodes \cup Prefixes(Front(path)),
            count |-> [p \in DOMAIN root.count \cup {path} |->
                         LeafCount(root, p) + IF p = path THEN seg.count ELSE 0]]
UpdateTrie(root, seg) ==
  LET path == LeafPath(seg)
  IN  IF ~Recorded(seg) THEN root
      ELSE [nodes |-> root.nodes \cup Prefixes(path),
            count |-> [p \in DOMAIN root.count \cup {path} |->
                         LeafCount(root, p) + IF p = path THEN seg.count ELSE 0]]

\* Export walks from the leaf to the root; the set drops the head's second copy.
ExportSegment(root, leaf) ==
  [head |-> Last(leaf), set |-> ToSet(leaf), count |-> root.count[leaf]]
=============================================================================
