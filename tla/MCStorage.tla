------------------------------ MODULE MCStorage ------------------------------
(* Small hierarchies shaped like those of Configs/, and references to them. *)
EXTENDS Storage

Cache(policy, sets, ways, allocates, hitcost) ==
  [policy |-> policy, sets |-> sets, ways |-> ways, allocates |-> allocates, hitcost |-> hitcost]

\* defaultconfig_128.ini: lru above, direct_mapped below, and caches at the PIM
Default ==
  [CPU |-> [IL1 |-> Cache("lru", 1, 1, TRUE, 4), DL1 |-> Cache("lru", 1, 2, TRUE, 4),
            UL2 |-> Cache("direct_mapped", 2, 1, TRUE, 12),
            UL3 |-> Cache("direct_mapped", 4, 1, TRUE, 40), MEM |-> [hitcost |-> 200]],
   PIM |-> [IL1 |-> Cache("lru", 2, 1, TRUE, 12), DL1 |-> Cache("lru", 1, 3, TRUE, 12),
            MEM |-> [hitcost |-> 100]]]

\* floatpimconfig.ini: no caches at the PIM. The CPU's have the policies that no
\* configuration file has.
FloatPim ==
  [CPU |-> [IL1 |-> Cache("round_robin", 1, 2, TRUE, 4), DL1 |-> Cache("round_robin", 1, 2, FALSE, 4),
            UL2 |-> Cache("lru", 1, 3, TRUE, 12), MEM |-> [hitcost |-> 200]],
   PIM |-> [MEM |-> [hitcost |-> 0]]]

MCHierarchies == {Default, FloatPim}

MCSimdCapability == [CPU |-> 1, PIM |-> 2]
MCCoreCount == [CPU |-> 4, PIM |-> 2]

Ref(kind, addr, size, bbl, threads) ==
  [kind |-> kind, addr |-> addr, size |-> size, bbl |-> bbl, threads |-> threads,
   simd |-> 0, parallelizable |-> FALSE]

\* Lines of four bytes. Fetches inside a line, up to its end and into the next
\* one; loads and stores of lines that share a set, and one of two lines.
MCReferences ==
  {Ref("fetch", a, 2, 1, 1) : a \in {4, 6, 8, 11}}
    \cup {Ref("load", a, 2, b, 1) : a \in {4, 8, 12}, b \in {1, 2}}
    \cup {Ref("load", 16, 4, 0, 1), Ref("load", 7, 2, 2, 2), Ref("store", 8, 2, 1, 1)}
    \cup {[Ref("store", 4, 4, 2, 2) EXCEPT !.simd = 4, !.parallelizable = TRUE]}
=============================================================================
