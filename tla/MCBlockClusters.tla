--------------------------- MODULE MCBlockClusters ---------------------------
(* Small inputs for BlockClusters: what the static analysis says of four     *)
(* blocks, and the reuse file of a program that starts the last three.       *)
EXTENDS BlockClusters

\* The switches of a program that starts the blocks of path in this order:
\* the first switch is printed as one from block 0.
SwitchesOf(path) ==
  LET full == <<0>> \o path
  IN [e \in Blocks \X Blocks |-> Cardinality({i \in DOMAIN path : <<full[i], full[i + 1]>> = e})]

\* Addresses may be in the order of ids, or against it.
Printed(S) == {SetToSortSeq(S, <), SetToSortSeq(S, >)}

\* One segment or none: 5 moves of a line are cheaper than a switch, 20 are not.
SegmentsOf(path, counts) ==
  LET known == {0} \cup Range(path)
      segments(S) == [head : S, blocks : Printed(S), count : counts]
  IN {{}} \cup {{seg} : seg \in UNION {segments(S) : S \in {S \in SUBSET known : Cardinality(S) > 1}}}

PathsUpTo(n) == UNION {[1 .. k -> Blocks \ {0}] : k \in 0 .. n}

InputsOf(files, mains, mainSites, paths, counts) ==
  UNION {[file : files, main : mains, mainSite : mainSites,
          segments : SegmentsOf(path, counts), switches : {SwitchesOf(path)}] : path \in paths}

\* Many programs, of which the static analysis says three different things; and
\* whatever it may say, of few programs.
MCInputs ==
  LET someFiles ==
        {<<"none", "PIM", "CPU", "Follower">>, <<"PIM", "Follower", "CPU", "CPU">>,
         <<"none", "CPU", "CPU", "PIM">>}
      asFunction(t) == [b \in Blocks |-> t[b + 1]]
      fewPaths == {<<1, 2, 1, 2>>, <<1, 3, 3, 3, 3>>}
  IN InputsOf({asFunction(t) : t \in someFiles}, {-1}, {"CPU"}, PathsUpTo(3), {5, 20})
       \cup InputsOf([Blocks -> Sites \cup {"Follower", "none"}], {1}, Sites, fewPaths, {})
=============================================================================
