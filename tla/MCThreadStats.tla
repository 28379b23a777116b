---------------------------- MODULE MCThreadStats ----------------------------
(* Values for the constants of ThreadStats that a .cfg cannot write. *)
EXTENDS ThreadStats, TLC

\* An allocation order that is neither the order of the hashes nor its reverse.
MCAddress == [h \in Hashes |-> CASE h = 0 -> 2 [] h = 1 -> 3 [] h = 2 -> 1 [] OTHER -> h + 1]

\* Cache lines are told apart by nothing but their tag.
TagSymmetry == Permutations(Tags)

(***************************************************************************)
(* A behaviour either makes many calls or looks at reuse.  Once a cache    *)
(* line is accessed there are two calls of two blocks, matched and on the  *)
(* CPU: reuse does not look at sites, and a call that aborts ends it all.  *)
(***************************************************************************)
Focus ==
  (\E t \in Threads, tag \in Tags : chain[t][tag] # << >>) =>
    /\ ~aborted
    /\ \A t \in Threads :
         SumFunction(starts[t]) <= 2 /\ starts[t][3] = 0 /\ cpu2pim[t] = 0

FocusedSpec == Init /\ [][Next /\ Focus']_vars
=============================================================================
