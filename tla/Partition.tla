------------------------------ MODULE Partition ------------------------------
(***************************************************************************)
(* What a disjoint set promises: the blocks are divided into classes, each *)
(* block in one of its own at first, and the only thing that happens to    *)
(* the classes is that two of them become one.                             *)
(***************************************************************************)
CONSTANT Blocks
VARIABLE classes

ClassOf(b) == CHOOSE c \in classes : b \in c

Init == classes = {{b} : b \in Blocks}

Merge(a, b) ==
  classes' = (classes \ {ClassOf(a), ClassOf(b)}) \cup {ClassOf(a) \cup ClassOf(b)}

Next == \E a, b \in Blocks : Merge(a, b)

Spec == Init /\ [][Next]_classes
=============================================================================
