--------------------------- MODULE MCDecisionLookup ---------------------------
(* Two blocks of one function. *)
EXTENDS DecisionLookup

MCBlocks == {"b", "c"}
MCFuncHi == [b |-> 21, c |-> 21]
MCBblHi == [b |-> 22, c |-> 23]
MCBblLo == [b |-> 24, c |-> 25]
MCTimes == {[whole |-> 1, fraction |-> FALSE], [whole |-> 3, fraction |-> TRUE]}
=============================================================================
