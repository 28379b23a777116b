-------------------------- MODULE MCAnnotatedProgram --------------------------
(* A program with a loop, a recursive function, an exception that is caught,   *)
(* or resumed by a landing pad, and two blocks of different functions with the *)
(* same content.                                                               *)
EXTENDS AnnotatedProgram

MCFunctions == {"main", "f"}
MCBlocks == {"m1", "m2", "m3", "f1", "f2", "f3", "f4", "f5"}
MCFunctionOf == [b \in MCBlocks |-> IF b \in {"m1", "m2", "m3"} THEN "main" ELSE "f"]
MCEntry == [main |-> "m1", f |-> "f1"]
MCStart == [t \in Threads |-> "main"]

work == [op |-> "work"]
call(g) == [op |-> "call", callee |-> g]
br(targets) == [op |-> "br", to |-> targets]
ret == [op |-> "ret"]

MCSource == [
  m1 |-> <<call("f"), br({"m2"})>>,
  m2 |-> <<work, [op |-> "invoke", callee |-> "f", to |-> "m3", pad |-> "m2"]>>,
  m3 |-> <<work, ret>>,
  f1 |-> <<br({"f2", "f3", "f4"})>>,
  f2 |-> <<call("f"), [op |-> "invoke", callee |-> "f", to |-> "f4", pad |-> "f5"]>>,
  f3 |-> <<[op |-> "throw"], [op |-> "unreachable"]>>,
  f4 |-> <<work, ret>>,
  f5 |-> <<work, [op |-> "resume"]>>]

\* No binary has keys of two passes, so those of one may repeat those of another.
MCBblKey == [m1 |-> 2, m2 |-> 3, m3 |-> 4, f1 |-> 5, f2 |-> 6, f3 |-> 7, f4 |-> 8, f5 |-> 8]
MCFuncKey == [main |-> 2, f |-> 3]
MCOffloadKey == [m1 |-> 10, m2 |-> 11, m3 |-> 12, f1 |-> 13, f2 |-> 14, f3 |-> 15, f4 |-> 12, f5 |-> 14]
MCAddress == [h \in Hashes |-> h]

ASSUME VTuneAssumption == OneThread /\ NoCollisions
=============================================================================
