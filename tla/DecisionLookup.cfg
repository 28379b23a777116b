CONSTANTS
  Blocks <- MCBlocks
  FuncHi <- MCFuncHi
  BblHi <- MCBblHi
  BblLo <- MCBblLo
  Times <- MCTimes
  Garbage = {0, 7}
SPECIFICATION Spec
INVARIANT BlocksFindTheirDecision
CHECK_DEADLOCK FALSE
