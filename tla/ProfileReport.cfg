\* Two threads that share the bounds; blocks nest two deep. FocusedSpec keeps a
\* second charge and accesses apart.
CONSTANTS
  Threads = {t1, t2}
  Bbls = {1, 2}
  Tags = {g1}
  Address <- MCAddress
  NoHead = NoHead
  Offloaded = {}
  MaxDepth = 1
  MaxStarts = 2
  MaxTicks = 2
  MaxAccesses = 4
  MaxEvents = 6
SPECIFICATION FocusedSpec
INVARIANTS IdIsSortedPosition CountersAreConserved SegmentsSurviveReport SwitchRowsSurviveReport
CHECK_DEADLOCK FALSE
SYMMETRY ThreadSymmetry
