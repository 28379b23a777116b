\* The main thread and two workers, two blocks.
CONSTANTS
  Threads <- MCThreads
  Bbls = {b1, b2}
  NoThread = NoThread
  MaxDepth = 2
  MaxCallbacks = 3
SPECIFICATION Spec
SYMMETRY BlockSymmetry
INVARIANTS OneThreadIsCharged ChargeCountsLiveThreads FailsOnlyAfterRace  AnnotationsFollowCalls RoiFollowsCalls
CHECK_DEADLOCK FALSE
