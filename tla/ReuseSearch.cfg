\* The code's costs; _batch_size 3 for 10 and a threshold of 1 for 1/1000, so
\* that three blocks are enough to be too long or below the threshold.
CONSTANTS
  N = 3
  FlushCost <- MCFlush
  FetchCost <- MCFetch
  SwitchSiteCost <- MCSwitch
  Profiles <- MCProfiles
  BatchSize = 3
  BatchThreshold = 1
SPECIFICATION Spec
INVARIANTS TotalFollowsDecision ResultIsCheapestRun ReuseCostIsBySegment UndefinedOnlyIfUnlisted
PROPERTY SearchEnds
CHECK_DEADLOCK FALSE
