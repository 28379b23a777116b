\* The code's costs. INT_MAX is 1000 ns here, and the thresholds are such that
\* some blocks are above and some are below each of them.
CONSTANTS
  N = 3
  FlushCost <- MCFlush
  FetchCost <- MCFetch
  SwitchSiteCost <- MCSwitch
  Inputs <- MCInputs
  MpkiThreshold = 5
  ParaThreshold = 1
  InstrPermille = 10
  Configs <- MCConfigs
  IntMax = 1000
  FirstThreshold = 100
SPECIFICATION Spec
INVARIANTS SweepKeepsFirstCheapest EndsOnlyIfMisplaced ListsTheWorst
PROPERTY MisplacedIsFound
CHECK_DEADLOCK FALSE
