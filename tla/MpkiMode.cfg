\* The inputs of SolverRun.cfg; mpki is one of the six modes.
CONSTANTS
  N = 3
  FlushCost <- MCFlush
  FetchCost <- MCFetch
  SwitchSiteCost <- MCSwitch
  Inputs <- MCInputs
  MpkiThreshold = 5
  ParaThreshold = 1
  InstrPermille = 10
  Configs <- MCConfigs
  IntMax = 1000
  FirstThreshold = 100
SPECIFICATION Spec
INVARIANT MpkiModeDecides
CHECK_DEADLOCK FALSE
