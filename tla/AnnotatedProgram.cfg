CONSTANTS
  Threads = {t1}
  Bbls = {1, 2, 3, 4, 5, 6, 7, 8, 9, 10, 11, 12, 13, 14, 15}
  Tags = {}
  Address <- MCAddress
  NoHead = NoHead
  Offloaded = {9, 10, 11, 12, 13, 14, 15}
  MaxDepth = 8
  MaxStarts = 10
  MaxTicks = 0
  MaxAccesses = 0
  MaxEvents = 10
  Functions <- MCFunctions
  Main = "main"
  Blocks <- MCBlocks
  FunctionOf <- MCFunctionOf
  Entry <- MCEntry
  Source <- MCSource
  StartFunction <- MCStart
  BblKey <- MCBblKey
  FuncKey <- MCFuncKey
  MainKey = 1
  OffloadKey <- MCOffloadKey
  MainCpuKey = 1
  MainPimKey = 9
  MaxFrames = 4
  Uuids = {1, 2, 3, 4, 5, 6, 7, 8}
  MaxOpenFrames = 5
SPECIFICATION ProgramSpec
INVARIANTS AbortsOnlyAfterUnwind OpenCallsFollowProgram FramesFollowProgram DomainsAreEnabled
CHECK_DEADLOCK FALSE
