\* One thread, three blocks and the one outside main, one of them never offloaded,
\* and one or two cache lines. FocusedSpec keeps many calls and many accesses apart;
\* counters are charged in ProfileReport.cfg.
CONSTANTS
  Threads = {t1}
  Bbls = {1, 2, 3}
  Tags = {g1, g2}
  Address <- MCAddress
  NoHead = NoHead
  Offloaded = {2, 3}
  MaxDepth = 3
  MaxStarts = 5
  MaxTicks = 0
  MaxAccesses = 5
  MaxEvents = 7
SPECIFICATION FocusedSpec
INVARIANTS TypeOK LeavesAreListedOnce SwitchCountsFollowOnePath CrossingsMatchSite SiteStackFollowsBlocks OpenBlocksAreKnown
PROPERTY ImplementsReuseChains
SYMMETRY TagSymmetry
CHECK_DEADLOCK FALSE
