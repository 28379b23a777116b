\* Two hierarchies, five lines of four bytes, two blocks and the one outside main.
CONSTANTS
  Bbls = {1, 2}
  GLOBAL_BBLID = 0
  EnableGlobalBbl = FALSE
  Hierarchies <- MCHierarchies
  SimdCapability <- MCSimdCapability
  CoreCount <- MCCoreCount
  LineSize = 4
  References <- MCReferences
  MaxReferences = 5
  NoHead = NoHead
SPECIFICATION Spec
INVARIANTS KeepsMostRecent MissesFeedNextLevel LastFetchedLineIsResident
PROPERTY ImplementsReuseChains
CHECK_DEADLOCK FALSE
