SPECIFICATION FairSpec
CONSTANTS
  Graphs <- SmallGraphs
  MaxMatchRange = 4
  AutoSearch = FALSE
INVARIANTS PlannerInv RefCountsWaitingUses FreeIsUnused StorageFits NothingLeaks NotAllocatedIsExact
