CONSTANTS
  Memory = 6
  PageSize = 2
  Word = 64
  Requests <- Asked
  InitSize = 4
  FailingAt = {"upstreamNode", "regionNode", "alignedNode", "paddingList", "splitNode", "freeList", "allocationSplit"}
  MaxFailures = 1
  MaxRegions = 2
SPECIFICATION Spec
INVARIANTS BlocksTile FreeListsExact AllReturned
PROPERTY ImplementsAllocator
CHECK_DEADLOCK FALSE
