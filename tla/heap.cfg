SPECIFICATION Spec
CONSTANTS
  HeapStart <- Start
  HeapSize = 208
  Requests <- SmallRequests
  MaxLive = 4
INVARIANTS BlocksTile FreeBlocksMerged PaddingFollowsRightPrev AllocationsHeld FirstFit
PROPERTIES RequestsAnswered IsAllocator
CHECK_DEADLOCK FALSE
