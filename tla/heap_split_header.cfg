SPECIFICATION Spec
CONSTANTS
  HeapStart <- Start
  HeapSize = 208
  Requests <- SmallRequests
  MaxLive = 4
INVARIANT SplitHeaderFits
CHECK_DEADLOCK FALSE
