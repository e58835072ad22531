SPECIFICATION Spec
CONSTANTS
  HeapStart <- Start
  HeapSize = 208
  Requests <- SmallRequests
  MaxLive = 4
INVARIANT PrevIsInverseOfNext
CHECK_DEADLOCK FALSE
