SPECIFICATION Spec
CONSTANTS
  Half = 16
  PerSec = 3
  Delays = {0, 1, 4}
  Seconds = {1, 2}
  Pace = 3
  MaxTicks = 12
INVARIANTS LongEnough NotLate
PROPERTIES Wakes
CHECK_DEADLOCK FALSE
