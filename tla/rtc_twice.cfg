SPECIFICATION RtcSpec
CONSTANTS
  Moments <- MomentsToRead
  Garbage = {0, 89, 255}
  Binary = FALSE
INVARIANT FieldsShown
CHECK_DEADLOCK FALSE
