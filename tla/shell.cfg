SPECIFICATION ShellSpec
CONSTANTS
  PAGE_SIZE = 4
  Sections <- Pages4
  EXIT = q
  Notes = {1, 2, 3}
  Freq <- ThreeNotes
  Octaves = {1, 5}
  NoNote = NULL
  Beeps = {1000}
  MaxRounds = 2
  h = 5
  w = 5
  RandomGrids <- Random
  Patterns <- QuietPatterns
  MaxPresses = 2
  Moments <- MomentsToRead
  Garbage = {0, 49, 89, 255}
  Binary = FALSE
  Indices <- IndicesToPrint
  Sizes <- SizesToPrint
  Doubles <- DoublesToPrint
  SP = SP
  NL = NL
  Lines <- TypedLines
  MAX_CMD_SZ = 4
  MAX_ARGC = 3
  GameKeys <- Games5
  Ctxs = {c1, c2, c3}
  Stacks = {s1, s2, s3}
  FxAreas = {f1, f2, f3}
  First = first_ctx
  FirstStack = stack_bottom
  FirstFx = first_fxdata
  MaxIters = 3
INVARIANTS ArgvIsWords ModesRestored SoundsHeldNote TimeNeverAhead EpochNeverAhead PrintedInFull BootsSafely NoTaskReturns InTurns
PROPERTIES ParityKept HoldQuits EndsClean
CHECK_DEADLOCK FALSE
