SPECIFICATION Spec
CONSTANTS
  Keys <- BurstKeys
  Shifts <- None
  CapsLock = "Caps"
  Layouts <- JustBurst
  us_layout <- BurstUs
  NL = "NL"
  BS = "BS"
  TAB = "Tab"
  SPACE = "SP"
  Nul = "nul"
  EOF = "EOF"
  Prompt = "$"
  BufSz = 4
  Modes <- BothModes
  Typists <- LineTypist
  MaxRow = 8
INVARIANT InBounds
CHECK_DEADLOCK FALSE
