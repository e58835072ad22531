SPECIFICATION Spec
CONSTANTS
  Keys <- FlagKeys
  Shifts <- TwoShifts
  CapsLock = "Caps"
  Layouts <- JustUs
  us_layout <- FlagUs
  NL = "NL"
  BS = "BS"
  TAB = "Tab"
  SPACE = "SP"
  Nul = "nul"
  EOF = "EOF"
  Prompt = "$"
  BufSz = 1
  Modes <- OneMode
  Typists <- FlagTypist
  MaxRow = 8
INVARIANT HeldMeansDown
CHECK_DEADLOCK FALSE
