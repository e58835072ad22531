SPECIFICATION Spec
CONSTANTS
  Keys <- WideKeys
  Shifts <- OneShift
  CapsLock = "Caps"
  Layouts <- WideBoth
  us_layout <- WideUs
  NL = "NL"
  BS = "BS"
  TAB = "Tab"
  SPACE = "SP"
  Nul = "nul"
  EOF = "EOF"
  Prompt = "$"
  BufSz = 4
  Modes <- BothModes
  Typists <- BothTypists
  MaxRow = 8
INVARIANTS DownMeansHeld ScreenShowsLine
PROPERTIES IsTerminal IsLossyTerminal PrintsAlone AllRead
CHECK_DEADLOCK FALSE
