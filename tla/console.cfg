SPECIFICATION Spec
CONSTANTS
  ch_h = 3
  ch_w = 3
  Visible = {"x"}
  NL = "NL"
  TAB = "TAB"
  BS = "BS"
  CR = "CR"
  SPACE = "SP"
  NUL = "NUL"
  NULL = NULL
  Positions <- Edge
  MaxCalls = 2
INVARIANTS RowsHaveText PictureOfRows
PROPERTIES IsScreen
