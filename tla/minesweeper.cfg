SPECIFICATION Spec
CONSTANTS
  W = 4
  H = 3
  BOMB_MARGIN = 2
  MIN_BOMBS = 5
  MAX_BOMBS = 60
  difficulty = 22
  MaxFlags = 2
INVARIANTS WinSeen QueueFits
PROPERTIES IsMinefield Settles
