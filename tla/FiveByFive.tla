----------------------------- MODULE FiveByFive -----------------------------
(***************************************************************************)
(* The game of src/apps/5x5/5x5.c: a press switches a cell and those above,*)
(* below, left and right of it, and the game is won when all are on.  A    *)
(* cell is <<y, x>>; the grid is the set of the cells that have ON_CH.     *)
(*                                                                         *)
(* A definition that stands just before another, with its parameters, and  *)
(* that nothing uses, is what a bug would make of it: PROJECT.json names   *)
(* the property that would notice.                                         *)
(***************************************************************************)
EXTENDS Integers, FiniteSets

CONSTANTS
  h, w,         \* the size; parse_args wants at least 5 each
  RandomGrids,  \* some of the grids that rand may fill in
  Patterns,     \* sets of cells, for the properties
  MaxPresses    \* bound: the presses of space, 'r' and 'c' in a game

Cells == (0 .. h - 1) \X (0 .. w - 1)

ASSUME FiveByFiveAssumption ==
  /\ h \in Nat /\ w \in Nat /\ h >= 5 /\ w >= 5
  /\ RandomGrids \subseteq SUBSET Cells
  /\ Patterns \subseteq SUBSET Cells
  /\ MaxPresses \in Nat

VARIABLES
  grid,     \* the cells that are on
  cursor,
  message,  \* what the line under the grid says
  presses

fiveVars == <<grid, cursor, message, presses>>

FiveIdle == grid = {} /\ cursor = <<0, 0>> /\ message = "" /\ presses = 0

(* main_5x5 up to its loop: the cursor in the middle, all cells off.  The  *)
(* memory of the grid, which nobody frees, is not counted here.            *)
FiveStart ==
  /\ cursor' = <<h - (h \div 2) - 1, w - (w \div 2) - 1>>
  /\ grid' = {} /\ message' = "" /\ presses' = 0

FiveQuit == grid' = {} /\ cursor' = <<0, 0>> /\ message' = "" /\ presses' = 0

-----------------------------------------------------------------------------
(* The keys.  Each first clears the message. *)
MoveTo(y, x) ==
  /\ cursor' = IF <<y, x>> \in Cells THEN <<y, x>> ELSE cursor
  /\ message' = ""
  /\ UNCHANGED <<grid, presses>>

PressAny == presses < MaxPresses /\ presses' = presses + 1 /\ UNCHANGED cursor

PlusShort(c) ==
  LET y == c[1] x == c[2] IN
  {<<y, x>>} \union {d \in {<<y - 1, x>>} : y > 0} \union {d \in {<<y + 1, x>>} : y < h - 1}
             \union {d \in {<<y, x - 1>>} : x > 0} \union {d \in {<<y, x + 1>>} : x < w - 2}
(* toggle_adjacent: the cell, up, down, left and right. *)
Plus(c) ==
  LET y == c[1] x == c[2] IN
  {<<y, x>>} \union {d \in {<<y - 1, x>>} : y > 0} \union {d \in {<<y + 1, x>>} : y < h - 1}
             \union {d \in {<<y, x - 1>>} : x > 0} \union {d \in {<<y, x + 1>>} : x < w - 1}

Switched(g, s) == (g \ s) \union (s \ g)

check_win(g) == g = Cells

(* ' ' *)
Toggle ==
  /\ PressAny
  /\ grid' = Switched(grid, Plus(cursor))
  /\ message' = IF check_win(grid') THEN "You won!" ELSE ""

(* 'r': init_grid(&ctx, true) *)
Shuffle ==
  /\ PressAny
  /\ grid' \in RandomGrids
  /\ message' = ""

(* 'c': the 25 characters of arr over the first 25 cells of the grid. *)
CheatOff == {<<1, 2>>, <<2, 1>>, <<2, 2>>, <<2, 3>>, <<3, 2>>}
Cheat ==
  /\ PressAny
  /\ LET index(c) == c[1] * w + c[2] IN
     grid' = {c \in Cells : IF index(c) < 25
                            THEN <<index(c) \div 5, index(c) % 5>> \notin CheatOff
                            ELSE c \in grid}
  /\ message' = "Generating cheat state..."

FiveKey(c) ==
  LET y == cursor[1] x == cursor[2] IN
  CASE c = "k" -> MoveTo(y - 1, x)
    [] c = "j" -> MoveTo(y + 1, x)
    [] c = "h" -> MoveTo(y, x - 1)
    [] c = "l" -> MoveTo(y, x + 1)
    [] c = "space" -> Toggle
    [] c = "r" -> Shuffle
    [] c = "c" -> Cheat
    [] OTHER -> message' = "" /\ UNCHANGED <<grid, cursor, presses>>

FiveNext == FiveStart \/ FiveQuit \/ \E c \in {"h", "j", "k", "l", "space", "r", "c", ""} : FiveKey(c)
FiveSpec == FiveIdle /\ [][FiveNext]_fiveVars

-----------------------------------------------------------------------------
IsEven(s) == Cardinality(s) % 2 = 0

(* The rules: a press switches the cells at most one step away. *)
Distance(a, b) == IF a < b THEN b - a ELSE a - b
Near(c) == {d \in Cells : Distance(c[1], d[1]) + Distance(c[2], d[2]) <= 1}

(* A pattern is quiet if every press switches an even number of its cells. *)
Quiet(q) == \A c \in Cells : IsEven(Near(c) \intersect q)

(* Whatever is pressed, the number of lit cells in a quiet pattern stays   *)
(* even or stays odd: toggle_adjacent switches the same cells for the      *)
(* board's edges and corners as the rules say, and so the games that can   *)
(* be won from a grid are those of the same parities as the full one (the  *)
(* grids of 'r' need not be).                                              *)
ParityKept ==
  [][Toggle =>
       \A q \in Patterns : Quiet(q) => (IsEven(grid' \intersect q) <=> IsEven(grid \intersect q))]_fiveVars
=============================================================================
