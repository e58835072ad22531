------------------------------- MODULE Screen -------------------------------
(***************************************************************************)
(* What the console promises to who prints on it: the text, broken into    *)
(* rows at newlines and at the width, of which the last rows are there.    *)
(* A row that the text has just ended is followed by an empty one, for     *)
(* which the console scrolls only when there is something to put in it.    *)
(***************************************************************************)
EXTENDS Integers, SequencesExt

CONSTANTS
  Height, Width,
  Visible,              \* characters with a glyph
  NL, TAB, BS, CR, SPACE,
  TabSize

VARIABLE rows           \* Height + 1 rows at most, the last one open

Add(r, ch) ==
  LET fit   == IF Len(r) > Height THEN Tail(r) ELSE r
      row   == Append(Last(fit), ch)
      added == Append(Front(fit), row)
  IN  IF ch = NL \/ Len(row) = Width THEN Append(added, <<>>) ELSE added

(* Spaces up to the next multiple of TabSize. *)
Tabbed(r) ==
  LET spaced[n \in 0..TabSize] == IF n = 0 THEN r ELSE Add(spaced[n - 1], SPACE)
  IN  spaced[TabSize - (Len(Last(r)) % TabSize)]

(* Something was typed since the last newline. *)
Erasable(r) ==
  \/ Last(r) # <<>>
  \/ Len(r) > 1 /\ Last(r[Len(r) - 1]) # NL

Erased(r) ==
  LET fit == IF Len(r) > Height THEN Tail(r) ELSE r
      open == IF Last(fit) = <<>> /\ Len(fit) > 1 THEN Front(fit) ELSE fit
  IN  Append(Front(open), IF Last(open) = <<>> THEN <<>> ELSE Front(Last(open)))

(* From the start of the row again. *)
Restarted(r) ==
  Append(Front(IF Len(r) > Height THEN Tail(r) ELSE r), <<>>)

After(r, ch) ==
  CASE ch = TAB -> Tabbed(r)
    [] ch = BS  -> Erased(r)
    [] ch = CR  -> Restarted(r)
    [] OTHER    -> Add(r, ch)

Init  == rows = << <<>> >>
Clear == rows' = << <<>> >>
Type(ch) == (ch = BS => Erasable(rows)) /\ rows' = After(rows, ch)

(* What somebody else does is nothing to the text.                         *)
Next ==
  /\ rows' # rows
  /\ Clear \/ \E ch \in Visible \union {NL, TAB, BS, CR, SPACE} : Type(ch)
Spec  == Init /\ [][Next]_rows

(* What there is to see. *)
Picture ==
  [y \in 0..(Height - 1) |-> [x \in 0..(Width - 1) |->
     IF y < Len(rows) /\ x < Len(rows[y + 1]) /\ rows[y + 1][x + 1] # NL
     THEN rows[y + 1][x + 1] ELSE SPACE]]
=============================================================================
