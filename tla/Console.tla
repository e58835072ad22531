------------------------------ MODULE Console ------------------------------
(***************************************************************************)
(* src/kernel/framebuffer_console.c: what its functions do to a context    *)
(* (fbc_ctx) and to the picture on the framebuffer, as functions of a      *)
(* record s of both.                                                       *)
(*                                                                         *)
(*   s.fbc           ctx->fbc, row by row; '\0' marks the end of a row     *)
(*   s.cur_y, cur_x  the cursor                                            *)
(*   s.should_shift  the rows must be shifted before the next character    *)
(*   s.px            the glyph drawn at each place                         *)
(*                                                                         *)
(* Colours are left out.  The glyphs of '\0' and '\n' are empty            *)
(* (main_font.h), like that of the space.                                  *)
(*                                                                         *)
(* A definition that stands just before another, with its parameters, and  *)
(* that nothing uses, is what a bug would make of it: PROJECT.json names   *)
(* the property that would notice.                                         *)
(***************************************************************************)
EXTENDS Integers

CONSTANTS
  ch_h, ch_w,           \* rows and columns
  Visible,              \* the characters with a glyph
  NL, TAB, BS, CR,      \* '\n', '\t', '\b' and '\r'
  SPACE, NUL

ASSUME ConsoleAssumption ==
  /\ ch_h \in Nat \ {0, 1} /\ ch_w \in Nat \ {0}
  /\ Visible \intersect {NL, TAB, BS, CR, SPACE, NUL} = {}
  /\ NL \notin {TAB, BS, CR, SPACE, NUL} /\ TAB \notin {BS, CR, SPACE, NUL}
  /\ BS \notin {CR, SPACE, NUL} /\ CR \notin {SPACE, NUL} /\ SPACE # NUL

FBC_TABSIZE == 4

Ys == 0..(ch_h - 1)
Xs == 0..(ch_w - 1)
Glyph(c) == IF c \in {NL, NUL} THEN SPACE ELSE c

EmptyRow == [x \in Xs |-> IF x = 0 THEN NL ELSE NUL]
BlankRow == [x \in Xs |-> SPACE]

(* The column of the '\0' that ends a row; ch_w in a row without one. *)
EndOf(row) ==
  CHOOSE e \in 0..ch_w :
    /\ e = ch_w \/ row[e] = NUL
    /\ \A x \in 0..(e - 1) : row[x] # NUL

(* A row drawn up to its end, the rest filled. *)
Drawn(row) ==
  LET e == EndOf(row) IN [x \in Xs |-> IF x < e THEN Glyph(row[x]) ELSE SPACE]

-----------------------------------------------------------------------------
fbc_clear(s) ==
  [s EXCEPT !.fbc = [y \in Ys |-> EmptyRow], !.cur_y = 0, !.cur_x = 0]

fbc_refresh_raw(s) ==
  [s EXCEPT !.px = [y \in Ys |-> [x \in Xs |-> Glyph(s.fbc[y][x])]]]

fbc_refresh(s) == [s EXCEPT !.px = [y \in Ys |-> Drawn(s.fbc[y])]]

fbc_clrtoeol_null(s) ==
  [s EXCEPT
     !.fbc[s.cur_y] = [x \in Xs |-> IF x < s.cur_x THEN s.fbc[s.cur_y][x] ELSE NUL],
     !.px[s.cur_y]  = [x \in Xs |-> IF x < s.cur_x THEN s.px[s.cur_y][x] ELSE SPACE]]

fbc_clrtoeol(s) ==
  [s EXCEPT
     !.fbc[s.cur_y] = [x \in Xs |-> IF x < s.cur_x THEN s.fbc[s.cur_y][x]
                                    ELSE IF x = s.cur_x THEN NL ELSE NUL],
     !.px[s.cur_y]  = [x \in Xs |-> IF x < s.cur_x THEN s.px[s.cur_y][x] ELSE SPACE]]

(* fbc_shift_rows(1).  What stood behind the copied end of a row stays in  *)
(* the array, undrawn.                                                     *)
CopiedOver(row, over) ==
  LET e == EndOf(row) IN [x \in Xs |-> IF x <= e THEN row[x] ELSE over[x]]
fbc_shift_rows(s) ==
  [s EXCEPT
     !.fbc = [y \in Ys |-> IF y = ch_h - 1 THEN EmptyRow
                           ELSE CopiedOver(s.fbc[y + 1], s.fbc[y])],
     !.px  = [y \in Ys |-> IF y = ch_h - 1 THEN BlankRow ELSE Drawn(s.fbc[y + 1])]]

-----------------------------------------------------------------------------
NextRowAlways(s) ==
  IF s.cur_y + 1 < ch_h
  THEN [s EXCEPT !.cur_y = s.cur_y + 1, !.cur_x = 0]
  ELSE [fbc_shift_rows(s) EXCEPT !.cur_x = 0]

(* To the next row, or, on the last one, a note to shift. *)
NextRow(s) ==
  IF s.cur_y + 1 < ch_h
  THEN [s EXCEPT !.cur_y = s.cur_y + 1, !.cur_x = 0]
  ELSE [s EXCEPT !.should_shift = TRUE, !.cur_x = 0]

Ready(s) ==
  IF s.should_shift THEN [fbc_shift_rows(s) EXCEPT !.should_shift = FALSE] ELSE s

Put(s, c) ==
  LET d == [s EXCEPT !.fbc[s.cur_y][s.cur_x] = c, !.px[s.cur_y][s.cur_x] = Glyph(c)]
  IN  IF s.cur_x + 1 >= ch_w THEN NextRow(d) ELSE [d EXCEPT !.cur_x = s.cur_x + 1]

(* '\n' is stored and not drawn. *)
Newline(s) == NextRow([s EXCEPT !.fbc[s.cur_y][s.cur_x] = NL])

Space(s) == Put(Ready(s), SPACE)
Tab(s) ==
  LET s1 == Space(s)  s2 == Space(s1)  s3 == Space(s2)
      tabs_needed == FBC_TABSIZE - (s.cur_x % FBC_TABSIZE)
  IN  CASE tabs_needed = 1 -> s1
        [] tabs_needed = 2 -> s2
        [] tabs_needed = 3 -> s3
        [] OTHER -> Space(s3)

(* Backwards from the last column to the first character that is no '\0'.  *)
LastChar(row) ==
  CHOOSE x \in Xs : row[x] # NUL /\ \A z \in Xs : z > x => row[z] = NUL

Backspace(s) ==
  LET y == IF s.cur_x = 0 /\ s.cur_y > 0 THEN s.cur_y - 1 ELSE s.cur_y
      x == IF s.cur_x > 0 THEN s.cur_x - 1
           ELSE IF s.cur_y > 0 THEN LastChar(s.fbc[y]) ELSE 0
  IN  [s EXCEPT !.cur_y = y, !.cur_x = x,
                !.fbc[y][x] = SPACE, !.px[y][x] = SPACE]

Return(s) ==
  LET Cleared(row) == [x \in Xs |-> IF x < s.cur_x THEN SPACE ELSE row[x]] IN
  [s EXCEPT !.fbc[s.cur_y] = Cleared(s.fbc[s.cur_y]),
            !.px[s.cur_y]  = Cleared(s.px[s.cur_y]),
            !.cur_x = 0]

fbc_putchar(s, c) ==
  CASE c = NL  -> Newline(Ready(s))
    [] c = TAB -> Tab(Ready(s))
    [] c = BS  -> Backspace(Ready(s))
    [] c = CR  -> Return(Ready(s))
    [] OTHER   -> Put(Ready(s), c)

(* fbc_init, which clears and draws. *)
fbc_init ==
  [fbc |-> [y \in Ys |-> EmptyRow], cur_y |-> 0, cur_x |-> 0,
   should_shift |-> FALSE, px |-> [y \in Ys |-> BlankRow]]

=============================================================================
