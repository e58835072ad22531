---------------------------- MODULE CursesProofs ----------------------------
(***************************************************************************)
(* For every size of the console and every set of characters: the cursor   *)
(* stays inside, every cell holds a character, every row has a character   *)
(* in its first column, and the console is the screen that Screen promises *)
(* and shows its picture, whatever is printed and whichever curses         *)
(* programs run in between.                                                *)
(*                                                                         *)
(* The second half rests on what the rows look like (Lines): those above   *)
(* the cursor are full, that of the cursor is open, those below are empty, *)
(* and what stands behind the end of a text is never drawn.  That makes    *)
(* the text of each row, and its picture, depend on its length alone.      *)
(***************************************************************************)
EXTENDS Curses, SequenceTheorems, WellFoundedInduction, TLAPS

Inv == TypeOK /\ RowsHaveText

(* A context with its picture that '\b' is safe on. *)
Good(s) == s \in States /\ \A y \in Ys : s.fbc[y][0] # NUL

-----------------------------------------------------------------------------
(* A set of naturals has a least element. *)
LEMMA Least ==
  ASSUME NEW T \in SUBSET Nat, T # {}
  PROVE \E n \in T : \A m \in T : n <= m
<1> DEFINE R == OpToRel(<, Nat)
<1>1. IsWellFoundedOn(R, Nat)
  BY NatLessThanWellFounded, Zenon
<1>2. R = {ss \in Nat \X Nat : ss[1] < ss[2]}
  BY Zenon DEF OpToRel
<1>3. \A x, y \in Nat : x < y => <<x, y>> \in {ss \in Nat \X Nat : ss[1] < ss[2]}
  OBVIOUS
<1>4. \A x, y \in Nat : x < y => <<x, y>> \in R
  BY <1>2, <1>3, Zenon
<1> HIDE DEF R
<1>5. PICK n \in T : \A m \in T : ~(<<m, n>> \in R)
  BY <1>1, WFMin
<1>6. \A m \in T : m \in Nat /\ n \in Nat
  OBVIOUS
<1>7. \A m \in T : ~(m < n)
  BY <1>4, <1>5, <1>6, Zenon
<1>8. \A m \in T : n <= m
  BY <1>6, <1>7
<1> QED BY <1>8, Zenon

(* The search of '\b' in the row above ends inside the row.                *)
LEMMA LastCharInRow ==
  ASSUME NEW row \in [Xs -> Cells], row[0] # NUL
  PROVE  LastChar(row) \in Xs
<1> DEFINE T == {n \in Nat : n < ch_w /\ row[ch_w - 1 - n] # NUL}
<1>1. ch_w \in Nat /\ ch_w > 0
  BY ConsoleAssumption
<1>2. ch_w - 1 \in T
  <2>1. ch_w - 1 \in Nat /\ ch_w - 1 < ch_w /\ ch_w - 1 - (ch_w - 1) = 0
    BY <1>1
  <2> QED BY <2>1
<1>3. PICK n \in T : \A m \in T : n <= m
  <2>1. T \in SUBSET Nat /\ T # {}
    BY <1>2
  <2> HIDE DEF T
  <2> QED BY <2>1, Least
<1> DEFINE x == ch_w - 1 - n
<1>4. x \in Xs /\ row[x] # NUL
  BY <1>1, <1>3 DEF Xs
<1>5. \A z \in Xs : z > x => row[z] = NUL
  <2> SUFFICES ASSUME NEW z \in Xs, z > x, row[z] # NUL PROVE FALSE
    OBVIOUS
  <2>1. ch_w - 1 - z \in Nat /\ ch_w - 1 - z < ch_w /\ ch_w - 1 - (ch_w - 1 - z) = z
    BY <1>1 DEF Xs
  <2>2. ch_w - 1 - z \in T
    BY <2>1
  <2>3. n <= ch_w - 1 - z
    BY <1>3, <2>2
  <2> QED BY <1>1, <1>3, <2>3 DEF Xs
<1> HIDE DEF x
<1>6. \E w \in Xs : row[w] # NUL /\ \A z \in Xs : z > w => row[z] = NUL
  BY <1>4, <1>5
<1> QED BY <1>6 DEF LastChar

-----------------------------------------------------------------------------
LEMMA Zero == 0 \in Xs /\ 0 \in Ys /\ ch_h - 1 \in Ys
BY ConsoleAssumption DEF Xs, Ys

(* Storing a character other than '\0' and drawing its glyph.              *)
LEMMA StoreGood ==
  ASSUME NEW s, Good(s), NEW y \in Ys, NEW x \in Xs,
         NEW c \in Visible \union {SPACE, NL}, NEW g \in Visible \union {SPACE}
  PROVE  /\ Good([s EXCEPT !.fbc[y][x] = c])
         /\ Good([s EXCEPT !.fbc[y][x] = c, !.px[y][x] = g])
<1>1. c \in Cells /\ c # NUL
  BY ConsoleAssumption DEF Cells
<1>2. [s.fbc EXCEPT ![y][x] = c] \in [Ys -> [Xs -> Cells]]
  BY <1>1 DEF Good, States
<1>3. \A z \in Ys : [s.fbc EXCEPT ![y][x] = c][z][0] # NUL
  BY <1>1, Zero DEF Good, States
<1>4. [s.px EXCEPT ![y][x] = g] \in [Ys -> [Xs -> Visible \union {SPACE}]]
  BY DEF Good, States
<1> QED BY <1>2, <1>3, <1>4 DEF Good, States

(* Replacing a row by one that starts with a character. *)
LEMMA RowGood ==
  ASSUME NEW s, Good(s), NEW y \in Ys, NEW x \in Xs,
         NEW row \in [Xs -> Cells], row[0] # NUL,
         NEW pic \in [Xs -> Visible \union {SPACE}]
  PROVE  /\ Good([s EXCEPT !.fbc[y] = row, !.px[y] = pic])
         /\ Good([s EXCEPT !.fbc[y] = row, !.px[y] = pic, !.cur_x = x])
<1>1. [s.fbc EXCEPT ![y] = row] \in [Ys -> [Xs -> Cells]]
  BY DEF Good, States
<1>2. \A z \in Ys : [s.fbc EXCEPT ![y] = row][z][0] # NUL
  BY DEF Good, States
<1>3. [s.px EXCEPT ![y] = pic] \in [Ys -> [Xs -> Visible \union {SPACE}]]
  BY DEF Good, States
<1> QED BY <1>1, <1>2, <1>3 DEF Good, States

LEMMA GlyphType ==
  ASSUME NEW c \in Cells
  PROVE  Glyph(c) \in Visible \union {SPACE}
BY DEF Glyph, Cells

LEMMA DrawnType ==
  ASSUME NEW row \in [Xs -> Cells]
  PROVE  Drawn(row) \in [Xs -> Visible \union {SPACE}]
BY GlyphType DEF Drawn

LEMMA EmptyRowGood == EmptyRow \in [Xs -> Cells] /\ EmptyRow[0] # NUL
BY Zero, ConsoleAssumption DEF EmptyRow, Cells

LEMMA ClearGood ==
  ASSUME NEW s, Good(s)
  PROVE  Good(fbc_clear(s))
BY EmptyRowGood, Zero DEF Good, States, fbc_clear

LEMMA RefreshGood ==
  ASSUME NEW s, Good(s)
  PROVE  Good(fbc_refresh_raw(s)) /\ Good(fbc_refresh(s))
<1>1. \A y \in Ys : s.fbc[y] \in [Xs -> Cells]
  BY DEF Good, States
<1>2. [y \in Ys |-> [x \in Xs |-> Glyph(s.fbc[y][x])]] \in [Ys -> [Xs -> Visible \union {SPACE}]]
  BY <1>1, GlyphType
<1>3. [y \in Ys |-> Drawn(s.fbc[y])] \in [Ys -> [Xs -> Visible \union {SPACE}]]
  BY <1>1, DrawnType
<1> QED BY <1>2, <1>3 DEF Good, States, fbc_refresh_raw, fbc_refresh

LEMMA ClrToEolGood ==
  ASSUME NEW s, Good(s)
  PROVE  Good(fbc_clrtoeol(s))
<1> DEFINE row == [x \in Xs |-> IF x < s.cur_x THEN s.fbc[s.cur_y][x]
                                ELSE IF x = s.cur_x THEN NL ELSE NUL]
           pic == [x \in Xs |-> IF x < s.cur_x THEN s.px[s.cur_y][x] ELSE SPACE]
<1>1. s.cur_y \in Ys /\ s.cur_x \in Xs
  BY DEF Good, States
<1>2. row \in [Xs -> Cells]
  BY <1>1 DEF Good, States, Cells
<1>3. row[0] # NUL
  BY <1>1, Zero, ConsoleAssumption DEF Good, Xs
<1>4. pic \in [Xs -> Visible \union {SPACE}]
  BY <1>1 DEF Good, States
<1>5. fbc_clrtoeol(s) = [s EXCEPT !.fbc[s.cur_y] = row, !.px[s.cur_y] = pic]
  BY DEF fbc_clrtoeol
<1> HIDE DEF row, pic
<1>6. Good([s EXCEPT !.fbc[s.cur_y] = row, !.px[s.cur_y] = pic])
  BY <1>1, <1>2, <1>3, <1>4, RowGood, Zenon
<1> QED BY <1>5, <1>6

(* A shift copies every row with its first character. *)
LEMMA ShiftGood ==
  ASSUME NEW s, Good(s)
  PROVE  Good(fbc_shift_rows(s))
<1>1. \A y \in Ys : s.fbc[y] \in [Xs -> Cells] /\ s.fbc[y][0] # NUL
  BY DEF Good, States
<1>2. \A y \in Ys : y # ch_h - 1 => y + 1 \in Ys
  BY ConsoleAssumption DEF Ys
<1>3. ASSUME NEW row \in [Xs -> Cells], NEW over \in [Xs -> Cells],
             row[0] # NUL, over[0] # NUL
      PROVE  CopiedOver(row, over) \in [Xs -> Cells] /\ CopiedOver(row, over)[0] # NUL
  BY <1>3, Zero DEF CopiedOver
<1> DEFINE f == [y \in Ys |-> IF y = ch_h - 1 THEN EmptyRow
                              ELSE CopiedOver(s.fbc[y + 1], s.fbc[y])]
           p == [y \in Ys |-> IF y = ch_h - 1 THEN BlankRow ELSE Drawn(s.fbc[y + 1])]
<1>4. \A y \in Ys : f[y] \in [Xs -> Cells] /\ f[y][0] # NUL
  BY <1>1, <1>2, <1>3, EmptyRowGood
<1>5. f \in [Ys -> [Xs -> Cells]]
  BY <1>4
<1>6. BlankRow \in [Xs -> Visible \union {SPACE}]
  BY DEF BlankRow
<1>7. \A y \in Ys : p[y] \in [Xs -> Visible \union {SPACE}]
  BY <1>1, <1>2, <1>6, DrawnType
<1>8. p \in [Ys -> [Xs -> Visible \union {SPACE}]]
  BY <1>7
<1>9. fbc_shift_rows(s) = [s EXCEPT !.fbc = f, !.px = p]
  BY DEF fbc_shift_rows
<1> HIDE DEF f, p
<1> QED BY <1>4, <1>5, <1>8, <1>9 DEF Good, States

LEMMA ReadyGood ==
  ASSUME NEW s, Good(s)
  PROVE  Good(Ready(s))
<1>1. Good(fbc_shift_rows(s))
  BY ShiftGood
<1>2. Good([fbc_shift_rows(s) EXCEPT !.should_shift = FALSE])
  BY <1>1 DEF Good, States
<1> QED BY <1>2 DEF Ready

LEMMA NextRowGood ==
  ASSUME NEW s, Good(s)
  PROVE  Good(NextRow(s))
<1>1. s.cur_y \in Ys /\ (s.cur_y + 1 < ch_h => s.cur_y + 1 \in Ys)
  BY ConsoleAssumption DEF Good, States, Ys
<1> QED BY <1>1, Zero DEF Good, States, NextRow

LEMMA PutGood ==
  ASSUME NEW s, Good(s), NEW c \in Visible \union {SPACE}
  PROVE  Good(Put(s, c))
<1> DEFINE d == [s EXCEPT !.fbc[s.cur_y][s.cur_x] = c, !.px[s.cur_y][s.cur_x] = Glyph(c)]
<1>1. s.cur_y \in Ys /\ s.cur_x \in Xs
  BY DEF Good, States
<1>2. c \in Cells /\ Glyph(c) \in Visible \union {SPACE}
  BY GlyphType DEF Cells
<1>3. Good(d)
  BY <1>1, <1>2, StoreGood
<1>4. ~(s.cur_x + 1 >= ch_w) => s.cur_x + 1 \in Xs
  BY <1>1, ConsoleAssumption DEF Xs
<1>5. ~(s.cur_x + 1 >= ch_w) => Good([d EXCEPT !.cur_x = s.cur_x + 1])
  <2> HIDE DEF d
  <2> QED BY <1>3, <1>4 DEF Good, States
<1>6. Good(NextRow(d))
  <2> HIDE DEF d
  <2> QED BY <1>3, NextRowGood
<1>7. Put(s, c) = IF s.cur_x + 1 >= ch_w THEN NextRow(d) ELSE [d EXCEPT !.cur_x = s.cur_x + 1]
  BY DEF Put
<1> HIDE DEF d
<1> QED BY <1>5, <1>6, <1>7

LEMMA NewlineGood ==
  ASSUME NEW s, Good(s)
  PROVE  Good(Newline(s))
<1>1. s.cur_y \in Ys /\ s.cur_x \in Xs
  BY DEF Good, States
<1>2. Good([s EXCEPT !.fbc[s.cur_y][s.cur_x] = NL])
  BY <1>1, StoreGood
<1> QED BY <1>2, NextRowGood DEF Newline

LEMMA TabGood ==
  ASSUME NEW s, Good(s)
  PROVE  Good(Tab(s))
<1>1. ASSUME NEW t, Good(t) PROVE Good(Space(t))
  BY <1>1, ReadyGood, PutGood DEF Space
<1>2. Good(Space(s))
  BY <1>1
<1>3. Good(Space(Space(s)))
  BY <1>1, <1>2
<1>4. Good(Space(Space(Space(s))))
  BY <1>1, <1>3
<1>5. Good(Space(Space(Space(Space(s)))))
  BY <1>1, <1>4
<1> QED BY <1>2, <1>3, <1>4, <1>5 DEF Tab

LEMMA BackspaceGood ==
  ASSUME NEW s, Good(s)
  PROVE  Good(Backspace(s))
<1> DEFINE y == IF s.cur_x = 0 /\ s.cur_y > 0 THEN s.cur_y - 1 ELSE s.cur_y
           x == IF s.cur_x > 0 THEN s.cur_x - 1
                ELSE IF s.cur_y > 0 THEN LastChar(s.fbc[y]) ELSE 0
<1>1. s.cur_y \in Ys /\ s.cur_x \in Xs
  BY DEF Good, States
<1>2. y \in Ys
  BY <1>1, ConsoleAssumption DEF Ys
<1>3. s.fbc[y] \in [Xs -> Cells] /\ s.fbc[y][0] # NUL
  BY <1>2 DEF Good, States
<1>4. LastChar(s.fbc[y]) \in Xs
  BY <1>3, LastCharInRow
<1>5. x \in Xs
  <2> HIDE DEF y
  <2>1. s.cur_x > 0 => s.cur_x - 1 \in Xs
    BY <1>1, ConsoleAssumption DEF Xs
  <2> QED BY <1>4, <2>1, Zero
<1> DEFINE t == [s EXCEPT !.cur_y = y, !.cur_x = x]
<1>6. Good(t)
  <2> HIDE DEF x, y
  <2> QED BY <1>2, <1>5 DEF Good, States
<1>7. Good([t EXCEPT !.fbc[y][x] = SPACE, !.px[y][x] = SPACE])
  <2> HIDE DEF t, x, y
  <2> QED BY <1>2, <1>5, <1>6, StoreGood
<1>8. Backspace(s) = [t EXCEPT !.fbc[y][x] = SPACE, !.px[y][x] = SPACE]
  BY DEF Backspace
<1> HIDE DEF t, x, y
<1> QED BY <1>7, <1>8

LEMMA ReturnGood ==
  ASSUME NEW s, Good(s)
  PROVE  Good(Return(s))
<1> DEFINE row == [x \in Xs |-> IF x < s.cur_x THEN SPACE ELSE s.fbc[s.cur_y][x]]
           pic == [x \in Xs |-> IF x < s.cur_x THEN SPACE ELSE s.px[s.cur_y][x]]
<1>1. s.cur_y \in Ys /\ s.cur_x \in Xs
  BY DEF Good, States
<1>2. row \in [Xs -> Cells] /\ row[0] # NUL
  BY <1>1, Zero, ConsoleAssumption DEF Good, States, Cells
<1>3. pic \in [Xs -> Visible \union {SPACE}]
  BY <1>1 DEF Good, States
<1>4. Return(s) = [s EXCEPT !.fbc[s.cur_y] = row, !.px[s.cur_y] = pic, !.cur_x = 0]
  BY DEF Return
<1> HIDE DEF row, pic
<1>5. Good([s EXCEPT !.fbc[s.cur_y] = row, !.px[s.cur_y] = pic, !.cur_x = 0])
  BY <1>1, <1>2, <1>3, Zero, RowGood, Zenon
<1> QED BY <1>4, <1>5

(* fbc_putchar, for every character the programs print.                    *)
LEMMA PutcharGood ==
  ASSUME NEW s, Good(s), NEW c \in Printing
  PROVE  Good(fbc_putchar(s, c))
<1>1. Good(Ready(s))
  BY ReadyGood
<1>2. c \notin {NL, TAB, BS, CR} => c \in Visible \union {SPACE}
  BY DEF Printing
<1> QED BY <1>1, <1>2, PutGood, NewlineGood, TabGood, BackspaceGood, ReturnGood DEF fbc_putchar

-----------------------------------------------------------------------------
OldGood == InCurses => old_ctx \in Contexts /\ \A y \in Ys : old_ctx.fbc[y][0] # NUL

LEMMA InvIsGood == Inv <=> Good(con) /\ OldGood /\ (old_ctx \in Contexts \union {NULL}) /\ calls \in 0..MaxCalls
BY DEF Inv, TypeOK, RowsHaveText, Good, OldGood, InCurses

LEMMA InitInv == Init => Inv
<1> SUFFICES ASSUME Init PROVE Inv
  OBVIOUS
<1>1. BlankRow \in [Xs -> Visible \union {SPACE}]
  BY DEF BlankRow
<1>2. Good(con)
  BY <1>1, EmptyRowGood, Zero DEF Init, fbc_init, Good, States
<1>3. old_ctx = NULL /\ calls \in 0..MaxCalls
  BY CursesAssumption DEF Init
<1> QED BY <1>2, <1>3, InvIsGood DEF OldGood, InCurses

LEMMA NextInv == Inv /\ [Next]_vars => Inv'
<1> SUFFICES ASSUME Inv, [Next]_vars PROVE Inv'
  OBVIOUS
<1>1. Good(con) /\ OldGood /\ (old_ctx \in Contexts \union {NULL}) /\ calls \in 0..MaxCalls
  BY InvIsGood
<1>2. Good(con)' /\ OldGood' /\ (old_ctx \in Contexts \union {NULL})' /\ (calls \in 0..MaxCalls)' => Inv'
  BY DEF Inv, TypeOK, RowsHaveText, Good, OldGood, InCurses
<1> DEFINE Kept == UNCHANGED old_ctx /\ calls' \in 0..MaxCalls
<1>3. Kept /\ Good(con)' => Inv'
  BY <1>1, <1>2 DEF OldGood, InCurses
<1>4. Calls => Kept
  BY <1>1, CursesAssumption DEF Calls
<1>5. ASSUME NEW c \in Printing, PrintChar(c) PROVE Inv'
  <2>1. Good(con')
    BY <1>1, <1>5, PutcharGood DEF PrintChar
  <2> QED BY <1>1, <1>3, <1>5, <2>1 DEF PrintChar, Good
<1>6. CASE Clear
  <2>1. Good(con')
    BY <1>1, <1>6, ClearGood, RefreshGood DEF Clear
  <2> QED BY <1>1, <1>3, <1>6, <2>1 DEF Clear, Good
<1>7. CASE Refresh
  <2>1. Good(con')
    BY <1>1, <1>7, RefreshGood DEF Refresh
  <2> QED BY <1>1, <1>3, <1>7, <2>1 DEF Refresh, Good
<1>8. CASE initscr
  <2>1. Ctx(con) \in Contexts /\ \A y \in Ys : Ctx(con).fbc[y][0] # NUL
    BY <1>1 DEF Good, States, Contexts, Ctx
  <2>2. PICK shift \in BOOLEAN :
          con' = fbc_refresh_raw(fbc_clear([con EXCEPT !.should_shift = shift]))
    BY <1>8 DEF initscr
  <2>3. Good([con EXCEPT !.should_shift = shift])
    BY <1>1 DEF Good, States
  <2>4. Good(con')
    BY <2>2, <2>3, ClearGood, RefreshGood
  <2> QED BY <1>1, <1>2, <1>8, <2>1, <2>4 DEF initscr, Good, OldGood, InCurses
<1>9. CASE endwin
  <2> DEFINE s == [fbc |-> old_ctx.fbc, cur_y |-> old_ctx.cur_y, cur_x |-> old_ctx.cur_x,
                   should_shift |-> old_ctx.should_shift, px |-> con.px]
  <2>1. Good(s)
    BY <1>1, <1>9 DEF endwin, Good, OldGood, States, Contexts
  <2>2. con' = fbc_refresh(s)
    BY <1>9 DEF endwin
  <2>3. Good(con')
    <3> HIDE DEF s
    <3> QED BY <2>1, <2>2, RefreshGood
  <2>4. old_ctx' = NULL /\ calls' \in 0..MaxCalls
    BY <1>9, CursesAssumption DEF endwin
  <2> QED BY <1>2, <2>3, <2>4 DEF Good, OldGood, InCurses
<1>10. ASSUME NEW at \in Positions, move(at[1], at[2]) PROVE Inv'
  <2>1. at[1] \in Nat /\ at[2] \in Nat
    BY CursesAssumption
  <2>2. /\ (IF at[1] >= ch_h THEN ch_h - 1 ELSE at[1]) \in Ys
        /\ (IF at[2] >= ch_w THEN ch_w - 1 ELSE at[2]) \in Xs
    BY <2>1, ConsoleAssumption DEF Xs, Ys
  <2>3. Good(con')
    BY <1>1, <1>10, <2>2 DEF move, Good, States
  <2> QED BY <1>3, <1>4, <1>10, <2>3 DEF move, Good
<1>11. ASSUME NEW c \in Visible \union {SPACE}, addch(c) PROVE Inv'
  <2>1. Good(con')
    BY <1>1, <1>11, PutcharGood DEF addch, Printing
  <2> QED BY <1>3, <1>4, <1>11, <2>1 DEF addch, Good
<1>12. CASE clrtoeol
  <2>1. Good(con')
    BY <1>1, <1>12, ClrToEolGood DEF clrtoeol
  <2> QED BY <1>3, <1>4, <1>12, <2>1 DEF clrtoeol, Good
<1>13. CASE refresh
  <2>1. Good(con')
    BY <1>1, <1>13, RefreshGood DEF refresh
  <2> QED BY <1>3, <1>4, <1>13, <2>1 DEF refresh, Good
<1>14. CASE UNCHANGED vars
  BY <1>1, <1>3, <1>14 DEF vars, Good
<1> QED BY <1>5, <1>6, <1>7, <1>8, <1>9, <1>10, <1>11, <1>12, <1>13, <1>14 DEF Next

(* Types hold and, with the search of '\b' for the end of a row, the       *)
(* cursor stays inside the console (curses.c, framebuffer_console.c).      *)
THEOREM TypeCorrect == Spec => []TypeOK
<1>1. Inv => TypeOK
  BY DEF Inv
<1> QED BY InitInv, NextInv, <1>1, PTL DEF Spec

(* No row ever starts with '\0', so the loop of '\b' always ends.          *)
THEOREM FirstColumn == Spec => []RowsHaveText
<1>1. Inv => RowsHaveText
  BY DEF Inv
<1> QED BY InitInv, NextInv, <1>1, PTL DEF Spec

-----------------------------------------------------------------------------
(* The cursor's row, with the cursor in column n. *)
Open(row, n) ==
  \A x \in Xs : IF x < n THEN row[x] \notin {NL, NUL} ELSE row[x] \in {SPACE, NL, NUL}

(* Behind the first n characters there is nothing to draw: what a shift    *)
(* left there stands behind a '\0'.                                        *)
Covers(row, n) ==
  \A x \in Xs : IF x < n THEN row[x] # NUL
                ELSE (\A z \in n..x : row[z] # NUL) => row[x] \in {SPACE, NL}

(* A row whose text was ended by its n-th character. *)
Full(row, n) ==
  /\ n = ch_w \/ row[n - 1] = NL
  /\ \A x \in 0..(n - 2) : row[x] # NL
  /\ Covers(row, n)

LEMMA Chars ==
  /\ NL # NUL /\ SPACE # NUL /\ SPACE # NL
  /\ \A c \in Visible \union {SPACE} : c \notin {NL, TAB, BS, CR, NUL}
BY ConsoleAssumption

(* There is one end of a row. *)
LEMMA EndOfIs ==
  ASSUME NEW row
  PROVE  /\ EndOf(row) \in 0..ch_w
         /\ EndOf(row) = ch_w \/ row[EndOf(row)] = NUL
         /\ \A x \in 0..(EndOf(row) - 1) : row[x] # NUL
<1> DEFINE T == {n \in 0..ch_w : n = ch_w \/ row[n] = NUL}
<1>1. ch_w \in Nat
  BY ConsoleAssumption
<1>2. T \in SUBSET Nat /\ T # {}
  BY <1>1
<1>3. PICK e \in T : \A m \in T : e <= m
  <2> HIDE DEF T
  <2> QED BY <1>2, Least
<1>4. ASSUME NEW x \in 0..(e - 1), row[x] = NUL PROVE FALSE
  <2>1. x \in T
    BY <1>1, <1>3, <1>4
  <2>2. e <= x
    BY <1>3, <2>1
  <2> QED BY <1>1, <1>3, <1>4, <2>2
<1>5. \E f \in 0..ch_w : /\ f = ch_w \/ row[f] = NUL
                         /\ \A x \in 0..(f - 1) : row[x] # NUL
  BY <1>3, <1>4
<1> QED BY <1>5 DEF EndOf

(* What is drawn of a row whose text has n characters. *)
LEMMA DrawnCovers ==
  ASSUME NEW row, NEW n \in Nat, Covers(row, n), NEW x \in Xs
  PROVE  Drawn(row)[x] = IF x < n THEN Glyph(row[x]) ELSE SPACE
<1> DEFINE e == EndOf(row)
<1>1. /\ e \in 0..ch_w
      /\ e = ch_w \/ row[e] = NUL
      /\ \A z \in 0..(e - 1) : row[z] # NUL
  BY EndOfIs
<1>2. Drawn(row)[x] = IF x < e THEN Glyph(row[x]) ELSE SPACE
  BY DEF Drawn
<1> HIDE DEF e
<1>3. ch_w \in Nat /\ x \in Nat /\ x < ch_w
  BY ConsoleAssumption DEF Xs
<1>4. CASE x < n
  <2>1. ASSUME e <= x PROVE FALSE
    <3>1. e < n /\ e < ch_w /\ e \in Xs
      BY <1>1, <1>3, <1>4, <2>1 DEF Xs
    <3>2. row[e] # NUL
      BY <3>1 DEF Covers
    <3> QED BY <1>1, <1>3, <3>1, <3>2
  <2>2. x < e
    BY <1>1, <1>3, <2>1
  <2> QED BY <1>2, <1>4, <2>2
<1>5. CASE ~(x < n) /\ x < e
  <2>1. \A z \in n..x : row[z] # NUL
    BY <1>1, <1>3, <1>5
  <2>2. row[x] \in {SPACE, NL}
    BY <1>5, <2>1 DEF Covers
  <2>3. Glyph(row[x]) = SPACE
    BY <2>2 DEF Glyph
  <2> QED BY <1>2, <1>5, <2>3
<1>6. CASE ~(x < n) /\ ~(x < e)
  BY <1>2, <1>6
<1> QED BY <1>4, <1>5, <1>6

(* There is nothing to draw behind the cursor. *)
LEMMA OpenCovers ==
  ASSUME NEW row, NEW n \in Nat, Open(row, n)
  PROVE  Covers(row, n)
<1> SUFFICES ASSUME NEW x \in Xs
             PROVE  IF x < n THEN row[x] # NUL
                    ELSE (\A z \in n..x : row[z] # NUL) => row[x] \in {SPACE, NL}
  BY DEF Covers
<1>1. x \in Int
  BY DEF Xs
<1>2. CASE x < n
  BY <1>2 DEF Open
<1>3. CASE ~(x < n)
  <2>1. x \in n..x /\ row[x] \in {SPACE, NL, NUL}
    BY <1>1, <1>3 DEF Open
  <2> QED BY <1>3, <2>1
<1> QED BY <1>2, <1>3

(* The copy of a row over another has its text.                            *)
LEMMA CopiedCovers ==
  ASSUME NEW row, NEW over, NEW n \in Nat, n <= ch_w, Covers(row, n)
  PROVE  /\ Covers(CopiedOver(row, over), n)
         /\ \A x \in Xs : x < n => CopiedOver(row, over)[x] = row[x]
<1> DEFINE e == EndOf(row)  cp == CopiedOver(row, over)
<1>1. /\ e \in 0..ch_w
      /\ e = ch_w \/ row[e] = NUL
      /\ \A z \in 0..(e - 1) : row[z] # NUL
  BY EndOfIs
<1>2. \A x \in Xs : cp[x] = IF x <= e THEN row[x] ELSE over[x]
  BY DEF CopiedOver
<1> HIDE DEF e, cp
<1>3. ch_w \in Nat /\ \A x \in Xs : x \in Nat /\ x < ch_w
  BY ConsoleAssumption DEF Xs
<1>4. n <= e
  <2> SUFFICES ASSUME e < n PROVE FALSE
    BY <1>1
  <2>1. e \in Xs /\ e # ch_w
    BY <1>1, <1>3 DEF Xs
  <2>2. row[e] # NUL
    BY <2>1 DEF Covers
  <2> QED BY <1>1, <2>1, <2>2
<1>5. \A x \in Xs : x < n => cp[x] = row[x]
  BY <1>1, <1>2, <1>3, <1>4
<1>6. ASSUME NEW x \in Xs, ~(x < n), \A z \in n..x : cp[z] # NUL
      PROVE  cp[x] \in {SPACE, NL}
  <2>1. ASSUME e < x PROVE FALSE
    <3>1. e \in Xs /\ e \in n..x /\ e # ch_w
      BY <1>1, <1>3, <1>4, <2>1 DEF Xs
    <3>2. cp[e] = NUL
      BY <1>1, <1>2, <3>1
    <3> QED BY <1>6, <3>1, <3>2
  <2>2. x <= e
    BY <1>1, <1>3, <2>1
  <2>3. \A z \in n..x : z \in Xs /\ z <= e /\ cp[z] = row[z]
    BY <1>1, <1>2, <1>3, <2>2 DEF Xs
  <2>4. cp[x] = row[x]
    BY <1>2, <2>2
  <2>5. row[x] \in {SPACE, NL}
    BY <1>6, <2>3 DEF Covers
  <2> QED BY <2>4, <2>5
<1>7. \A x \in Xs : x < n => cp[x] # NUL
  BY <1>5 DEF Covers
<1>8. Covers(cp, n)
  BY <1>6, <1>7 DEF Covers
<1> QED BY <1>5, <1>8 DEF cp

(* There is one end of a row's text. *)
LEMMA TextEndIs ==
  ASSUME NEW row, NEW n \in 1..ch_w, Full(row, n)
  PROVE  TextEnd(row) = n
<1> DEFINE P(k) == /\ k = ch_w \/ row[k - 1] = NL
                   /\ \A x \in 0..(k - 2) : row[x] # NL
<1>1. P(n)
  BY DEF Full
<1>2. ASSUME NEW k \in 1..ch_w, P(k), NEW l \in 1..ch_w, P(l), k < l
      PROVE  FALSE
  <2>1. k - 1 \in 0..(l - 2) /\ k # ch_w
    BY <1>2, ConsoleAssumption
  <2> QED BY <1>2, <2>1
<1>3. \A k \in 1..ch_w : P(k) => k = n
  <2> SUFFICES ASSUME NEW k \in 1..ch_w, P(k) PROVE k = n
    OBVIOUS
  <2>1. k < n \/ n < k \/ k = n
    BY ConsoleAssumption
  <2> HIDE DEF P
  <2> QED BY <1>1, <1>2, <2>1
<1>4. TextEnd(row) = CHOOSE k \in 1..ch_w : P(k)
  BY DEF TextEnd
<1> HIDE DEF P
<1> QED BY <1>1, <1>3, <1>4

(* A shift moves a full row with its text. *)
LEMMA CopiedFull ==
  ASSUME NEW row, NEW over, NEW n \in 1..ch_w, Full(row, n)
  PROVE  /\ Full(CopiedOver(row, over), n)
         /\ TextOf(CopiedOver(row, over), n) = TextOf(row, n)
<1> DEFINE cp == CopiedOver(row, over)
<1>1. Covers(cp, n) /\ \A x \in Xs : x < n => cp[x] = row[x]
  BY CopiedCovers, ConsoleAssumption DEF Full
<1> HIDE DEF cp
<1>2. \A i \in 1..n : i - 1 \in Xs /\ i - 1 < n
  BY ConsoleAssumption DEF Xs
<1>3. \A i \in 1..n : cp[i - 1] = row[i - 1]
  BY <1>1, <1>2
<1>4. TextOf(cp, n) = TextOf(row, n)
  BY <1>3 DEF TextOf
<1>5. \A x \in 0..(n - 2) : x \in Xs /\ x < n
  BY ConsoleAssumption DEF Xs
<1>6. Full(cp, n)
  BY <1>1, <1>3, <1>5 DEF Full
<1> QED BY <1>4, <1>6 DEF cp

(* A newline, or the last column, ends the text of an open row.            *)
LEMMA FullOf ==
  ASSUME NEW old, NEW row, NEW n \in Xs, Open(old, n),
         \A x \in Xs : x # n => row[x] = old[x],
         row[n] # NUL, row[n] = NL \/ n + 1 = ch_w
  PROVE  Full(row, n + 1)
<1>1. n \in Nat /\ \A x \in Xs : x \in Nat /\ x < ch_w
  BY ConsoleAssumption DEF Xs
<1>2. \A x \in 0..(n + 1 - 2) : x \in Xs /\ x < n /\ x # n
  BY ConsoleAssumption DEF Xs
<1>3. \A x \in 0..(n + 1 - 2) : row[x] # NL
  BY <1>2 DEF Open
<1>4. ASSUME NEW x \in Xs
      PROVE  IF x < n + 1 THEN row[x] # NUL
             ELSE (\A z \in (n + 1)..x : row[z] # NUL) => row[x] \in {SPACE, NL}
  <2>1. CASE x < n + 1
    <3>1. x = n \/ x < n
      BY <1>1, <2>1
    <3>2. x < n => row[x] # NUL
      BY <1>1 DEF Open
    <3> QED BY <2>1, <3>1, <3>2
  <2>2. CASE ~(x < n + 1)
    <3>1. x # n /\ ~(x < n) /\ x \in (n + 1)..x
      BY <1>1, <2>2
    <3>2. row[x] \in {SPACE, NL, NUL}
      BY <3>1 DEF Open
    <3> QED BY <2>2, <3>1, <3>2
  <2> QED BY <2>1, <2>2
<1>5. Covers(row, n + 1)
  BY <1>4 DEF Covers
<1>6. n + 1 = ch_w \/ row[n + 1 - 1] = NL
  BY <1>1
<1> QED BY <1>1, <1>3, <1>5, <1>6 DEF Full

(* Any other character leaves the row open. *)
LEMMA OpenOf ==
  ASSUME NEW old, NEW row, NEW n \in Xs, Open(old, n),
         \A x \in Xs : x # n => row[x] = old[x],
         row[n] \notin {NL, NUL}
  PROVE  Open(row, n + 1)
<1> SUFFICES ASSUME NEW x \in Xs
             PROVE  IF x < n + 1 THEN row[x] \notin {NL, NUL} ELSE row[x] \in {SPACE, NL, NUL}
  BY DEF Open
<1>1. n \in Int /\ x \in Int
  BY DEF Xs
<1>2. CASE x = n
  BY <1>1, <1>2
<1>3. CASE x < n
  BY <1>1, <1>3 DEF Open
<1>4. CASE x > n
  BY <1>1, <1>4 DEF Open
<1> QED BY <1>1, <1>2, <1>3, <1>4

(* Rows of characters; and with room for one character more. *)
Texts == Seq(Seq(Cells))
Fit(r) == IF Len(r) > ch_h THEN Tail(r) ELSE r

LEMMA FitIs ==
  ASSUME NEW r \in Texts, NEW l \in 1..ch_h, Len(r) = l
  PROVE  Fit(r) = r
BY ConsoleAssumption DEF Fit, Texts

LEMMA TextOfSeq ==
  ASSUME NEW row \in [Xs -> Cells], NEW n \in 0..ch_w
  PROVE  /\ TextOf(row, n) \in Seq(Cells) /\ Len(TextOf(row, n)) = n
         /\ \A i \in 1..n : TextOf(row, n)[i] = row[i - 1]
<1>1. n \in Nat /\ \A i \in 1..n : i - 1 \in Xs
  BY ConsoleAssumption DEF Xs
<1>2. \A i \in 1..n : row[i - 1] \in Cells
  BY <1>1
<1>3. TextOf(row, n) \in [1..n -> Cells]
  BY <1>2 DEF TextOf
<1>4. TextOf(row, n) \in Seq(Cells)
  BY <1>1, <1>3
<1>5. Len(TextOf(row, n)) = n
  BY <1>1, <1>3, <1>4
<1> QED BY <1>4, <1>5 DEF TextOf

LEMMA NoText ==
  ASSUME NEW row
  PROVE  TextOf(row, 0) = <<>>
<1>1. 1..0 = {}
  OBVIOUS
<1>2. TextOf(row, 0) = [i \in 1..0 |-> row[i - 1]]
  BY DEF TextOf
<1>3. TextOf(row, 0) = [i \in {} |-> row[i - 1]]
  BY <1>1, <1>2
<1> QED BY <1>3

(* One character more in a row is one more in its text.                    *)
LEMMA TextGrows ==
  ASSUME NEW old \in [Xs -> Cells], NEW row \in [Xs -> Cells], NEW n \in Xs,
         \A x \in Xs : x < n => row[x] = old[x]
  PROVE  TextOf(row, n + 1) = Append(TextOf(old, n), row[n])
<1>1. n \in Nat /\ n \in 0..ch_w /\ n + 1 \in 0..ch_w
  BY ConsoleAssumption DEF Xs
<1> DEFINE s == TextOf(row, n + 1)  t == TextOf(old, n)
<1>2. s \in Seq(Cells) /\ Len(s) = n + 1 /\ \A i \in 1..(n + 1) : s[i] = row[i - 1]
  BY <1>1, TextOfSeq
<1>3. t \in Seq(Cells) /\ Len(t) = n /\ \A i \in 1..n : t[i] = old[i - 1]
  BY <1>1, TextOfSeq
<1> HIDE DEF s, t
<1>4. row[n] \in Cells
  OBVIOUS
<1>5. Append(t, row[n]) \in Seq(Cells) /\ Len(Append(t, row[n])) = n + 1
  BY <1>3, <1>4
<1>6. ASSUME NEW i \in 1..(n + 1) PROVE s[i] = Append(t, row[n])[i]
  <2>1. CASE i = n + 1
    BY <1>1, <1>2, <1>3, <2>1
  <2>2. CASE i # n + 1
    <3>1. i \in 1..n /\ i - 1 \in Xs /\ i - 1 < n
      BY <1>1, <2>2, ConsoleAssumption DEF Xs
    <3>2. Append(t, row[n])[i] = t[i]
      BY <1>3, <3>1
    <3> QED BY <1>2, <1>3, <3>1, <3>2
  <2> QED BY <2>1, <2>2
<1> QED BY <1>2, <1>5, <1>6, SeqEqual DEF s, t

-----------------------------------------------------------------------------
(* A text without its last row. *)
LEMMA FrontOf ==
  ASSUME NEW S, NEW r \in Seq(S), NEW l \in Nat \ {0}, Len(r) = l
  PROVE  /\ Promise!Front(r) \in Seq(S) /\ Len(Promise!Front(r)) = l - 1
         /\ \A i \in 1..(l - 1) : Promise!Front(r)[i] = r[i]
<1>1. Promise!Front(r) = SubSeq(r, 1, l - 1)
  BY DEF Promise!Front
<1>2. l - 1 \in 0..Len(r)
  OBVIOUS
<1>3. SubSeq(r, 1, l - 1) \in Seq(S) /\ Len(SubSeq(r, 1, l - 1)) = l - 1
  BY <1>2
<1>4. \A i \in 1..(l - 1) : SubSeq(r, 1, l - 1)[i] = r[i]
  BY <1>2
<1> QED BY <1>1, <1>3, <1>4

(* A text with its last row replaced.                                      *)
LEMMA Replaced ==
  ASSUME NEW S, NEW r \in Seq(S), NEW l \in Nat \ {0}, Len(r) = l, NEW q \in S
  PROVE  /\ Append(Promise!Front(r), q) \in Seq(S)
         /\ Len(Append(Promise!Front(r), q)) = l
         /\ \A i \in 1..(l - 1) : Append(Promise!Front(r), q)[i] = r[i]
         /\ Append(Promise!Front(r), q)[l] = q
<1> DEFINE f == Promise!Front(r)
<1>1. f \in Seq(S) /\ Len(f) = l - 1 /\ \A i \in 1..(l - 1) : f[i] = r[i]
  BY FrontOf
<1> HIDE DEF f
<1>2. Append(f, q) \in Seq(S) /\ Len(Append(f, q)) = l
  BY <1>1
<1>3. \A i \in 1..(l - 1) : Append(f, q)[i] = f[i]
  BY <1>1
<1>4. Append(f, q)[l] = q
  BY <1>1
<1> QED BY <1>1, <1>2, <1>3, <1>4 DEF f

(* What another character does to a text that has room for it.             *)
LEMMA AddIs ==
  ASSUME NEW r \in Texts, NEW l \in 1..ch_h, Len(r) = l, NEW c \in Cells
  PROVE  LET ends == c = NL \/ Len(r[l]) + 1 = ch_w
         IN  /\ Promise!Add(r, c) \in Texts
             /\ Len(Promise!Add(r, c)) = IF ends THEN l + 1 ELSE l
             /\ \A i \in 1..(l - 1) : Promise!Add(r, c)[i] = r[i]
             /\ Promise!Add(r, c)[l] = Append(r[l], c)
             /\ ends => Promise!Add(r, c)[l + 1] = <<>>
<1> DEFINE ends == c = NL \/ Len(r[l]) + 1 = ch_w
           row == Append(r[l], c)
           added == Append(Promise!Front(r), row)
<1>1. l \in Nat \ {0} /\ ~(l > ch_h) /\ r \in Seq(Seq(Cells))
  BY ConsoleAssumption DEF Texts
<1>2. Promise!Last(r) = r[l] /\ r[l] \in Seq(Cells)
  BY <1>1 DEF Promise!Last
<1>3. row \in Seq(Cells) /\ Len(row) = Len(r[l]) + 1
  BY <1>2
<1>4. /\ added \in Seq(Seq(Cells)) /\ Len(added) = l
      /\ \A i \in 1..(l - 1) : added[i] = r[i]
      /\ added[l] = row
  <2> HIDE DEF row
  <2> QED BY <1>1, <1>3, Replaced
<1>5. Promise!Add(r, c) = IF c = NL \/ Len(row) = ch_w THEN Append(added, <<>>) ELSE added
  BY <1>1, <1>2 DEF Promise!Add
<1>6. <<>> \in Seq(Cells)
  OBVIOUS
<1> HIDE DEF row, added
<1> DEFINE longer == Append(added, <<>>)
<1>7. /\ longer \in Seq(Seq(Cells)) /\ Len(longer) = l + 1
      /\ \A i \in 1..l : longer[i] = added[i]
      /\ longer[l + 1] = <<>>
  BY <1>1, <1>4, <1>6
<1>8. \A i \in 1..(l - 1) : longer[i] = r[i]
  BY <1>1, <1>4, <1>7
<1>9. longer[l] = row
  BY <1>1, <1>4, <1>7
<1> HIDE DEF longer
<1>10. Promise!Add(r, c) = IF ends THEN longer ELSE added
  BY <1>3, <1>5 DEF longer
<1> HIDE DEF ends
<1>11. CASE ends
  <2>1. Promise!Add(r, c) = longer
    BY <1>10, <1>11
  <2> QED BY <1>7, <1>8, <1>9, <1>11, <2>1 DEF Texts, ends, row
<1>12. CASE ~ends
  <2>1. Promise!Add(r, c) = added
    BY <1>10, <1>12
  <2> QED BY <1>4, <1>12, <2>1 DEF Texts, ends, row
<1> QED BY <1>11, <1>12

(* Nothing is lost before there is something to put in the new row.        *)
LEMMA AddFits ==
  ASSUME NEW r \in Texts, NEW l \in 1..(ch_h + 1), Len(r) = l, NEW c
  PROVE  Promise!Add(r, c) = Promise!Add(Fit(r), c)
<1> DEFINE Added(f) ==
             IF c = NL \/ Len(Append(Promise!Last(f), c)) = ch_w
             THEN Append(Append(Promise!Front(f), Append(Promise!Last(f), c)), <<>>)
             ELSE Append(Promise!Front(f), Append(Promise!Last(f), c))
<1>1. Promise!Add(r, c) = Added(Fit(r))
  BY DEF Promise!Add, Fit
<1>2. Promise!Add(Fit(r), c) = Added(Fit(Fit(r)))
  BY DEF Promise!Add, Fit
<1>3. Fit(Fit(r)) = Fit(r)
  <2>1. CASE ~(l > ch_h)
    BY <2>1 DEF Fit
  <2>2. CASE l > ch_h
    <3>1. l = ch_h + 1 /\ r # <<>> /\ r \in Seq(Seq(Cells)) /\ ch_h \in Nat
      BY <2>2, ConsoleAssumption DEF Texts
    <3>2. Len(Tail(r)) = ch_h
      BY <3>1
    <3>3. Fit(r) = Tail(r)
      BY <2>2 DEF Fit
    <3> QED BY <3>1, <3>2, <3>3 DEF Fit
  <2> QED BY <2>1, <2>2
<1> HIDE DEF Added
<1> QED BY <1>1, <1>2, <1>3

Board(t) == t.fbc \in [Ys -> [Xs -> Cells]] /\ t.cur_y \in Ys /\ t.cur_x \in Xs

(* The rows of a context, and what a pending shift says of the cursor.     *)
Lines(t) ==
  /\ t.should_shift => /\ t.cur_x = 0
                       /\ t.cur_y = ch_h - 1 \/ (t.cur_y = 0 /\ \A y \in Ys : t.fbc[y] = EmptyRow)
  /\ \A y \in 0..(Ended(t) - 1) : \E n \in 1..ch_w : Full(t.fbc[y], n)
  /\ ~Pending(t) => Open(t.fbc[t.cur_y], t.cur_x)
  /\ \A y \in Ys : y > t.cur_y => Open(t.fbc[y], 0)

(* What was drawn is what a redraw would draw. *)
Pictured(s) == \A y \in Ys : s.px[y] = Drawn(s.fbc[y])

(* The fields of a context, with their types. *)
LEMMA GoodBoard == \A s : Good(s) => Board(s)
BY DEF Good, States, Board

(* The rows that the text has on a context.                                *)
LEMMA RowsAre ==
  ASSUME NEW t, Board(t), Lines(t)
  PROVE  /\ Ended(t) \in 0..ch_h /\ RowsOf(t) \in Texts /\ Len(RowsOf(t)) = Ended(t) + 1
         /\ \A y \in 1..Ended(t) : y - 1 \in Ys
         /\ \A y \in 1..Ended(t) : \A n \in 1..ch_w :
              Full(t.fbc[y - 1], n) => RowsOf(t)[y] = TextOf(t.fbc[y - 1], n)
         /\ RowsOf(t)[Ended(t) + 1] =
              IF Pending(t) THEN <<>> ELSE TextOf(t.fbc[t.cur_y], t.cur_x)
<1> DEFINE e == Ended(t)  r == RowsOf(t)
<1>1. ch_h \in Nat /\ e \in 0..ch_h /\ \A y \in 1..e : y - 1 \in Ys /\ y - 1 \in 0..(e - 1)
  BY ConsoleAssumption DEF Ended, Pending, Board, Ys
<1>2. r = [y \in 1..(e + 1) |->
            IF y <= e THEN TextOf(t.fbc[y - 1], TextEnd(t.fbc[y - 1]))
            ELSE IF Pending(t) THEN <<>>
            ELSE TextOf(t.fbc[t.cur_y], t.cur_x)]
  BY DEF RowsOf
<1> HIDE DEF r
<1>3. ASSUME NEW y \in 1..e, NEW n \in 1..ch_w, Full(t.fbc[y - 1], n)
      PROVE  r[y] = TextOf(t.fbc[y - 1], n) /\ r[y] \in Seq(Cells)
  <2>1. TextEnd(t.fbc[y - 1]) = n
    BY <1>3, TextEndIs
  <2>2. y <= e /\ y \in 1..(e + 1)
    BY <1>1
  <2>3. t.fbc[y - 1] \in [Xs -> Cells] /\ n \in 0..ch_w
    BY <1>1, ConsoleAssumption DEF Board
  <2>4. TextOf(t.fbc[y - 1], n) \in Seq(Cells)
    BY <2>3, TextOfSeq
  <2> HIDE DEF e
  <2>5. r[y] = TextOf(t.fbc[y - 1], TextEnd(t.fbc[y - 1]))
    BY <1>2, <2>2
  <2> QED BY <2>1, <2>4, <2>5
<1>4. \A y \in 1..e : \E n \in 1..ch_w : Full(t.fbc[y - 1], n)
  BY <1>1 DEF Lines
<1>5. \A y \in 1..e : r[y] \in Seq(Cells)
  BY <1>3, <1>4
<1>6. r[e + 1] = IF Pending(t) THEN <<>> ELSE TextOf(t.fbc[t.cur_y], t.cur_x)
  <2> HIDE DEF e
  <2>1. e + 1 \in 1..(e + 1) /\ ~(e + 1 <= e)
    BY <1>1
  <2> QED BY <1>2, <2>1
<1>7. r[e + 1] \in Seq(Cells)
  <2>1. t.fbc[t.cur_y] \in [Xs -> Cells] /\ t.cur_x \in 0..ch_w
    BY ConsoleAssumption DEF Board, Xs
  <2>2. TextOf(t.fbc[t.cur_y], t.cur_x) \in Seq(Cells)
    BY <2>1, TextOfSeq
  <2> QED BY <1>6, <2>2
<1> HIDE DEF e
<1>8. \A y \in 1..(e + 1) : y = e + 1 \/ y \in 1..e
  BY <1>1
<1>9. r \in [1..(e + 1) -> Seq(Cells)]
  BY <1>2, <1>5, <1>7, <1>8
<1>10. r \in Texts
  BY <1>1, <1>9 DEF Texts
<1>11. Len(r) = e + 1
  BY <1>1, <1>9, <1>10 DEF Texts
<1> QED BY <1>1, <1>3, <1>6, <1>10, <1>11 DEF e, r

(* A text is the rows it has. *)
LEMMA TextsEqual ==
  ASSUME NEW r \in Texts, NEW q \in Texts, NEW l \in Nat, Len(r) = l, Len(q) = l,
         \A i \in 1..l : r[i] = q[i]
  PROVE  r = q
BY SeqEqual DEF Texts

-----------------------------------------------------------------------------
(* A cleared row, and one shifted onto another. *)
LEMMA EmptyOpen ==
  /\ Open(EmptyRow, 0)
  /\ \A over : (\A x \in Xs : over[x] \in {SPACE, NL, NUL}) =>
       Open(CopiedOver(EmptyRow, over), 0)
<1>1. \A x \in Xs : ~(x < 0) /\ EmptyRow[x] \in {SPACE, NL, NUL}
  BY ConsoleAssumption DEF Xs, EmptyRow
<1> QED BY <1>1 DEF Open, CopiedOver

(* The shift before a character makes the room that the text needs.        *)
LEMMA ReadyLines ==
  ASSUME NEW s, Good(s), Lines(s)
  PROVE  /\ Lines(Ready(s)) /\ ~Ready(s).should_shift
         /\ RowsOf(Ready(s)) = Fit(RowsOf(s))
<1> DEFINE d == Ready(s)
<1>1. Board(s) /\ Board(d)
  BY GoodBoard, ReadyGood
<1>2. /\ Ended(s) \in 0..ch_h /\ RowsOf(s) \in Texts /\ Len(RowsOf(s)) = Ended(s) + 1
      /\ \A y \in 1..Ended(s) : \A n \in 1..ch_w :
              Full(s.fbc[y - 1], n) => RowsOf(s)[y] = TextOf(s.fbc[y - 1], n)
      /\ RowsOf(s)[Ended(s) + 1] =
              IF Pending(s) THEN <<>> ELSE TextOf(s.fbc[s.cur_y], s.cur_x)
  BY <1>1, RowsAre
<1>3. Lines(d) =>
      /\ Ended(d) \in 0..ch_h /\ RowsOf(d) \in Texts /\ Len(RowsOf(d)) = Ended(d) + 1
      /\ \A y \in 1..Ended(d) : \A n \in 1..ch_w :
              Full(d.fbc[y - 1], n) => RowsOf(d)[y] = TextOf(d.fbc[y - 1], n)
      /\ RowsOf(d)[Ended(d) + 1] =
              IF Pending(d) THEN <<>> ELSE TextOf(d.fbc[d.cur_y], d.cur_x)
  BY <1>1, RowsAre
<1>4. ch_h \in Nat /\ ch_h > 1 /\ ch_w \in Nat /\ ch_w > 0
  BY ConsoleAssumption
<1>5. CASE ~s.should_shift
  <2>1. d = s /\ ~Pending(s) /\ Ended(s) = s.cur_y
    BY <1>5 DEF Ready, Pending, Ended
  <2>2. ~(Len(RowsOf(s)) > ch_h)
    BY <1>1, <1>2, <1>4, <2>1 DEF Board, Ys
  <2>3. Fit(RowsOf(s)) = RowsOf(s)
    BY <2>2 DEF Fit
  <2> QED BY <1>5, <2>1, <2>3
<1>6. CASE s.should_shift
  <2>1. /\ d.cur_y = s.cur_y /\ d.cur_x = s.cur_x /\ ~d.should_shift
        /\ d.fbc = [y \in Ys |-> IF y = ch_h - 1 THEN EmptyRow
                                 ELSE CopiedOver(s.fbc[y + 1], s.fbc[y])]
    BY <1>6 DEF Ready, fbc_shift_rows, Good, States
  <2>2. s.cur_x = 0 /\ (s.cur_y = ch_h - 1 \/ (s.cur_y = 0 /\ \A y \in Ys : s.fbc[y] = EmptyRow))
    BY <1>6 DEF Lines
  <2>3. ~Pending(d) /\ Ended(d) = s.cur_y
    BY <2>1 DEF Pending, Ended
  <2> HIDE DEF d
  <2>4. TextOf(d.fbc[d.cur_y], d.cur_x) = <<>> /\ TextOf(s.fbc[s.cur_y], s.cur_x) = <<>>
    BY <2>1, <2>2, NoText
  <2>5. CASE s.cur_y = ch_h - 1
    <3>1. Pending(s) /\ Ended(s) = ch_h
      BY <1>6, <2>5 DEF Pending, Ended
    <3>2. ASSUME NEW y \in 0..(ch_h - 2)
          PROVE  \E n \in 1..ch_w : /\ Full(s.fbc[y + 1], n) /\ Full(d.fbc[y], n)
                                    /\ TextOf(d.fbc[y], n) = TextOf(s.fbc[y + 1], n)
      <4>1. y \in Ys /\ y # ch_h - 1 /\ y + 1 \in 0..(ch_h - 1)
        BY <1>4 DEF Ys
      <4>2. PICK n \in 1..ch_w : Full(s.fbc[y + 1], n)
        BY <3>1, <4>1 DEF Lines
      <4>3. d.fbc[y] = CopiedOver(s.fbc[y + 1], s.fbc[y])
        BY <2>1, <4>1
      <4> QED BY <4>2, <4>3, CopiedFull
    <3>3. Lines(d)
      <4>1. \A y \in 0..(Ended(d) - 1) : \E n \in 1..ch_w : Full(d.fbc[y], n)
        <5>1. Ended(d) - 1 = ch_h - 2
          BY <1>4, <2>3, <2>5
        <5> QED BY <3>2, <5>1
      <4>2. Open(d.fbc[d.cur_y], d.cur_x)
        <5>1. d.cur_x = 0 /\ d.fbc[d.cur_y] = EmptyRow
          BY <1>1, <2>1, <2>2, <2>5 DEF Board
        <5> QED BY <5>1, EmptyOpen
      <4>3. \A y \in Ys : ~(y > d.cur_y)
        BY <1>4, <2>1, <2>5 DEF Ys
      <4> QED BY <2>1, <4>1, <4>2, <4>3 DEF Lines
    <3> DEFINE q == Fit(RowsOf(s))
    <3>4. /\ RowsOf(s) \in Seq(Seq(Cells)) /\ Len(RowsOf(s)) = ch_h + 1
          /\ q = Tail(RowsOf(s))
      BY <1>2, <1>4, <3>1 DEF Fit, Texts
    <3>5. /\ q \in Texts /\ Len(q) = ch_h
          /\ \A i \in 1..ch_h : q[i] = RowsOf(s)[i + 1]
      BY <1>4, <3>4 DEF Texts
    <3> HIDE DEF q
    <3>6. ASSUME NEW i \in 1..ch_h PROVE RowsOf(d)[i] = q[i]
      <4>1. CASE i = ch_h
        <5>1. RowsOf(d)[ch_h] = <<>>
          BY <1>3, <1>4, <2>3, <2>4, <2>5, <3>3
        <5>2. RowsOf(s)[ch_h + 1] = <<>>
          BY <1>2, <3>1
        <5> QED BY <1>4, <3>5, <4>1, <5>1, <5>2
      <4>2. CASE i # ch_h
        <5>1. /\ i - 1 \in 0..(ch_h - 2) /\ i \in 1..Ended(d)
              /\ i + 1 \in 1..Ended(s) /\ i + 1 - 1 = i - 1 + 1
          BY <1>4, <2>3, <2>5, <3>1, <4>2
        <5>2. PICK n \in 1..ch_w : /\ Full(s.fbc[i - 1 + 1], n) /\ Full(d.fbc[i - 1], n)
                                   /\ TextOf(d.fbc[i - 1], n) = TextOf(s.fbc[i - 1 + 1], n)
          BY <3>2, <5>1
        <5>3. RowsOf(d)[i] = TextOf(d.fbc[i - 1], n)
          BY <1>3, <3>3, <5>1, <5>2
        <5>4. RowsOf(s)[i + 1] = TextOf(s.fbc[i - 1 + 1], n)
          BY <1>2, <5>1, <5>2
        <5> QED BY <3>5, <5>2, <5>3, <5>4
      <4> QED BY <4>1, <4>2
    <3>7. RowsOf(d) \in Texts /\ Len(RowsOf(d)) = ch_h
      BY <1>3, <1>4, <2>3, <2>5, <3>3
    <3>8. RowsOf(d) = q
      BY <1>4, <3>5, <3>6, <3>7, TextsEqual
    <3> QED BY <2>1, <3>3, <3>8 DEF d, q
  <2>6. CASE s.cur_y # ch_h - 1
    <3>1. s.cur_y = 0 /\ (\A y \in Ys : s.fbc[y] = EmptyRow) /\ ~Pending(s) /\ Ended(s) = 0
      BY <2>2, <2>6 DEF Pending, Ended
    <3>2. ASSUME NEW y \in Ys PROVE Open(d.fbc[y], 0)
      <4>1. CASE y = ch_h - 1
        BY <2>1, <4>1, EmptyOpen
      <4>2. CASE y # ch_h - 1
        <5>1. y + 1 \in Ys
          BY <1>4, <4>2 DEF Ys
        <5>2. d.fbc[y] = CopiedOver(EmptyRow, EmptyRow)
          BY <2>1, <3>1, <4>2, <5>1
        <5>3. \A x \in Xs : EmptyRow[x] \in {SPACE, NL, NUL}
          BY DEF EmptyRow
        <5> QED BY <5>2, <5>3, EmptyOpen
      <4> QED BY <4>1, <4>2
    <3>3. Lines(d)
      <4>1. 0 \in Ys /\ 0..(Ended(d) - 1) = {}
        BY <1>4, <2>3, <3>1 DEF Ys
      <4> QED BY <2>1, <2>2, <3>1, <3>2, <4>1 DEF Lines
    <3>4. Fit(RowsOf(s)) = RowsOf(s)
      BY <1>2, <1>4, <3>1 DEF Fit
    <3>5. RowsOf(d) = RowsOf(s)
      <4>1. /\ RowsOf(s) \in Texts /\ Len(RowsOf(s)) = 1 /\ RowsOf(s)[1] = <<>>
            /\ RowsOf(d) \in Texts /\ Len(RowsOf(d)) = 1 /\ RowsOf(d)[1] = <<>>
        BY <1>2, <1>3, <2>3, <2>4, <3>1, <3>3
      <4>2. \A i \in 1..1 : i = 1
        OBVIOUS
      <4> QED BY <4>1, <4>2, TextsEqual
    <3> QED BY <2>1, <3>3, <3>4, <3>5 DEF d
  <2> QED BY <2>5, <2>6
<1> QED BY <1>5, <1>6

(* d is s with another character where the cursor was. *)
Stored(s, d, c) ==
  /\ \A y \in Ys : y # s.cur_y => d.fbc[y] = s.fbc[y]
  /\ \A x \in Xs : x # s.cur_x => d.fbc[s.cur_y][x] = s.fbc[s.cur_y][x]
  /\ d.fbc[s.cur_y][s.cur_x] = c

(* The text of a console without a pending shift.                          *)
LEMMA RowsOpen ==
  ASSUME NEW s, Board(s), Lines(s), ~s.should_shift
  PROVE  /\ RowsOf(s) \in Texts /\ Len(RowsOf(s)) = s.cur_y + 1
         /\ s.cur_y + 1 \in 1..ch_h /\ s.cur_y \in Nat
         /\ Ended(s) = s.cur_y /\ ~Pending(s)
         /\ RowsOf(s)[s.cur_y + 1] = TextOf(s.fbc[s.cur_y], s.cur_x)
         /\ Len(TextOf(s.fbc[s.cur_y], s.cur_x)) = s.cur_x
         /\ Open(s.fbc[s.cur_y], s.cur_x)
         /\ \A y \in 1..s.cur_y : y - 1 \in Ys
         /\ \A y \in 1..s.cur_y : \A n \in 1..ch_w :
              Full(s.fbc[y - 1], n) => RowsOf(s)[y] = TextOf(s.fbc[y - 1], n)
         /\ \A y \in 1..s.cur_y : \E n \in 1..ch_w : Full(s.fbc[y - 1], n)
<1>1. Ended(s) = s.cur_y /\ ~Pending(s)
  BY DEF Ended, Pending
<1>2. ch_h \in Nat /\ s.cur_y \in 0..(ch_h - 1) /\ s.cur_x \in Xs
  BY ConsoleAssumption DEF Board, Ys
<1>3. s.cur_x \in 0..ch_w /\ s.fbc[s.cur_y] \in [Xs -> Cells]
  BY <1>2, ConsoleAssumption DEF Board, Xs
<1>4. Len(TextOf(s.fbc[s.cur_y], s.cur_x)) = s.cur_x
  BY <1>3, TextOfSeq
<1>5. \A y \in 1..s.cur_y : y - 1 \in 0..(s.cur_y - 1)
  BY <1>2
<1>6. \A y \in 1..s.cur_y : \E n \in 1..ch_w : Full(s.fbc[y - 1], n)
  BY <1>1, <1>5 DEF Lines
<1>7. Open(s.fbc[s.cur_y], s.cur_x)
  BY <1>1 DEF Lines
<1>8. s.cur_y + 1 \in 1..ch_h /\ s.cur_y \in Nat
  BY <1>2
<1>9. /\ RowsOf(s) \in Texts /\ Len(RowsOf(s)) = Ended(s) + 1
      /\ \A y \in 1..Ended(s) : y - 1 \in Ys
      /\ \A y \in 1..Ended(s) : \A n \in 1..ch_w :
           Full(s.fbc[y - 1], n) => RowsOf(s)[y] = TextOf(s.fbc[y - 1], n)
      /\ RowsOf(s)[Ended(s) + 1] =
              IF Pending(s) THEN <<>> ELSE TextOf(s.fbc[s.cur_y], s.cur_x)
  BY RowsAre
<1> QED BY <1>1, <1>4, <1>6, <1>7, <1>8, <1>9

(* A character that ends nothing. *)
LEMMA StoredOpen ==
  ASSUME NEW s, NEW d, Board(s), Board(d), Lines(s), ~s.should_shift, ~d.should_shift,
         NEW c \in Visible \union {SPACE}, Stored(s, d, c), s.cur_x + 1 < ch_w,
         d.cur_y = s.cur_y, d.cur_x = s.cur_x + 1
  PROVE  Lines(d) /\ RowsOf(d) = Promise!Add(RowsOf(s), c)
<1> DEFINE cy == s.cur_y  cx == s.cur_x  l == cy + 1
<1>1. /\ RowsOf(s) \in Texts /\ Len(RowsOf(s)) = l /\ l \in 1..ch_h /\ cy \in Nat
      /\ Ended(s) = cy
      /\ RowsOf(s)[l] = TextOf(s.fbc[cy], cx) /\ Len(TextOf(s.fbc[cy], cx)) = cx
      /\ Open(s.fbc[cy], cx)
      /\ \A y \in 1..cy : y - 1 \in Ys
      /\ \A y \in 1..cy : \A n \in 1..ch_w :
           Full(s.fbc[y - 1], n) => RowsOf(s)[y] = TextOf(s.fbc[y - 1], n)
      /\ \A y \in 1..cy : \E n \in 1..ch_w : Full(s.fbc[y - 1], n)
  BY RowsOpen
<1>2. cy \in Ys /\ cx \in Xs /\ s.fbc[cy] \in [Xs -> Cells] /\ d.fbc[cy] \in [Xs -> Cells]
  BY DEF Board
<1>3. c \in Cells /\ c \notin {NL, NUL}
  BY Chars DEF Cells
<1>4. Open(d.fbc[cy], cx + 1)
  BY <1>1, <1>2, <1>3, OpenOf DEF Stored
<1>5. TextOf(d.fbc[cy], cx + 1) = Append(TextOf(s.fbc[cy], cx), c)
  <2>1. \A x \in Xs : x < cx => d.fbc[cy][x] = s.fbc[cy][x]
    BY <1>2 DEF Stored, Xs
  <2>2. TextOf(d.fbc[cy], cx + 1) = Append(TextOf(s.fbc[cy], cx), d.fbc[cy][cx])
    BY <1>2, <2>1, TextGrows
  <2> QED BY <2>2 DEF Stored
<1>6. \A y \in 1..cy : d.fbc[y - 1] = s.fbc[y - 1]
  <2>1. \A y \in 1..cy : y - 1 # cy
    BY <1>1
  <2> QED BY <1>1, <2>1 DEF Stored
<1>7. ~Pending(d) /\ Ended(d) = cy
  BY DEF Pending, Ended
<1>8. Lines(d)
  <2>1. \A y \in 0..(cy - 1) : y + 1 \in 1..cy /\ y + 1 - 1 = y
    BY <1>1
  <2>2. ASSUME NEW y \in 0..(cy - 1) PROVE \E n \in 1..ch_w : Full(d.fbc[y], n)
    <3>1. y + 1 \in 1..cy /\ y + 1 - 1 = y
      BY <2>1
    <3>2. \E n \in 1..ch_w : Full(s.fbc[y + 1 - 1], n)
      BY <1>1, <3>1
    <3>3. d.fbc[y] = s.fbc[y + 1 - 1]
      BY <1>6, <3>1
    <3> QED BY <3>2, <3>3
  <2>3. \A y \in Ys : y > cy => y # cy
    BY <1>1 DEF Ys
  <2>4. \A y \in Ys : y > cy => Open(d.fbc[y], 0)
    BY <2>3 DEF Lines, Stored
  <2> QED BY <1>4, <1>7, <2>2, <2>4 DEF Lines
<1>9. /\ RowsOf(d) \in Texts /\ Len(RowsOf(d)) = l
      /\ RowsOf(d)[l] = TextOf(d.fbc[cy], cx + 1)
      /\ \A y \in 1..cy : \A n \in 1..ch_w :
           Full(d.fbc[y - 1], n) => RowsOf(d)[y] = TextOf(d.fbc[y - 1], n)
  BY <1>8, RowsOpen
<1> DEFINE q == Promise!Add(RowsOf(s), c)
<1>10. /\ q \in Texts /\ Len(q) = l
       /\ \A i \in 1..(l - 1) : q[i] = RowsOf(s)[i]
       /\ q[l] = Append(RowsOf(s)[l], c)
  <2>1. ~(c = NL \/ Len(RowsOf(s)[l]) + 1 = ch_w)
    BY <1>1, <1>2, <1>3 DEF Xs
  <2> HIDE DEF l
  <2> QED BY <1>1, <1>3, <2>1, AddIs
<1> HIDE DEF q
<1>11. \A i \in 1..cy : RowsOf(d)[i] = RowsOf(s)[i]
  BY <1>1, <1>6, <1>9
<1>12. ASSUME NEW i \in 1..l PROVE RowsOf(d)[i] = q[i]
  <2>1. CASE i = l
    BY <1>1, <1>5, <1>9, <1>10, <2>1
  <2>2. CASE i # l
    <3>1. i \in 1..cy /\ i \in 1..(l - 1)
      BY <1>1, <2>2
    <3> QED BY <1>10, <1>11, <3>1
  <2> QED BY <2>1, <2>2
<1>13. RowsOf(d) = q
  BY <1>1, <1>9, <1>10, <1>12, TextsEqual
<1> QED BY <1>8, <1>13 DEF q

(* A character that ends its row: a newline, or one in the last column.    *)
LEMMA StoredEnds ==
  ASSUME NEW s, NEW d, Board(s), Board(d), Lines(s), ~s.should_shift,
         NEW c \in Visible \union {SPACE, NL}, Stored(s, d, c), c = NL \/ s.cur_x + 1 = ch_w,
         d.cur_x = 0,
         \/ s.cur_y + 1 < ch_h /\ d.cur_y = s.cur_y + 1 /\ ~d.should_shift
         \/ s.cur_y = ch_h - 1 /\ d.cur_y = s.cur_y /\ d.should_shift
  PROVE  Lines(d) /\ RowsOf(d) = Promise!Add(RowsOf(s), c)
<1> DEFINE cy == s.cur_y  cx == s.cur_x  l == cy + 1
<1>1. /\ RowsOf(s) \in Texts /\ Len(RowsOf(s)) = l /\ l \in 1..ch_h /\ cy \in Nat
      /\ Ended(s) = cy
      /\ RowsOf(s)[l] = TextOf(s.fbc[cy], cx) /\ Len(TextOf(s.fbc[cy], cx)) = cx
      /\ Open(s.fbc[cy], cx)
      /\ \A y \in 1..cy : y - 1 \in Ys
      /\ \A y \in 1..cy : \A n \in 1..ch_w :
           Full(s.fbc[y - 1], n) => RowsOf(s)[y] = TextOf(s.fbc[y - 1], n)
      /\ \A y \in 1..cy : \E n \in 1..ch_w : Full(s.fbc[y - 1], n)
  BY RowsOpen
<1>2. cy \in Ys /\ cx \in Xs /\ s.fbc[cy] \in [Xs -> Cells] /\ d.fbc[cy] \in [Xs -> Cells]
  BY DEF Board
<1>3. c \in Cells /\ c # NUL
  BY Chars DEF Cells
<1>4. cx + 1 \in 1..ch_w /\ Full(d.fbc[cy], cx + 1)
  <2>1. cx + 1 \in 1..ch_w
    BY <1>2, ConsoleAssumption DEF Xs
  <2> QED BY <1>1, <1>2, <1>3, <2>1, FullOf DEF Stored
<1>5. TextOf(d.fbc[cy], cx + 1) = Append(TextOf(s.fbc[cy], cx), c)
  <2>1. \A x \in Xs : x < cx => d.fbc[cy][x] = s.fbc[cy][x]
    BY <1>2 DEF Stored, Xs
  <2>2. TextOf(d.fbc[cy], cx + 1) = Append(TextOf(s.fbc[cy], cx), d.fbc[cy][cx])
    BY <1>2, <2>1, TextGrows
  <2> QED BY <2>2 DEF Stored
<1>6. \A y \in 1..cy : d.fbc[y - 1] = s.fbc[y - 1]
  <2>1. \A y \in 1..cy : y - 1 # cy
    BY <1>1
  <2> QED BY <1>1, <2>1 DEF Stored
<1>7. Ended(d) = l /\ ch_h \in Nat
  BY <1>1, ConsoleAssumption DEF Pending, Ended
<1>8. \A y \in Ys : y > cy => d.fbc[y] = s.fbc[y] /\ Open(d.fbc[y], 0)
  <2>1. \A y \in Ys : y > cy => y # cy
    BY <1>1 DEF Ys
  <2> QED BY <2>1 DEF Lines, Stored
<1>9. Lines(d)
  <2>1. \A y \in 0..(l - 1) : y = cy \/ (y + 1 \in 1..cy /\ y + 1 - 1 = y)
    BY <1>1
  <2>2. \A y \in 0..(l - 1) : \E n \in 1..ch_w : Full(d.fbc[y], n)
    BY SMTT(30), <1>1, <1>4, <1>6, <2>1
  <2>3. d.should_shift => d.cur_x = 0 /\ d.cur_y = ch_h - 1
    OBVIOUS
  <2>4. ~Pending(d) => Open(d.fbc[d.cur_y], d.cur_x)
    <3> SUFFICES ASSUME ~Pending(d) PROVE Open(d.fbc[d.cur_y], d.cur_x)
      OBVIOUS
    <3>1. d.cur_y = cy + 1 /\ d.cur_y \in Ys
      BY DEF Pending, Board
    <3>2. d.cur_y > cy
      BY <1>1, <3>1
    <3> QED BY <1>8, <3>1, <3>2
  <2>5. \A y \in Ys : y > d.cur_y => y > cy
    BY <1>1 DEF Ys
  <2> QED BY <1>7, <1>8, <2>2, <2>3, <2>4, <2>5 DEF Lines
<1>10. /\ RowsOf(d) \in Texts /\ Len(RowsOf(d)) = l + 1
       /\ \A y \in 1..l : \A n \in 1..ch_w :
            Full(d.fbc[y - 1], n) => RowsOf(d)[y] = TextOf(d.fbc[y - 1], n)
       /\ RowsOf(d)[l + 1] = IF Pending(d) THEN <<>> ELSE TextOf(d.fbc[d.cur_y], d.cur_x)
  <2> HIDE DEF l
  <2> QED BY <1>7, <1>9, RowsAre
<1>11. RowsOf(d)[l + 1] = <<>>
  BY <1>10, NoText
<1> DEFINE q == Promise!Add(RowsOf(s), c)
<1>12. /\ q \in Texts /\ Len(q) = l + 1
       /\ \A i \in 1..(l - 1) : q[i] = RowsOf(s)[i]
       /\ q[l] = Append(RowsOf(s)[l], c)
       /\ q[l + 1] = <<>>
  <2>1. c = NL \/ Len(RowsOf(s)[l]) + 1 = ch_w
    BY <1>1
  <2> HIDE DEF l
  <2> QED BY SMTT(30), <1>1, <1>3, <2>1, AddIs
<1> HIDE DEF q
<1>13. RowsOf(d)[l] = q[l]
  <2>1. l \in 1..l /\ l - 1 = cy
    <3>1. cy \in Nat
      BY <1>1
    <3> QED BY <3>1
  <2>2. RowsOf(d)[l] = TextOf(d.fbc[cy], cx + 1)
    BY SMTT(30), <1>4, <1>10, <2>1
  <2> QED BY <1>1, <1>5, <1>12, <2>2
<1>14. ASSUME NEW i \in 1..(l + 1) PROVE RowsOf(d)[i] = q[i]
  <2>1. CASE i = l \/ i = l + 1
    BY <1>11, <1>12, <1>13, <2>1
  <2>2. CASE i # l /\ i # l + 1
    <3>1. i \in 1..cy /\ i \in 1..(l - 1) /\ i \in 1..l
      BY <1>1, <2>2
    <3>2. PICK n \in 1..ch_w : Full(s.fbc[i - 1], n)
      BY <1>1, <3>1
    <3>3. RowsOf(d)[i] = TextOf(s.fbc[i - 1], n) /\ RowsOf(s)[i] = TextOf(s.fbc[i - 1], n)
      BY <1>1, <1>6, <1>10, <3>1, <3>2
    <3> QED BY <1>12, <3>1, <3>3
  <2> QED BY <2>1, <2>2
<1>15. RowsOf(d) = q
  BY <1>1, <1>10, <1>12, <1>14, TextsEqual
<1> QED BY <1>9, <1>15 DEF q

Spaced(r) == Promise!Add(r, SPACE)

(* A tab is one to four spaces. *)
LEMMA TabbedIs ==
  ASSUME NEW r, NEW k \in 1..4, k = FBC_TABSIZE - (Len(Promise!Last(r)) % FBC_TABSIZE)
  PROVE  Promise!Tabbed(r) = IF k = 1 THEN Spaced(r)
                             ELSE IF k = 2 THEN Spaced(Spaced(r))
                             ELSE IF k = 3 THEN Spaced(Spaced(Spaced(r)))
                             ELSE Spaced(Spaced(Spaced(Spaced(r))))
<1> DEFINE Is(f) == f = [n \in 0..FBC_TABSIZE |-> IF n = 0 THEN r ELSE Promise!Add(f[n - 1], SPACE)]
           sp == CHOOSE f : Is(f)
           g == [n \in 0..4 |-> IF n = 0 THEN r ELSE IF n = 1 THEN Spaced(r)
                                ELSE IF n = 2 THEN Spaced(Spaced(r))
                                ELSE IF n = 3 THEN Spaced(Spaced(Spaced(r)))
                                ELSE Spaced(Spaced(Spaced(Spaced(r))))]
<1>1. Promise!Tabbed(r) = sp[k]
  BY DEF Promise!Tabbed
<1>2. Is(g)
  <2> DEFINE h == [n \in 0..4 |-> IF n = 0 THEN r ELSE Promise!Add(g[n - 1], SPACE)]
  <2>1. ASSUME NEW n \in 0..4 PROVE g[n] = h[n]
    <3>1. n = 0 \/ n = 1 \/ n = 2 \/ n = 3 \/ n = 4
      OBVIOUS
    <3> QED BY <3>1 DEF Spaced
  <2>2. g = h
    BY <2>1
  <2> QED BY <2>2 DEF FBC_TABSIZE
<1> HIDE DEF g
<1>3. Is(sp)
  <2> HIDE DEF Is
  <2> QED BY <1>2
<1> HIDE DEF sp
<1>4. sp[0] = r /\ \A n \in 1..4 : sp[n] = Spaced(sp[n - 1])
  BY <1>3 DEF FBC_TABSIZE, Spaced
<1>5. sp[1] = Spaced(r) /\ sp[2] = Spaced(sp[1]) /\ sp[3] = Spaced(sp[2]) /\ sp[4] = Spaced(sp[3])
  BY <1>4
<1>6. k = 1 \/ k = 2 \/ k = 3 \/ k = 4
  OBVIOUS
<1> QED BY <1>1, <1>5, <1>6

(* Two rows drawn the same. *)
LEMMA DrawnAs ==
  ASSUME NEW row, NEW pic \in [Xs -> Visible \union {SPACE}],
         \A x \in Xs : pic[x] = Drawn(row)[x]
  PROVE  pic = Drawn(row)
<1>1. Drawn(row) = [x \in Xs |-> Drawn(row)[x]]
  BY DEF Drawn
<1>2. pic = [x \in Xs |-> pic[x]]
  OBVIOUS
<1> QED BY <1>1, <1>2

(* The glyph of the character that was stored is all there is to draw.     *)
LEMMA StoredPictured ==
  ASSUME NEW s, NEW d, Good(s), Good(d), Pictured(s),
         NEW c \in Visible \union {SPACE, NL}, Stored(s, d, c),
         Covers(s.fbc[s.cur_y], s.cur_x), Covers(d.fbc[s.cur_y], s.cur_x + 1),
         \A y \in Ys : y # s.cur_y => d.px[y] = s.px[y],
         \A x \in Xs : x # s.cur_x => d.px[s.cur_y][x] = s.px[s.cur_y][x],
         d.px[s.cur_y][s.cur_x] = Glyph(c) \/ (c = NL /\ d.px[s.cur_y][s.cur_x] = s.px[s.cur_y][s.cur_x])
  PROVE  Pictured(d)
<1> DEFINE cy == s.cur_y  cx == s.cur_x
<1>1. cy \in Ys /\ cx \in Xs /\ cx \in Nat /\ d.px[cy] \in [Xs -> Visible \union {SPACE}]
  BY DEF Good, States, Xs
<1>2. \A y \in Ys : y # cy => d.px[y] = Drawn(d.fbc[y])
  BY DEF Pictured, Stored
<1>3. ASSUME NEW x \in Xs PROVE d.px[cy][x] = Drawn(d.fbc[cy])[x]
  <2>1. Drawn(s.fbc[cy])[x] = IF x < cx THEN Glyph(s.fbc[cy][x]) ELSE SPACE
    BY <1>1, DrawnCovers
  <2>2. Drawn(d.fbc[cy])[x] = IF x < cx + 1 THEN Glyph(d.fbc[cy][x]) ELSE SPACE
    BY <1>1, DrawnCovers
  <2>3. s.px[cy][x] = Drawn(s.fbc[cy])[x]
    BY <1>1 DEF Pictured
  <2>4. x \in Int
    BY DEF Xs
  <2>5. CASE x = cx
    <3>1. d.fbc[cy][x] = c /\ x < cx + 1 /\ ~(x < cx)
      BY <1>1, <2>5 DEF Stored
    <3>2. c = NL => Glyph(c) = SPACE
      BY DEF Glyph
    <3> QED BY <2>1, <2>2, <2>3, <2>5, <3>1, <3>2
  <2>6. CASE x # cx
    <3>1. d.px[cy][x] = s.px[cy][x] /\ d.fbc[cy][x] = s.fbc[cy][x]
      BY <2>6 DEF Stored
    <3>2. x < cx <=> x < cx + 1
      BY <1>1, <2>4, <2>6
    <3> QED BY <2>1, <2>2, <2>3, <3>1, <3>2
  <2> QED BY <2>5, <2>6
<1>4. d.px[cy] = Drawn(d.fbc[cy])
  BY <1>1, <1>3, DrawnAs
<1> QED BY <1>2, <1>4 DEF Pictured

(* What NextRow changes. *)
LEMMA NextRowIs ==
  ASSUME NEW s \in States
  PROVE  /\ NextRow(s).fbc = s.fbc /\ NextRow(s).px = s.px /\ NextRow(s).cur_x = 0
         /\ s.cur_y + 1 < ch_h => /\ NextRow(s).cur_y = s.cur_y + 1
                                  /\ NextRow(s).should_shift = s.should_shift
         /\ ~(s.cur_y + 1 < ch_h) => NextRow(s).cur_y = s.cur_y /\ NextRow(s).should_shift
BY DEF NextRow, States

(* The cursor's row, when no shift is pending. *)
LEMMA OpenHere ==
  ASSUME NEW s, Good(s), Lines(s), ~s.should_shift
  PROVE  Open(s.fbc[s.cur_y], s.cur_x) /\ Covers(s.fbc[s.cur_y], s.cur_x)
<1>1. Open(s.fbc[s.cur_y], s.cur_x)
  BY GoodBoard, RowsOpen
<1>2. s.cur_x \in Nat
  BY DEF Good, States, Xs
<1> QED BY <1>1, <1>2, OpenCovers

(* A character that is stored and drawn, with room for it.                 *)
LEMMA PutLines ==
  ASSUME NEW s, Good(s), Lines(s), ~s.should_shift, NEW c \in Visible \union {SPACE}
  PROVE  /\ Lines(Put(s, c)) /\ RowsOf(Put(s, c)) = Promise!Add(RowsOf(s), c)
         /\ Pictured(s) => Pictured(Put(s, c))
<1> DEFINE t == [s EXCEPT !.fbc[s.cur_y][s.cur_x] = c, !.px[s.cur_y][s.cur_x] = Glyph(c)]
           d == Put(s, c)  cy == s.cur_y  cx == s.cur_x
<1>1. Board(s) /\ Board(d) /\ Good(d)
  BY GoodBoard, PutGood
<1>2. cy \in Ys /\ cx \in Xs /\ cx \in Nat /\ cx < ch_w /\ cy \in Nat /\ cy < ch_h /\ ch_w \in Nat /\ ch_h \in Nat
  BY <1>1, ConsoleAssumption DEF Board, Xs, Ys
<1>3. /\ t.cur_y = cy /\ t.cur_x = cx /\ t.should_shift = s.should_shift
      /\ t.fbc = [s.fbc EXCEPT ![cy][cx] = c] /\ t.px = [s.px EXCEPT ![cy][cx] = Glyph(c)]
  BY DEF Good, States
<1>4. t \in States
  <2>1. c \in Cells /\ Glyph(c) \in Visible \union {SPACE}
    BY DEF Cells, Glyph
  <2>2. [s.fbc EXCEPT ![cy][cx] = c] \in [Ys -> [Xs -> Cells]]
    BY <2>1 DEF Good, States
  <2>3. [s.px EXCEPT ![cy][cx] = Glyph(c)] \in [Ys -> [Xs -> Visible \union {SPACE}]]
    BY <2>1 DEF Good, States
  <2> QED BY <2>2, <2>3 DEF Good, States
<1>5. d = IF cx + 1 >= ch_w THEN NextRow(t) ELSE [t EXCEPT !.cur_x = cx + 1]
  BY DEF Put
<1> HIDE DEF t, d
<1>6. d.fbc = t.fbc /\ d.px = t.px
  BY <1>4, <1>5, NextRowIs DEF States
<1>7. Stored(s, d, c)
  <2>1. \A y \in Ys : y # cy => d.fbc[y] = s.fbc[y]
    BY <1>2, <1>3, <1>6 DEF Good, States
  <2>2. \A x \in Xs : x # cx => d.fbc[cy][x] = s.fbc[cy][x]
    BY <1>2, <1>3, <1>6 DEF Good, States
  <2>3. d.fbc[cy][cx] = c
    BY <1>2, <1>3, <1>6 DEF Good, States
  <2> QED BY <2>1, <2>2, <2>3 DEF Stored
<1>8. Lines(d) /\ RowsOf(d) = Promise!Add(RowsOf(s), c)
  <2>1. CASE cx + 1 >= ch_w
    <3>1. cx + 1 = ch_w
      BY <1>2, <2>1
    <3>2. d.cur_x = 0
      BY <1>4, <1>5, <2>1, NextRowIs
    <3>3. \/ cy + 1 < ch_h /\ d.cur_y = cy + 1 /\ ~d.should_shift
          \/ cy = ch_h - 1 /\ d.cur_y = cy /\ d.should_shift
      <4>1. d = NextRow(t)
        BY <1>5, <2>1
      <4>2. CASE cy + 1 < ch_h
        BY <1>3, <1>4, <4>1, <4>2, NextRowIs
      <4>3. CASE ~(cy + 1 < ch_h)
        <5>1. d.cur_y = cy /\ d.should_shift
          BY <1>3, <1>4, <4>1, <4>3, NextRowIs
        <5> QED BY <1>2, <4>3, <5>1
      <4> QED BY <4>2, <4>3
    <3> QED BY <1>1, <1>7, <3>1, <3>2, <3>3, StoredEnds
  <2>2. CASE ~(cx + 1 >= ch_w)
    <3>1. cx + 1 < ch_w
      BY <1>2, <2>2
    <3>2. d.cur_y = cy /\ d.cur_x = cx + 1 /\ ~d.should_shift
      BY <1>3, <1>4, <1>5, <2>2 DEF States
    <3> QED BY <1>1, <1>7, <3>1, <3>2, StoredOpen
  <2> QED BY <2>1, <2>2
<1>9. ASSUME Pictured(s) PROVE Pictured(d)
  <2>1. Open(s.fbc[cy], cx) /\ Covers(s.fbc[cy], cx)
    BY OpenHere
  <2>2. Open(d.fbc[cy], cx + 1)
    BY <1>2, <1>7, <2>1, Chars, OpenOf DEF Stored
  <2>3. Covers(d.fbc[cy], cx + 1)
    BY <1>2, <2>2, OpenCovers
  <2>4. \A y \in Ys : y # cy => d.px[y] = s.px[y]
    BY <1>2, <1>3, <1>6 DEF Good, States
  <2>5. \A x \in Xs : x # cx => d.px[cy][x] = s.px[cy][x]
    BY <1>2, <1>3, <1>6 DEF Good, States
  <2>6. d.px[cy][cx] = Glyph(c)
    BY <1>2, <1>3, <1>6 DEF Good, States
  <2> QED BY <1>1, <1>7, <1>9, <2>1, <2>3, <2>4, <2>5, <2>6, StoredPictured
<1> QED BY <1>8, <1>9 DEF d

(* A newline, which is stored and not drawn. *)
LEMMA NewlineLines ==
  ASSUME NEW s, Good(s), Lines(s), ~s.should_shift
  PROVE  /\ Lines(Newline(s)) /\ RowsOf(Newline(s)) = Promise!Add(RowsOf(s), NL)
         /\ Pictured(s) => Pictured(Newline(s))
<1> DEFINE t == [s EXCEPT !.fbc[s.cur_y][s.cur_x] = NL]
           d == Newline(s)  cy == s.cur_y  cx == s.cur_x
<1>1. Board(s) /\ Board(d) /\ Good(d)
  BY GoodBoard, NewlineGood
<1>2. cy \in Ys /\ cx \in Xs /\ cx \in Nat /\ cx < ch_w /\ cy \in Nat /\ cy < ch_h /\ ch_w \in Nat /\ ch_h \in Nat
  BY <1>1, ConsoleAssumption DEF Board, Xs, Ys
<1>3. /\ t.cur_y = cy /\ t.cur_x = cx /\ t.should_shift = s.should_shift
      /\ t.fbc = [s.fbc EXCEPT ![cy][cx] = NL] /\ t.px = s.px
  BY DEF Good, States
<1>4. t \in States
  <2>1. [s.fbc EXCEPT ![cy][cx] = NL] \in [Ys -> [Xs -> Cells]]
    BY DEF Good, States, Cells
  <2> QED BY <2>1 DEF Good, States
<1>5. d = NextRow(t)
  BY DEF Newline
<1> HIDE DEF t, d
<1>6. d.fbc = t.fbc /\ d.px = t.px /\ d.cur_x = 0
  BY <1>4, <1>5, NextRowIs
<1>7. Stored(s, d, NL)
  <2>1. \A y \in Ys : y # cy => d.fbc[y] = s.fbc[y]
    BY <1>2, <1>3, <1>6 DEF Good, States
  <2>2. \A x \in Xs : x # cx => d.fbc[cy][x] = s.fbc[cy][x]
    BY <1>2, <1>3, <1>6 DEF Good, States
  <2>3. d.fbc[cy][cx] = NL
    BY <1>2, <1>3, <1>6 DEF Good, States
  <2> QED BY <2>1, <2>2, <2>3 DEF Stored
<1>8. Lines(d) /\ RowsOf(d) = Promise!Add(RowsOf(s), NL)
  <2>1. \/ cy + 1 < ch_h /\ d.cur_y = cy + 1 /\ ~d.should_shift
        \/ cy = ch_h - 1 /\ d.cur_y = cy /\ d.should_shift
    <3>1. CASE cy + 1 < ch_h
      BY <1>3, <1>4, <1>5, <3>1, NextRowIs
    <3>2. CASE ~(cy + 1 < ch_h)
      <4>1. d.cur_y = cy /\ d.should_shift
        BY <1>3, <1>4, <1>5, <3>2, NextRowIs
      <4> QED BY <1>2, <3>2, <4>1
    <3> QED BY <3>1, <3>2
  <2> QED BY <1>1, <1>6, <1>7, <2>1, StoredEnds
<1>9. ASSUME Pictured(s) PROVE Pictured(d)
  <2>1. Open(s.fbc[cy], cx) /\ Covers(s.fbc[cy], cx)
    BY OpenHere
  <2>2. Full(d.fbc[cy], cx + 1)
    BY <1>2, <1>7, <2>1, Chars, FullOf DEF Stored
  <2>3. Covers(d.fbc[cy], cx + 1)
    BY <2>2 DEF Full
  <2> QED BY <1>1, <1>3, <1>6, <1>7, <1>9, <2>1, <2>3, StoredPictured
<1> QED BY <1>8, <1>9 DEF d

(* A shift moves the picture of a row. *)
LEMMA CopiedDrawn ==
  ASSUME NEW row, NEW over, NEW n \in Nat, n <= ch_w, Covers(row, n)
  PROVE  Drawn(CopiedOver(row, over)) = Drawn(row)
<1> DEFINE cp == CopiedOver(row, over)
<1>1. Covers(cp, n) /\ \A x \in Xs : x < n => cp[x] = row[x]
  BY CopiedCovers
<1> HIDE DEF cp
<1>2. ASSUME NEW x \in Xs PROVE Drawn(cp)[x] = Drawn(row)[x]
  <2>1. Drawn(cp)[x] = IF x < n THEN Glyph(cp[x]) ELSE SPACE
    BY <1>1, DrawnCovers
  <2>2. Drawn(row)[x] = IF x < n THEN Glyph(row[x]) ELSE SPACE
    BY DrawnCovers
  <2> QED BY <1>1, <2>1, <2>2
<1>3. Drawn(cp) = [x \in Xs |-> Drawn(cp)[x]] /\ Drawn(row) = [x \in Xs |-> Drawn(row)[x]]
  BY DEF Drawn
<1>4. Drawn(cp) = Drawn(row)
  BY <1>2, <1>3
<1> QED BY <1>4 DEF cp

LEMMA EmptyDrawn == Drawn(EmptyRow) = BlankRow
<1>1. Covers(EmptyRow, 0)
  BY EmptyOpen, OpenCovers
<1>2. ASSUME NEW x \in Xs PROVE Drawn(EmptyRow)[x] = SPACE
  <2>1. Drawn(EmptyRow)[x] = IF x < 0 THEN Glyph(EmptyRow[x]) ELSE SPACE
    BY <1>1, DrawnCovers
  <2>2. ~(x < 0)
    BY ConsoleAssumption DEF Xs
  <2> QED BY <2>1, <2>2
<1>3. Drawn(EmptyRow) = [x \in Xs |-> Drawn(EmptyRow)[x]]
  BY DEF Drawn
<1> QED BY <1>2, <1>3 DEF BlankRow

(* The shift draws what it copies. *)
LEMMA ReadyPictured ==
  ASSUME NEW s, Good(s), Lines(s), Pictured(s)
  PROVE  Pictured(Ready(s))
<1>1. CASE ~s.should_shift
  <2>1. Ready(s) = s
    BY <1>1 DEF Ready
  <2> QED BY <2>1
<1>2. CASE s.should_shift
  <2> DEFINE d == Ready(s)
  <2>1. /\ d.fbc = [y \in Ys |-> IF y = ch_h - 1 THEN EmptyRow
                                 ELSE CopiedOver(s.fbc[y + 1], s.fbc[y])]
        /\ d.px = [y \in Ys |-> IF y = ch_h - 1 THEN BlankRow ELSE Drawn(s.fbc[y + 1])]
    BY <1>2 DEF Ready, fbc_shift_rows, Good, States
  <2> HIDE DEF d
  <2>2. ch_h \in Nat /\ ch_h > 1 /\ ch_w \in Nat /\ ch_w > 0
    BY ConsoleAssumption
  <2>3. ASSUME NEW y \in Ys, y # ch_h - 1
        PROVE  \E n \in 0..ch_w : Covers(s.fbc[y + 1], n)
    <3>1. y + 1 \in Ys
      BY <2>2, <2>3 DEF Ys
    <3>2. CASE s.cur_y = ch_h - 1
      <4>1. Ended(s) = ch_h
        BY <1>2, <3>2 DEF Ended, Pending
      <4>2. y + 1 \in 0..(Ended(s) - 1)
        BY <2>2, <3>1, <4>1 DEF Ys
      <4>3. PICK n \in 1..ch_w : Full(s.fbc[y + 1], n)
        BY <4>2 DEF Lines
      <4>4. n \in 0..ch_w
        BY <2>2
      <4> QED BY <4>3, <4>4 DEF Full
    <3>3. CASE s.cur_y # ch_h - 1
      <4>1. s.fbc[y + 1] = EmptyRow
        BY <1>2, <3>1, <3>3 DEF Lines
      <4>2. Covers(EmptyRow, 0) /\ 0 \in 0..ch_w
        BY <2>2, EmptyOpen, OpenCovers
      <4> QED BY <4>1, <4>2
    <3> QED BY <3>2, <3>3
  <2>4. ASSUME NEW y \in Ys PROVE d.px[y] = Drawn(d.fbc[y])
    <3>1. CASE y = ch_h - 1
      BY <2>1, <3>1, EmptyDrawn
    <3>2. CASE y # ch_h - 1
      <4>1. PICK n \in 0..ch_w : Covers(s.fbc[y + 1], n)
        BY <2>3, <3>2
      <4>2. n \in Nat /\ n <= ch_w
        BY <2>2
      <4>3. Drawn(CopiedOver(s.fbc[y + 1], s.fbc[y])) = Drawn(s.fbc[y + 1])
        BY <4>1, <4>2, CopiedDrawn
      <4> QED BY <2>1, <3>2, <4>3
    <3> QED BY <3>1, <3>2
  <2> QED BY <2>4 DEF Pictured, d
<1> QED BY <1>1, <1>2

(* What each printed character keeps. *)
Shown(s) == Good(s) /\ Lines(s)

LEMMA TextIs ==
  ASSUME NEW s, Shown(s)
  PROVE  RowsOf(s) \in Texts /\ Len(RowsOf(s)) \in 1..(ch_h + 1)
<1>1. Ended(s) \in 0..ch_h /\ RowsOf(s) \in Texts /\ Len(RowsOf(s)) = Ended(s) + 1
  BY GoodBoard, RowsAre DEF Shown
<1> QED BY <1>1, ConsoleAssumption

(* The shift before a character. *)
LEMMA ReadyShown ==
  ASSUME NEW s, Shown(s)
  PROVE  /\ Shown(Ready(s)) /\ ~Ready(s).should_shift
         /\ RowsOf(Ready(s)) = Fit(RowsOf(s))
         /\ Pictured(s) => Pictured(Ready(s))
BY ReadyGood, ReadyLines, ReadyPictured DEF Shown

(* Any character that is stored and drawn: printed, it is added.           *)
LEMMA PutShown ==
  ASSUME NEW s, Shown(s), NEW c \in Visible \union {SPACE}
  PROVE  /\ Shown(Put(Ready(s), c))
         /\ RowsOf(Put(Ready(s), c)) = Promise!Add(RowsOf(s), c)
         /\ Pictured(s) => Pictured(Put(Ready(s), c))
<1> DEFINE t == Ready(s)
<1>1. /\ Shown(t) /\ ~t.should_shift /\ RowsOf(t) = Fit(RowsOf(s))
      /\ Pictured(s) => Pictured(t)
  BY ReadyShown
<1> HIDE DEF t
<1>2. /\ Lines(Put(t, c)) /\ RowsOf(Put(t, c)) = Promise!Add(RowsOf(t), c)
      /\ Pictured(t) => Pictured(Put(t, c))
  BY <1>1, PutLines DEF Shown
<1>3. Good(Put(t, c))
  BY <1>1, PutGood DEF Shown
<1>4. Promise!Add(RowsOf(s), c) = Promise!Add(Fit(RowsOf(s)), c)
  BY TextIs, AddFits
<1> QED BY <1>1, <1>2, <1>3, <1>4 DEF Shown, t

(* A newline, whether or not it shifts. *)
LEMMA NewlineShown ==
  ASSUME NEW s, Shown(s)
  PROVE  /\ Shown(Newline(Ready(s)))
         /\ RowsOf(Newline(Ready(s))) = Promise!Add(RowsOf(s), NL)
         /\ Pictured(s) => Pictured(Newline(Ready(s)))
<1> DEFINE t == Ready(s)
<1>1. /\ Shown(t) /\ ~t.should_shift /\ RowsOf(t) = Fit(RowsOf(s))
      /\ Pictured(s) => Pictured(t)
  BY ReadyShown
<1> HIDE DEF t
<1>2. /\ Lines(Newline(t)) /\ RowsOf(Newline(t)) = Promise!Add(RowsOf(t), NL)
      /\ Pictured(t) => Pictured(Newline(t))
  BY <1>1, NewlineLines DEF Shown
<1>3. Good(Newline(t))
  BY <1>1, NewlineGood DEF Shown
<1>4. Promise!Add(RowsOf(s), NL) = Promise!Add(Fit(RowsOf(s)), NL)
  BY TextIs, AddFits
<1> QED BY <1>1, <1>2, <1>3, <1>4 DEF Shown, t

LEMMA SpaceShown ==
  ASSUME NEW s, Shown(s)
  PROVE  /\ Shown(Space(s)) /\ RowsOf(Space(s)) = Spaced(RowsOf(s))
         /\ Pictured(s) => Pictured(Space(s))
BY PutShown DEF Space, Spaced

(* A tab is as many spaces as the text needs, whether or not it shifts.    *)
LEMMA TabShown ==
  ASSUME NEW s, Shown(s)
  PROVE  /\ Shown(Tab(Ready(s)))
         /\ RowsOf(Tab(Ready(s))) = Promise!Tabbed(RowsOf(s))
         /\ Pictured(s) => Pictured(Tab(Ready(s)))
<1> DEFINE t == Ready(s)  r == RowsOf(s)
           s1 == Space(t)  s2 == Space(s1)  s3 == Space(s2)  s4 == Space(s3)
           k == FBC_TABSIZE - (t.cur_x % FBC_TABSIZE)
<1>1. /\ Shown(t) /\ ~t.should_shift /\ RowsOf(t) = Fit(r)
      /\ Pictured(s) => Pictured(t)
  BY ReadyShown
<1> HIDE DEF t, r
<1>2. Shown(s1) /\ RowsOf(s1) = Spaced(Fit(r)) /\ (Pictured(t) => Pictured(s1))
  BY <1>1, SpaceShown
<1>3. Shown(s2) /\ RowsOf(s2) = Spaced(RowsOf(s1)) /\ (Pictured(s1) => Pictured(s2))
  BY <1>2, SpaceShown
<1>4. Shown(s3) /\ RowsOf(s3) = Spaced(RowsOf(s2)) /\ (Pictured(s2) => Pictured(s3))
  BY <1>3, SpaceShown
<1>5. Shown(s4) /\ RowsOf(s4) = Spaced(RowsOf(s3)) /\ (Pictured(s3) => Pictured(s4))
  BY <1>4, SpaceShown
<1>6. Spaced(Fit(r)) = Spaced(r)
  BY TextIs, AddFits DEF Spaced, r
<1>7. t.cur_x \in Nat /\ k \in 1..4
  <2>1. t.cur_x \in Nat
    BY <1>1 DEF Shown, Good, States, Xs
  <2> QED BY <2>1 DEF FBC_TABSIZE
<1>8. Len(Promise!Last(r)) = t.cur_x
  <2>1. /\ RowsOf(t) \in Texts /\ Len(RowsOf(t)) = t.cur_y + 1
        /\ t.cur_y + 1 \in 1..ch_h /\ t.cur_y \in Nat
        /\ RowsOf(t)[t.cur_y + 1] = TextOf(t.fbc[t.cur_y], t.cur_x)
        /\ Len(TextOf(t.fbc[t.cur_y], t.cur_x)) = t.cur_x
    BY <1>1, GoodBoard, RowsOpen DEF Shown
  <2>2. Promise!Last(RowsOf(t)) = TextOf(t.fbc[t.cur_y], t.cur_x)
    BY <2>1 DEF Promise!Last
  <2>3. r \in Seq(Seq(Cells)) /\ Len(r) \in 1..(ch_h + 1)
    BY TextIs DEF r, Texts
  <2>4. Promise!Last(Fit(r)) = Promise!Last(r)
    <3>1. ch_h \in Nat /\ ch_h > 1
      BY ConsoleAssumption
    <3>2. CASE Len(r) > ch_h
      <4>1. Len(r) = ch_h + 1 /\ r # <<>>
        BY <2>3, <3>1, <3>2
      <4>2. Len(Tail(r)) = ch_h /\ Tail(r)[ch_h] = r[ch_h + 1]
        BY <2>3, <3>1, <4>1
      <4>3. Fit(r) = Tail(r)
        BY <3>2 DEF Fit
      <4> QED BY <4>1, <4>2, <4>3 DEF Promise!Last
    <3>3. CASE ~(Len(r) > ch_h)
      BY <3>3 DEF Fit
    <3> QED BY <3>2, <3>3
  <2> QED BY <1>1, <2>1, <2>2, <2>4
<1>9. Promise!Tabbed(r) = IF k = 1 THEN Spaced(r)
                          ELSE IF k = 2 THEN Spaced(Spaced(r))
                          ELSE IF k = 3 THEN Spaced(Spaced(Spaced(r)))
                          ELSE Spaced(Spaced(Spaced(Spaced(r))))
  BY <1>7, <1>8, TabbedIs
<1>10. Tab(t) = IF k = 1 THEN s1 ELSE IF k = 2 THEN s2 ELSE IF k = 3 THEN s3 ELSE s4
  BY <1>7 DEF Tab
<1> HIDE DEF s1, s2, s3, s4, k
<1>11. Shown(Tab(t)) /\ RowsOf(Tab(t)) = Promise!Tabbed(r) /\ (Pictured(t) => Pictured(Tab(t)))
  <2>1. CASE k = 1
    BY <1>2, <1>6, <1>9, <1>10, <2>1
  <2>2. CASE k = 2
    BY <1>2, <1>3, <1>6, <1>9, <1>10, <2>2
  <2>3. CASE k = 3
    BY <1>2, <1>3, <1>4, <1>6, <1>9, <1>10, <2>3
  <2>4. CASE k \notin {1, 2, 3}
    BY <1>2, <1>3, <1>4, <1>5, <1>6, <1>9, <1>10, <2>4
  <2> QED BY <2>1, <2>2, <2>3, <2>4
<1> QED BY <1>1, <1>11 DEF t, r

(* The cursor in a row that is open again. *)
LEMMA Reopened ==
  ASSUME NEW s, NEW d, Shown(s), ~s.should_shift, Board(d), ~d.should_shift,
         d.cur_y <= s.cur_y,
         \A y \in Ys : y < d.cur_y => d.fbc[y] = s.fbc[y],
         Open(d.fbc[d.cur_y], d.cur_x),
         \A y \in Ys : y > d.cur_y => Open(d.fbc[y], 0),
         NEW q \in Texts, Len(q) = d.cur_y + 1,
         \A i \in 1..d.cur_y : q[i] = RowsOf(s)[i],
         q[d.cur_y + 1] = TextOf(d.fbc[d.cur_y], d.cur_x)
  PROVE  Lines(d) /\ RowsOf(d) = q
<1> DEFINE y == d.cur_y
<1>1. /\ Board(s) /\ s.cur_y \in Nat /\ Ended(s) = s.cur_y
      /\ \A i \in 1..s.cur_y : i - 1 \in Ys
      /\ \A i \in 1..s.cur_y : \A n \in 1..ch_w :
              Full(s.fbc[i - 1], n) => RowsOf(s)[i] = TextOf(s.fbc[i - 1], n)
      /\ \A i \in 1..s.cur_y : \E n \in 1..ch_w : Full(s.fbc[i - 1], n)
  BY GoodBoard, RowsOpen DEF Shown
<1>2. y \in Ys /\ y \in Nat /\ y <= s.cur_y
  BY DEF Board, Ys
<1>3. ASSUME NEW i \in 1..y
      PROVE  \E n \in 1..ch_w : Full(d.fbc[i - 1], n) /\ RowsOf(s)[i] = TextOf(d.fbc[i - 1], n)
  <2>1. i \in 1..s.cur_y /\ i - 1 < y
    BY <1>1, <1>2
  <2>2. PICK n \in 1..ch_w : Full(s.fbc[i - 1], n)
    BY <1>1, <2>1
  <2>3. d.fbc[i - 1] = s.fbc[i - 1]
    BY <1>1, <2>1
  <2>4. RowsOf(s)[i] = TextOf(s.fbc[i - 1], n)
    BY <1>1, <2>1, <2>2
  <2> QED BY <2>2, <2>3, <2>4
<1>4. Ended(d) = y /\ ~Pending(d)
  BY DEF Ended, Pending
<1>5. Lines(d)
  <2>1. ASSUME NEW z \in 0..(y - 1) PROVE \E n \in 1..ch_w : Full(d.fbc[z], n)
    <3>1. z + 1 \in 1..y /\ z + 1 - 1 = z
      BY <1>2
    <3>2. \E n \in 1..ch_w : Full(d.fbc[z + 1 - 1], n)
      BY <1>3, <3>1
    <3> QED BY <3>1, <3>2
  <2> QED BY <1>4, <2>1 DEF Lines
<1>6. /\ RowsOf(d) \in Texts /\ Len(RowsOf(d)) = y + 1
      /\ RowsOf(d)[y + 1] = TextOf(d.fbc[y], d.cur_x)
      /\ \A i \in 1..y : \A n \in 1..ch_w :
              Full(d.fbc[i - 1], n) => RowsOf(d)[i] = TextOf(d.fbc[i - 1], n)
  BY <1>5, RowsOpen
<1>7. ASSUME NEW i \in 1..(y + 1) PROVE RowsOf(d)[i] = q[i]
  <2>1. CASE i = y + 1
    BY <1>6, <2>1
  <2>2. CASE i # y + 1
    <3>1. i \in 1..y
      BY <1>2, <2>2
    <3>2. PICK n \in 1..ch_w : Full(d.fbc[i - 1], n) /\ RowsOf(s)[i] = TextOf(d.fbc[i - 1], n)
      BY <1>3, <3>1
    <3>3. RowsOf(d)[i] = TextOf(d.fbc[i - 1], n)
      BY <1>6, <3>1, <3>2
    <3> QED BY <3>1, <3>2, <3>3
  <2> QED BY <2>1, <2>2
<1>8. y + 1 \in Nat
  BY <1>2
<1>9. RowsOf(d) = q
  BY <1>6, <1>7, <1>8, TextsEqual
<1> QED BY <1>5, <1>9

(* Without its last character, the text of a row is that of one less.      *)
LEMMA TextShrinks ==
  ASSUME NEW old \in [Xs -> Cells], NEW row \in [Xs -> Cells], NEW n \in Xs,
         \A x \in Xs : x < n => row[x] = old[x]
  PROVE  TextOf(row, n) = Promise!Front(TextOf(old, n + 1))
<1>1. n \in Nat /\ n \in 0..ch_w /\ n + 1 \in 0..ch_w
  BY ConsoleAssumption DEF Xs
<1> DEFINE s == TextOf(row, n)  t == TextOf(old, n + 1)
<1>2. s \in Seq(Cells) /\ Len(s) = n /\ \A i \in 1..n : s[i] = row[i - 1]
  BY <1>1, TextOfSeq
<1>3. t \in Seq(Cells) /\ Len(t) = n + 1 /\ \A i \in 1..(n + 1) : t[i] = old[i - 1]
  BY <1>1, TextOfSeq
<1> HIDE DEF s, t
<1> DEFINE f == Promise!Front(t)
<1>4. f \in Seq(Cells) /\ Len(f) = n /\ \A i \in 1..n : f[i] = t[i]
  <2> DEFINE m == n + 1
  <2>1. m \in Nat \ {0} /\ m - 1 = n /\ Len(t) = m
    BY <1>1, <1>3
  <2> HIDE DEF m
  <2>2. f \in Seq(Cells) /\ Len(f) = m - 1 /\ \A i \in 1..(m - 1) : f[i] = t[i]
    BY <1>3, <2>1, FrontOf
  <2> QED BY <2>1, <2>2
<1> HIDE DEF f
<1>5. ASSUME NEW i \in 1..n PROVE s[i] = f[i]
  <2>1. i \in 1..(n + 1) /\ i - 1 \in Xs /\ i - 1 < n
    BY <1>1, ConsoleAssumption DEF Xs
  <2> QED BY <1>2, <1>3, <1>4, <2>1
<1>6. s = f
  BY <1>2, <1>4, <1>5, SeqEqual
<1> QED BY <1>6 DEF s, t, f

(* A cell blanked at the end of the text, in the array and in the picture. *)
LEMMA BlankedPictured ==
  ASSUME NEW s, NEW d, Good(d), Pictured(s), NEW y \in Ys, NEW x \in Xs,
         Covers(s.fbc[y], x + 1), Covers(d.fbc[y], x),
         \A z \in Ys : z # y => d.fbc[z] = s.fbc[z] /\ d.px[z] = s.px[z],
         \A z \in Xs : z # x => d.fbc[y][z] = s.fbc[y][z] /\ d.px[y][z] = s.px[y][z],
         d.px[y][x] = SPACE
  PROVE  Pictured(d)
<1>1. x \in Nat /\ d.px[y] \in [Xs -> Visible \union {SPACE}]
  BY DEF Good, States, Xs
<1>2. \A z \in Ys : z # y => d.px[z] = Drawn(d.fbc[z])
  BY DEF Pictured
<1>3. ASSUME NEW z \in Xs PROVE d.px[y][z] = Drawn(d.fbc[y])[z]
  <2>1. Drawn(s.fbc[y])[z] = IF z < x + 1 THEN Glyph(s.fbc[y][z]) ELSE SPACE
    BY <1>1, DrawnCovers
  <2>2. Drawn(d.fbc[y])[z] = IF z < x THEN Glyph(d.fbc[y][z]) ELSE SPACE
    BY <1>1, DrawnCovers
  <2>3. s.px[y][z] = Drawn(s.fbc[y])[z]
    BY DEF Pictured
  <2>4. z \in Int
    BY DEF Xs
  <2>5. CASE z = x
    BY <1>1, <2>2, <2>5
  <2>6. CASE z # x
    <3>1. z < x <=> z < x + 1
      BY <1>1, <2>4, <2>6
    <3> QED BY <2>1, <2>2, <2>3, <2>6, <3>1
  <2> QED BY <2>5, <2>6
<1>4. d.px[y] = Drawn(d.fbc[y])
  BY <1>1, <1>3, DrawnAs
<1> QED BY <1>2, <1>4 DEF Pictured

-----------------------------------------------------------------------------
(* Erasing, from a text that has room for another character. *)
LEMMA ErasedIs ==
  ASSUME NEW r \in Texts, NEW l \in 1..ch_h, Len(r) = l
  PROVE  /\ r[l] # <<>> => Promise!Erased(r) = Append(Promise!Front(r), Promise!Front(r[l]))
         /\ r[l] = <<>> /\ l > 1 /\ r[l - 1] # <<>> =>
              Promise!Erased(r) =
                Append(Promise!Front(Promise!Front(r)), Promise!Front(r[l - 1]))
<1>1. r \in Seq(Seq(Cells)) /\ l \in Nat \ {0} /\ ~(l > ch_h)
  BY ConsoleAssumption DEF Texts
<1>2. Promise!Last(r) = r[l]
  BY DEF Promise!Last
<1>3. CASE r[l] # <<>>
  BY <1>1, <1>2, <1>3 DEF Promise!Erased
<1>4. CASE r[l] = <<>> /\ l > 1 /\ r[l - 1] # <<>>
  <2> DEFINE f == Promise!Front(r)
  <2>1. f \in Seq(Seq(Cells)) /\ Len(f) = l - 1 /\ f[l - 1] = r[l - 1]
    <3> DEFINE S == Seq(Cells)
    <3>1. r \in Seq(S)
      BY <1>1
    <3> HIDE DEF S
    <3>2. f \in Seq(S) /\ Len(f) = l - 1 /\ \A i \in 1..(l - 1) : f[i] = r[i]
      BY <1>1, <3>1, FrontOf
    <3>3. l - 1 \in 1..(l - 1)
      BY <1>1, <1>4
    <3> QED BY <3>2, <3>3 DEF S
  <2> HIDE DEF f
  <2>2. Promise!Last(f) = r[l - 1]
    BY <2>1 DEF Promise!Last
  <2>3. Promise!Erased(r) = Append(Promise!Front(f), IF Promise!Last(f) = <<>> THEN <<>>
                                                     ELSE Promise!Front(Promise!Last(f)))
    BY <1>1, <1>2, <1>4 DEF Promise!Erased, f
  <2> QED BY <1>4, <2>2, <2>3 DEF f
<1> QED BY <1>3, <1>4

(* What a shift takes away does not matter to erasing. *)
LEMMA ErasedFits ==
  ASSUME NEW r \in Texts, NEW l \in 1..(ch_h + 1), Len(r) = l
  PROVE  /\ Promise!Erased(Fit(r)) = Promise!Erased(r)
         /\ Promise!Restarted(Fit(r)) = Promise!Restarted(r)
         /\ Promise!Erasable(r) => Promise!Erasable(Fit(r))
<1>1. ch_h \in Nat /\ ch_h > 1 /\ r \in Seq(Seq(Cells))
  BY ConsoleAssumption DEF Texts
<1>2. CASE ~(l > ch_h)
  BY <1>2 DEF Fit
<1>3. CASE l > ch_h
  <2>1. l = ch_h + 1 /\ r # <<>>
    BY <1>1, <1>3
  <2> DEFINE t == Tail(r)
  <2>2. Len(t) = ch_h /\ t[ch_h] = r[ch_h + 1] /\ t[ch_h - 1] = r[ch_h]
    BY <1>1, <2>1
  <2>3. Fit(r) = t
    BY <1>3 DEF Fit
  <2>4. Fit(t) = t
    <3> HIDE DEF t
    <3> QED BY <1>1, <2>2 DEF Fit
  <2>5. Promise!Erased(t) = Promise!Erased(r)
    <3> DEFINE open(f) == IF Promise!Last(f) = <<>> /\ Len(f) > 1 THEN Promise!Front(f) ELSE f
               Res(f) == Append(Promise!Front(open(f)),
                           IF Promise!Last(open(f)) = <<>> THEN <<>>
                           ELSE Promise!Front(Promise!Last(open(f))))
    <3> HIDE DEF t
    <3>1. Promise!Erased(r) = Res(Fit(r))
      BY DEF Promise!Erased, Fit
    <3>2. Promise!Erased(t) = Res(Fit(t))
      BY DEF Promise!Erased, Fit
    <3> HIDE DEF Res
    <3> QED BY <2>3, <2>4, <3>1, <3>2
  <2>6. Promise!Restarted(t) = Promise!Restarted(r)
    <3> HIDE DEF t
    <3>1. Promise!Restarted(r) = Append(Promise!Front(Fit(r)), <<>>)
      BY DEF Promise!Restarted, Fit
    <3>2. Promise!Restarted(t) = Append(Promise!Front(Fit(t)), <<>>)
      BY DEF Promise!Restarted, Fit
    <3> QED BY <2>3, <2>4, <3>1, <3>2
  <2>7. Promise!Erasable(r) => Promise!Erasable(t)
    <3> HIDE DEF t
    <3>1. Promise!Last(t) = Promise!Last(r)
      BY <1>1, <2>1, <2>2 DEF Promise!Last
    <3>2. Len(r) - 1 = ch_h /\ Len(t) - 1 = ch_h - 1 /\ Len(t) > 1
      BY <1>1, <2>1, <2>2
    <3>3. t[Len(t) - 1] = r[Len(r) - 1]
      BY <2>2, <3>2
    <3> QED BY <3>1, <3>2, <3>3 DEF Promise!Erasable
  <2> QED BY <2>3, <2>5, <2>6, <2>7
<1> QED BY <1>2, <1>3

(* A place in the array and in the picture that is blank now. *)
Blanked(s, d, y, x) ==
  /\ d.cur_y = y /\ d.cur_x = x /\ d.should_shift = s.should_shift
  /\ \A z \in Ys : z # y => d.fbc[z] = s.fbc[z] /\ d.px[z] = s.px[z]
  /\ \A z \in Xs : z # x => d.fbc[y][z] = s.fbc[y][z] /\ d.px[y][z] = s.px[y][z]
  /\ d.fbc[y][x] = SPACE /\ d.px[y][x] = SPACE

(* What '\b' changes. *)
LEMMA BackspaceIs ==
  ASSUME NEW s, Good(s), NEW y \in Ys, NEW x \in Xs,
         y = IF s.cur_x = 0 /\ s.cur_y > 0 THEN s.cur_y - 1 ELSE s.cur_y,
         x = IF s.cur_x > 0 THEN s.cur_x - 1
             ELSE IF s.cur_y > 0 THEN LastChar(s.fbc[y]) ELSE 0
  PROVE  Blanked(s, Backspace(s), y, x)
<1> DEFINE d == [s EXCEPT !.cur_y = y, !.cur_x = x,
                          !.fbc[y][x] = SPACE, !.px[y][x] = SPACE]
<1>1. Backspace(s) = d
  BY DEF Backspace
<1>2. /\ d.cur_y = y /\ d.cur_x = x /\ d.should_shift = s.should_shift
      /\ d.fbc = [s.fbc EXCEPT ![y][x] = SPACE] /\ d.px = [s.px EXCEPT ![y][x] = SPACE]
  BY DEF Good, States
<1> HIDE DEF d
<1>3. \A z \in Ys : z # y => d.fbc[z] = s.fbc[z] /\ d.px[z] = s.px[z]
  BY <1>2 DEF Good, States
<1>4. \A z \in Xs : z # x => d.fbc[y][z] = s.fbc[y][z] /\ d.px[y][z] = s.px[y][z]
  BY <1>2 DEF Good, States
<1>5. d.fbc[y][x] = SPACE /\ d.px[y][x] = SPACE
  BY <1>2 DEF Good, States
<1> QED BY <1>1, <1>2, <1>3, <1>4, <1>5 DEF Blanked

(* The search of '\b' in a row that is full to the last column. *)
LEMMA FullLast ==
  ASSUME NEW row, Covers(row, ch_w)
  PROVE  LastChar(row) = ch_w - 1
<1>1. ch_w - 1 \in Xs /\ row[ch_w - 1] # NUL
  BY ConsoleAssumption DEF Xs, Covers
<1>2. \A z \in Xs : ~(z > ch_w - 1)
  BY ConsoleAssumption DEF Xs
<1>3. \A x \in Xs : x # ch_w - 1 => ch_w - 1 > x
  BY ConsoleAssumption DEF Xs
<1>4. \A x \in Xs : (row[x] # NUL /\ \A z \in Xs : z > x => row[z] = NUL) => x = ch_w - 1
  BY <1>1, <1>3
<1> QED BY <1>1, <1>2, <1>4 DEF LastChar

(* '\b' in a row. *)
LEMMA BackspaceInRow ==
  ASSUME NEW s, Shown(s), ~s.should_shift, s.cur_x > 0
  PROVE  /\ Lines(Backspace(s)) /\ RowsOf(Backspace(s)) = Promise!Erased(RowsOf(s))
         /\ Pictured(s) => Pictured(Backspace(s))
<1> DEFINE d == Backspace(s)  y == s.cur_y  x == s.cur_x - 1  l == y + 1  r == RowsOf(s)
<1>1. Board(s) /\ Good(s) /\ Board(d) /\ Good(d)
  BY GoodBoard, BackspaceGood DEF Shown
<1>2. y \in Ys /\ x \in Xs /\ x \in Nat /\ x + 1 = s.cur_x
  BY <1>1, ConsoleAssumption DEF Board, Xs
<1>3. Blanked(s, d, y, x)
  BY <1>1, <1>2, BackspaceIs
<1> HIDE DEF d
<1>4. /\ r \in Texts /\ Len(r) = l /\ l \in 1..ch_h /\ y \in Nat
      /\ r[l] = TextOf(s.fbc[y], x + 1) /\ Len(TextOf(s.fbc[y], x + 1)) = x + 1
      /\ Open(s.fbc[y], x + 1)
  BY <1>1, <1>2, RowsOpen DEF Shown
<1>5. s.fbc[y] \in [Xs -> Cells] /\ d.fbc[y] \in [Xs -> Cells]
  BY <1>1, <1>2 DEF Board
<1>6. Open(d.fbc[y], x)
  <2> SUFFICES ASSUME NEW z \in Xs
               PROVE  IF z < x THEN d.fbc[y][z] \notin {NL, NUL} ELSE d.fbc[y][z] \in {SPACE, NL, NUL}
    BY DEF Open
  <2>1. z \in Int
    BY DEF Xs
  <2>2. CASE z = x
    BY <1>2, <1>3, <2>2 DEF Blanked
  <2>3. CASE z < x
    <3>1. z # x /\ z < x + 1
      BY <1>2, <2>1, <2>3
    <3>2. d.fbc[y][z] = s.fbc[y][z]
      BY <1>3, <3>1 DEF Blanked
    <3> QED BY <1>4, <2>3, <3>1, <3>2 DEF Open
  <2>4. CASE z > x
    <3>1. z # x /\ ~(z < x + 1) /\ ~(z < x)
      BY <1>2, <2>1, <2>4
    <3>2. d.fbc[y][z] = s.fbc[y][z]
      BY <1>3, <3>1 DEF Blanked
    <3> QED BY <1>4, <3>1, <3>2 DEF Open
  <2> QED BY <1>2, <2>1, <2>2, <2>3, <2>4
<1>7. TextOf(d.fbc[y], x) = Promise!Front(r[l])
  <2>1. \A z \in Xs : z < x => d.fbc[y][z] = s.fbc[y][z]
    BY <1>2, <1>3 DEF Blanked, Xs
  <2> QED BY <1>2, <1>4, <1>5, <2>1, TextShrinks
<1> DEFINE q == Append(Promise!Front(r), Promise!Front(r[l]))
<1>8. Promise!Erased(r) = q
  <2>1. r[l] # <<>>
    BY <1>2, <1>4
  <2> HIDE DEF l, r
  <2> QED BY <1>4, <2>1, ErasedIs
<1>9. /\ q \in Texts /\ Len(q) = l /\ (\A i \in 1..(l - 1) : q[i] = r[i])
      /\ q[l] = TextOf(d.fbc[y], x)
  <2>1. Promise!Front(r[l]) \in Seq(Cells)
    <3>1. x \in 0..ch_w
      BY <1>2, ConsoleAssumption DEF Xs
    <3>2. TextOf(d.fbc[y], x) \in Seq(Cells)
      BY <1>5, <3>1, TextOfSeq
    <3> QED BY <1>7, <3>2
  <2>2. l \in Nat \ {0} /\ r \in Seq(Seq(Cells))
    BY <1>4 DEF Texts
  <2> DEFINE S == Seq(Cells)  w == Promise!Front(r[l])
  <2>3. w \in S /\ r \in Seq(S) /\ Len(r) = l
    BY <1>4, <2>1, <2>2
  <2> HIDE DEF S, w, l, r
  <2>4. /\ q \in Seq(S) /\ Len(q) = l
        /\ \A i \in 1..(l - 1) : q[i] = r[i]
        /\ q[l] = w
    BY <2>2, <2>3, Replaced DEF w
  <2> QED BY <1>7, <2>4 DEF Texts, S, w
<1> HIDE DEF q, r
<1>10. Lines(d) /\ RowsOf(d) = q
  <2>1. d.cur_y = y /\ d.cur_x = x /\ ~d.should_shift
    BY <1>3 DEF Blanked
  <2>2. \A z \in Ys : z < y => d.fbc[z] = s.fbc[z]
    BY <1>3, <1>4 DEF Blanked, Ys
  <2>3. \A z \in Ys : z > y => Open(d.fbc[z], 0)
    <3>1. \A z \in Ys : z > y => z # y
      BY <1>4 DEF Ys
    <3> QED BY <1>3, <3>1 DEF Blanked, Shown, Lines
  <2>4. l - 1 = y /\ y <= y
    BY <1>4
  <2> QED BY <1>1, <1>6, <1>9, <2>1, <2>2, <2>3, <2>4, Reopened DEF r
<1>11. ASSUME Pictured(s) PROVE Pictured(d)
  <2>1. Covers(s.fbc[y], x + 1) /\ Covers(d.fbc[y], x)
    BY <1>2, <1>4, <1>6, OpenCovers
  <2> QED BY <1>1, <1>2, <1>3, <1>11, <2>1, BlankedPictured DEF Blanked
<1> QED BY <1>8, <1>10, <1>11 DEF d, r

(* '\b' at the start of a row: the row above is full, for a newline cannot *)
(* be taken back.                                                          *)
LEMMA BackspaceUp ==
  ASSUME NEW s, Shown(s), ~s.should_shift, s.cur_x = 0, Promise!Erasable(RowsOf(s))
  PROVE  /\ Lines(Backspace(s)) /\ RowsOf(Backspace(s)) = Promise!Erased(RowsOf(s))
         /\ Pictured(s) => Pictured(Backspace(s))
<1> DEFINE d == Backspace(s)  l == s.cur_y + 1  y == s.cur_y - 1  x == ch_w - 1  r == RowsOf(s)
<1>1. Board(s) /\ Good(s) /\ Board(d) /\ Good(d)
  BY GoodBoard, BackspaceGood DEF Shown
<1>2. /\ r \in Texts /\ Len(r) = l /\ l \in 1..ch_h /\ s.cur_y \in Nat
      /\ r[l] = TextOf(s.fbc[s.cur_y], s.cur_x)
      /\ Open(s.fbc[s.cur_y], s.cur_x)
      /\ \A i \in 1..s.cur_y : i - 1 \in Ys
      /\ \A i \in 1..s.cur_y : \A n \in 1..ch_w :
              Full(s.fbc[i - 1], n) => r[i] = TextOf(s.fbc[i - 1], n)
      /\ \A i \in 1..s.cur_y : \E n \in 1..ch_w : Full(s.fbc[i - 1], n)
  BY <1>1, RowsOpen DEF Shown
<1>3. r[l] = <<>>
  BY <1>2, NoText
<1>4. l > 1 /\ Promise!Last(r[l - 1]) # NL
  <2>1. Promise!Last(r) = r[l]
    BY <1>2 DEF Promise!Last
  <2> QED BY <1>2, <1>3, <2>1 DEF Promise!Erasable
<1>5. /\ s.cur_y > 0 /\ s.cur_y \in 1..s.cur_y /\ y \in Nat /\ y \in Ys /\ y < s.cur_y
      /\ l - 1 = s.cur_y /\ y + 1 = s.cur_y /\ x \in Xs /\ x \in Nat /\ x + 1 = ch_w
  <2>1. s.cur_y > 0 /\ l - 1 = s.cur_y /\ y + 1 = s.cur_y /\ s.cur_y \in 1..s.cur_y
    BY <1>2, <1>4
  <2> QED BY <1>2, <2>1, ConsoleAssumption DEF Xs
<1> DEFINE row == s.fbc[y]
<1>6. row \in [Xs -> Cells] /\ d.fbc[y] \in [Xs -> Cells]
  BY <1>1, <1>5 DEF Board
<1>7. Full(row, ch_w) /\ r[l - 1] = TextOf(row, ch_w) /\ Len(r[l - 1]) = ch_w
  <2>1. PICK n \in 1..ch_w : Full(row, n)
    BY <1>2, <1>5
  <2>2. r[l - 1] = TextOf(row, n)
    BY <1>2, <1>5, <2>1
  <2>3. Len(TextOf(row, n)) = n /\ TextOf(row, n)[n] = row[n - 1]
    <3>1. n \in 0..ch_w /\ n \in 1..n
      BY ConsoleAssumption
    <3> HIDE DEF row
    <3> QED BY <1>6, <3>1, TextOfSeq
  <2>4. Promise!Last(TextOf(row, n)) = row[n - 1]
    BY <2>3 DEF Promise!Last
  <2>5. n = ch_w
    <3>1. row[n - 1] # NL
      BY <1>4, <2>2, <2>4
    <3> QED BY <2>1, <3>1 DEF Full
  <2> QED BY <2>1, <2>2, <2>3, <2>5
<1>8. LastChar(row) = x
  BY <1>7, FullLast DEF Full
<1>9. Blanked(s, d, y, x)
  BY <1>1, <1>5, <1>8, BackspaceIs
<1> HIDE DEF d
<1>10. \A z \in Xs : z # x => z < x /\ d.fbc[y][z] = row[z]
  <2>1. \A z \in Xs : z # x => z < x
    BY ConsoleAssumption DEF Xs
  <2> QED BY <1>9, <2>1 DEF Blanked
<1>11. Open(d.fbc[y], x)
  <2> SUFFICES ASSUME NEW z \in Xs
               PROVE  IF z < x THEN d.fbc[y][z] \notin {NL, NUL} ELSE d.fbc[y][z] \in {SPACE, NL, NUL}
    BY DEF Open
  <2>1. CASE z = x
    BY <1>5, <1>9, <2>1 DEF Blanked
  <2>2. CASE z # x
    <3>1. z \in 0..(ch_w - 2) /\ z < ch_w
      BY <2>2, ConsoleAssumption DEF Xs
    <3>2. row[z] # NUL /\ row[z] # NL
      BY <1>7, <3>1 DEF Full, Covers
    <3> QED BY <1>10, <2>2, <3>2
  <2> QED BY <2>1, <2>2
<1>12. TextOf(d.fbc[y], x) = Promise!Front(r[l - 1])
  <2>1. \A z \in Xs : z < x => d.fbc[y][z] = row[z]
    BY <1>5, <1>10
  <2>2. TextOf(d.fbc[y], x) = Promise!Front(TextOf(row, x + 1))
    <3> HIDE DEF row, x
    <3> QED BY <1>5, <1>6, <2>1, TextShrinks
  <2> QED BY <1>5, <1>7, <2>2
<1> DEFINE f == Promise!Front(r)  w == Promise!Front(r[l - 1])  q == Append(Promise!Front(f), w)
<1>13. Promise!Erased(r) = q
  <2>1. r[l - 1] # <<>>
    BY <1>5, <1>7, ConsoleAssumption
  <2> HIDE DEF l, r
  <2> QED BY <1>2, <1>3, <1>4, <2>1, ErasedIs
<1>14. /\ q \in Texts /\ Len(q) = y + 1 /\ (\A i \in 1..y : q[i] = r[i])
       /\ q[y + 1] = TextOf(d.fbc[y], x)
  <2>1. w \in Seq(Cells)
    <3>1. x \in 0..ch_w
      BY <1>5
    <3>2. TextOf(d.fbc[y], x) \in Seq(Cells)
      BY <1>6, <3>1, TextOfSeq
    <3> QED BY <1>12, <3>2
  <2>2. l \in Nat \ {0} /\ r \in Seq(Seq(Cells)) /\ l - 1 = y + 1 /\ y + 1 \in Nat \ {0} /\ y \in Nat
    BY SMTT(30), <1>2, <1>5 DEF Texts
  <2> DEFINE S == Seq(Cells)
  <2>3. w \in S /\ r \in Seq(S)
    BY <2>1, <2>2
  <2> HIDE DEF S, w, l, r
  <2>4. f \in Seq(S) /\ Len(f) = l - 1 /\ \A i \in 1..(l - 1) : f[i] = r[i]
    BY <1>2, <2>2, <2>3, FrontOf
  <2> HIDE DEF f
  <2> DEFINE m == y + 1
  <2>5. Len(f) = m /\ m \in Nat \ {0} /\ m - 1 = y /\ \A i \in 1..m : f[i] = r[i]
    BY <2>2, <2>4
  <2> HIDE DEF m
  <2>6. /\ q \in Seq(S) /\ Len(q) = m
        /\ \A i \in 1..(m - 1) : q[i] = f[i]
        /\ q[m] = w
    BY <2>3, <2>4, <2>5, Replaced
  <2> HIDE DEF q, y
  <2>7. \A i \in 1..y : q[i] = r[i]
    BY <2>2, <2>5, <2>6
  <2>8. q[m] = TextOf(d.fbc[y], x)
    BY <1>12, <2>6 DEF w
  <2> QED BY <2>6, <2>7, <2>8 DEF Texts, S, m
<1> HIDE DEF q
<1>15. Lines(d) /\ RowsOf(d) = q
  <2>1. d.cur_y = y /\ d.cur_x = x /\ ~d.should_shift /\ d.cur_y <= s.cur_y
    <3>1. d.cur_y = y /\ d.cur_x = x /\ ~d.should_shift
      BY <1>9 DEF Blanked
    <3> QED BY <1>2, <3>1
  <2>2. \A z \in Ys : z < y => d.fbc[z] = s.fbc[z]
    BY <1>5, <1>9 DEF Blanked, Ys
  <2>3. ASSUME NEW z \in Ys, z > y PROVE Open(d.fbc[z], 0)
    <3>1. z # y /\ (z = s.cur_y \/ z > s.cur_y)
      BY SMTT(30), <1>2, <1>5, <2>3 DEF Ys
    <3>2. d.fbc[z] = s.fbc[z]
      BY <1>9, <3>1 DEF Blanked
    <3> QED BY <1>2, <3>1, <3>2 DEF Shown, Lines
  <2> HIDE DEF y, x
  <2> QED BY <1>1, <1>11, <1>14, <2>1, <2>2, <2>3, Reopened
<1>16. ASSUME Pictured(s) PROVE Pictured(d)
  <2>1. Covers(s.fbc[y], x + 1) /\ Covers(d.fbc[y], x)
    <3>1. Covers(s.fbc[y], x + 1)
      BY <1>5, <1>7 DEF Full
    <3> QED BY <1>5, <1>11, <3>1, OpenCovers
  <2> QED BY <1>1, <1>5, <1>9, <1>16, <2>1, BlankedPictured DEF Blanked
<1> QED BY <1>13, <1>15, <1>16 DEF d

(* '\r' blanks the row up to the cursor. *)
LEMMA ReturnLines ==
  ASSUME NEW s, Shown(s), ~s.should_shift
  PROVE  /\ Lines(Return(s)) /\ RowsOf(Return(s)) = Promise!Restarted(RowsOf(s))
         /\ Pictured(s) => Pictured(Return(s))
<1> DEFINE y == s.cur_y  d == Return(s)  l == y + 1  r == RowsOf(s)
           row == [x \in Xs |-> IF x < s.cur_x THEN SPACE ELSE s.fbc[y][x]]
           pic == [x \in Xs |-> IF x < s.cur_x THEN SPACE ELSE s.px[y][x]]
<1>1. Board(s) /\ Good(s) /\ Board(d) /\ Good(d)
  BY GoodBoard, ReturnGood DEF Shown
<1>2. /\ d.cur_y = y /\ d.cur_x = 0 /\ ~d.should_shift
      /\ d.fbc = [s.fbc EXCEPT ![y] = row] /\ d.px = [s.px EXCEPT ![y] = pic]
  BY <1>1 DEF Return, Good, States
<1> HIDE DEF d
<1>3. /\ r \in Texts /\ Len(r) = l /\ l \in 1..ch_h /\ y \in Nat
      /\ Open(s.fbc[y], s.cur_x)
  BY <1>1, RowsOpen DEF Shown
<1>4. y \in Ys /\ s.cur_x \in Nat
  BY <1>1 DEF Board, Xs
<1>5. d.fbc[y] = row /\ d.px[y] = pic
  BY <1>1, <1>2, <1>4 DEF Good, States
<1>6. \A z \in Ys : z # y => d.fbc[z] = s.fbc[z] /\ d.px[z] = s.px[z]
  BY <1>1, <1>2, <1>4 DEF Good, States
<1>7. Open(d.fbc[y], 0)
  <2> SUFFICES ASSUME NEW x \in Xs
               PROVE  ~(x < 0) /\ d.fbc[y][x] \in {SPACE, NL, NUL}
    BY DEF Open
  <2>1. ~(x < 0)
    BY ConsoleAssumption DEF Xs
  <2>2. s.fbc[y][x] \in {SPACE, NL, NUL} \/ x < s.cur_x
    BY <1>3 DEF Open
  <2> QED BY <1>5, <2>1, <2>2
<1> DEFINE q == Append(Promise!Front(r), <<>>)
<1>8. Promise!Restarted(r) = q
  <2>1. ~(Len(r) > ch_h)
    BY <1>3, ConsoleAssumption
  <2> QED BY <2>1 DEF Promise!Restarted
<1>9. /\ q \in Texts /\ Len(q) = l /\ (\A i \in 1..(l - 1) : q[i] = r[i])
      /\ q[l] = TextOf(d.fbc[y], 0)
  <2>1. l \in Nat \ {0} /\ r \in Seq(Seq(Cells)) /\ Len(r) = l
    BY <1>3 DEF Texts
  <2> DEFINE S == Seq(Cells)
  <2>2. <<>> \in S /\ r \in Seq(S)
    BY <2>1
  <2> HIDE DEF S, l, r
  <2>3. /\ q \in Seq(S) /\ Len(q) = l
        /\ \A i \in 1..(l - 1) : q[i] = r[i]
        /\ q[l] = <<>>
    BY <2>1, <2>2, Replaced
  <2> QED BY <2>3, NoText DEF Texts, S
<1> HIDE DEF q
<1>10. Lines(d) /\ RowsOf(d) = q
  <2>1. \A z \in Ys : z < y => d.fbc[z] = s.fbc[z]
    BY <1>3, <1>6 DEF Ys
  <2>2. \A z \in Ys : z > y => Open(d.fbc[z], 0)
    <3>1. \A z \in Ys : z > y => z # y
      BY <1>3 DEF Ys
    <3> QED BY <1>6, <3>1 DEF Shown, Lines
  <2>3. l - 1 = y /\ y <= y /\ d.cur_y = y /\ d.cur_x = 0 /\ ~d.should_shift
    BY <1>2, <1>3
  <2> HIDE DEF row, pic
  <2> QED BY <1>1, <1>7, <1>9, <2>1, <2>2, <2>3, Reopened
<1>11. ASSUME Pictured(s) PROVE Pictured(d)
  <2>1. Covers(s.fbc[y], s.cur_x) /\ Covers(d.fbc[y], 0)
    BY <1>3, <1>4, <1>7, OpenCovers
  <2>2. ASSUME NEW x \in Xs PROVE d.px[y][x] = Drawn(d.fbc[y])[x]
    <3>1. Drawn(s.fbc[y])[x] = IF x < s.cur_x THEN Glyph(s.fbc[y][x]) ELSE SPACE
      BY <1>4, <2>1, DrawnCovers
    <3>2. Drawn(d.fbc[y])[x] = SPACE
      <4>1. ~(x < 0)
        BY ConsoleAssumption DEF Xs
      <4> QED BY <2>1, <4>1, DrawnCovers
    <3>3. s.px[y][x] = Drawn(s.fbc[y])[x]
      BY <1>4, <1>11 DEF Pictured
    <3> QED BY <1>5, <3>1, <3>2, <3>3
  <2>3. d.px[y] = Drawn(d.fbc[y])
    <3>1. d.px[y] \in [Xs -> Visible \union {SPACE}]
      BY <1>1, <1>4 DEF Good, States
    <3> QED BY <2>2, <3>1, DrawnAs
  <2> QED BY <1>6, <1>11, <2>3 DEF Pictured
<1> QED BY <1>8, <1>10, <1>11 DEF d

(* Every printed character does to the text what is promised, and draws it. *)
LEMMA PutcharShown ==
  ASSUME NEW s, Shown(s), NEW c \in Printing, c = BS => Promise!Erasable(RowsOf(s))
  PROVE  /\ Shown(fbc_putchar(s, c))
         /\ RowsOf(fbc_putchar(s, c)) = Promise!After(RowsOf(s), c)
         /\ Pictured(s) => Pictured(fbc_putchar(s, c))
<1>1. CASE c = NL
  <2>1. c \notin {TAB, BS, CR}
    BY <1>1, ConsoleAssumption
  <2> QED BY <1>1, <2>1, NewlineShown DEF fbc_putchar, Promise!After
<1>2. CASE c = TAB
  <2>1. c \notin {NL, BS, CR}
    BY <1>2, ConsoleAssumption
  <2>2. fbc_putchar(s, c) = Tab(Ready(s))
    BY <1>2, <2>1 DEF fbc_putchar
  <2>3. Promise!After(RowsOf(s), c) = Promise!Tabbed(RowsOf(s))
    BY <1>2, <2>1 DEF Promise!After
  <2> QED BY <2>2, <2>3, TabShown
<1>3. CASE c \notin {NL, TAB, BS, CR}
  <2>1. c \in Visible \union {SPACE}
    BY <1>3 DEF Printing
  <2>2. fbc_putchar(s, c) = Put(Ready(s), c) /\ Promise!After(RowsOf(s), c) = Promise!Add(RowsOf(s), c)
    BY <1>3 DEF fbc_putchar, Promise!After
  <2> QED BY <2>1, <2>2, PutShown
<1> DEFINE t == Ready(s)
<1>4. /\ Shown(t) /\ ~t.should_shift /\ RowsOf(t) = Fit(RowsOf(s))
      /\ Pictured(s) => Pictured(t)
  BY ReadyShown
<1>5. /\ Promise!Erased(RowsOf(t)) = Promise!Erased(RowsOf(s))
      /\ Promise!Restarted(RowsOf(t)) = Promise!Restarted(RowsOf(s))
      /\ Promise!Erasable(RowsOf(s)) => Promise!Erasable(RowsOf(t))
  BY <1>4, TextIs, ErasedFits
<1>6. t.cur_x = 0 \/ t.cur_x > 0
  BY <1>4, ConsoleAssumption DEF Shown, Good, States, Xs
<1>7. CASE c = BS
  <2>1. fbc_putchar(s, c) = Backspace(t) /\ Promise!After(RowsOf(s), c) = Promise!Erased(RowsOf(s))
    BY <1>7, ConsoleAssumption DEF fbc_putchar, Promise!After
  <2> HIDE DEF t
  <2>2. /\ Lines(Backspace(t)) /\ RowsOf(Backspace(t)) = Promise!Erased(RowsOf(t))
        /\ Pictured(t) => Pictured(Backspace(t))
    BY <1>4, <1>5, <1>6, <1>7, BackspaceInRow, BackspaceUp
  <2>3. Good(Backspace(t))
    BY <1>4, BackspaceGood DEF Shown
  <2> QED BY <1>4, <1>5, <2>1, <2>2, <2>3 DEF Shown
<1>8. CASE c = CR
  <2>1. fbc_putchar(s, c) = Return(t) /\ Promise!After(RowsOf(s), c) = Promise!Restarted(RowsOf(s))
    BY <1>8, ConsoleAssumption DEF fbc_putchar, Promise!After
  <2> HIDE DEF t
  <2>2. /\ Lines(Return(t)) /\ RowsOf(Return(t)) = Promise!Restarted(RowsOf(t))
        /\ Pictured(t) => Pictured(Return(t))
    BY <1>4, ReturnLines
  <2>3. Good(Return(t))
    BY <1>4, ReturnGood DEF Shown
  <2> QED BY <1>4, <1>5, <2>1, <2>2, <2>3 DEF Shown
<1> QED BY <1>1, <1>2, <1>3, <1>7, <1>8

-----------------------------------------------------------------------------
(* A console that was cleared has an empty text, whatever should_shift is. *)
LEMMA ClearedText ==
  ASSUME NEW t, Board(t), t.cur_y = 0, t.cur_x = 0, \A y \in Ys : t.fbc[y] = EmptyRow
  PROVE  Lines(t) /\ RowsOf(t) = << <<>> >>
<1>1. ~Pending(t) /\ Ended(t) = 0
  BY ConsoleAssumption DEF Pending, Ended
<1>2. 0..(Ended(t) - 1) = {}
  BY <1>1
<1>3. \A y \in Ys : Open(t.fbc[y], 0)
  BY EmptyOpen
<1>4. Lines(t)
  BY <1>1, <1>2, <1>3 DEF Lines, Board
<1>5. RowsOf(t) \in Texts /\ Len(RowsOf(t)) = 1 /\ RowsOf(t)[1] = <<>>
  <2>1. /\ RowsOf(t) \in Texts /\ Len(RowsOf(t)) = Ended(t) + 1
        /\ RowsOf(t)[Ended(t) + 1] = TextOf(t.fbc[t.cur_y], t.cur_x)
    BY <1>1, <1>4, RowsAre
  <2> QED BY <1>1, <2>1, NoText
<1>6. RowsOf(t) = << <<>> >>
  <2> DEFINE e == << <<>> >>
  <2>1. e \in Texts /\ Len(e) = 1 /\ e[1] = <<>>
    BY DEF Texts
  <2> HIDE DEF e
  <2>2. \A i \in 1..1 : i = 1
    OBVIOUS
  <2>3. RowsOf(t) = e
    BY SMTT(30), <1>5, <2>1, <2>2, TextsEqual
  <2> QED BY <2>3 DEF e
<1> QED BY <1>4, <1>6

(* The text is that of the context's fields alone. *)
LEMMA SameText ==
  ASSUME NEW s, NEW t, t.fbc = s.fbc, t.cur_y = s.cur_y, t.cur_x = s.cur_x,
         t.should_shift = s.should_shift
  PROVE  RowsOf(t) = RowsOf(s) /\ (Lines(s) => Lines(t))
<1>1. Pending(t) = Pending(s)
  BY DEF Pending
<1>2. Ended(t) = Ended(s)
  BY <1>1 DEF Ended
<1>3. RowsOf(t) = RowsOf(s)
  BY <1>1, <1>2 DEF RowsOf
<1>4. Lines(s) => Lines(t)
  BY <1>1, <1>2 DEF Lines
<1> QED BY <1>3, <1>4

(* A redrawn console shows its rows. *)
LEMMA Redrawn ==
  ASSUME NEW s, Good(s)
  PROVE  /\ Good(fbc_refresh(s)) /\ Pictured(fbc_refresh(s))
         /\ RowsOf(fbc_refresh(s)) = RowsOf(s) /\ (Lines(s) => Lines(fbc_refresh(s)))
<1> DEFINE d == fbc_refresh(s)
<1>1. /\ d.fbc = s.fbc /\ d.cur_y = s.cur_y /\ d.cur_x = s.cur_x
      /\ d.should_shift = s.should_shift /\ d.px = [y \in Ys |-> Drawn(s.fbc[y])]
  BY DEF fbc_refresh, Good, States
<1>2. Good(d)
  BY RefreshGood
<1> HIDE DEF d
<1>3. Pictured(d)
  BY <1>1 DEF Pictured
<1>4. RowsOf(d) = RowsOf(s) /\ (Lines(s) => Lines(d))
  BY <1>1, SameText
<1> QED BY <1>2, <1>3, <1>4 DEF d

LEMMA Cleared ==
  ASSUME NEW s, Good(s)
  PROVE  LET d == fbc_refresh_raw(fbc_clear(s))
         IN  Shown(d) /\ Pictured(d) /\ RowsOf(d) = << <<>> >>
<1> DEFINE d == fbc_refresh_raw(fbc_clear(s))
<1>1. Good(d)
  BY ClearGood, RefreshGood
<1>2. /\ d.cur_y = 0 /\ d.cur_x = 0 /\ d.fbc = [y \in Ys |-> EmptyRow]
      /\ d.px = [y \in Ys |-> [x \in Xs |-> Glyph(d.fbc[y][x])]]
  BY DEF fbc_clear, fbc_refresh_raw, Good, States
<1> HIDE DEF d
<1>3. \A y \in Ys : d.fbc[y] = EmptyRow
  BY <1>2
<1>4. Lines(d) /\ RowsOf(d) = << <<>> >>
  BY <1>1, <1>2, <1>3, GoodBoard, ClearedText
<1>5. [x \in Xs |-> Glyph(EmptyRow[x])] = BlankRow
  BY DEF EmptyRow, BlankRow, Glyph
<1>6. \A y \in Ys : d.px[y] = [x \in Xs |-> Glyph(EmptyRow[x])]
  BY <1>2, <1>3
<1>7. Pictured(d)
  BY <1>3, <1>5, <1>6, EmptyDrawn DEF Pictured
<1> QED BY <1>1, <1>4, <1>7 DEF Shown, d

(* A row is drawn as its text says. *)
LEMMA DrawnText ==
  ASSUME NEW row \in [Xs -> Cells], NEW n \in 0..ch_w, Covers(row, n), NEW x \in Xs
  PROVE  Drawn(row)[x] = IF x < Len(TextOf(row, n)) /\ TextOf(row, n)[x + 1] # NL
                         THEN TextOf(row, n)[x + 1] ELSE SPACE
<1>1. n \in Nat /\ x \in Nat
  BY ConsoleAssumption DEF Xs
<1>2. Len(TextOf(row, n)) = n /\ \A i \in 1..n : TextOf(row, n)[i] = row[i - 1]
  BY TextOfSeq
<1>3. Drawn(row)[x] = IF x < n THEN Glyph(row[x]) ELSE SPACE
  BY <1>1, DrawnCovers
<1>4. CASE x < n
  <2>1. x + 1 \in 1..n /\ x + 1 - 1 = x
    BY <1>1, <1>4
  <2>2. TextOf(row, n)[x + 1] = row[x]
    <3> DEFINE i == x + 1
    <3>1. i \in 1..n /\ i - 1 = x
      BY <1>1, <2>1
    <3> HIDE DEF i
    <3>2. TextOf(row, n)[i] = row[x]
      BY <1>2, <3>1
    <3> QED BY <3>2 DEF i
  <2>3. row[x] # NUL
    BY <1>4 DEF Covers
  <2>4. Glyph(row[x]) = IF row[x] # NL THEN row[x] ELSE SPACE
    BY <2>3 DEF Glyph
  <2> QED BY <1>2, <1>3, <1>4, <2>2, <2>4
<1>5. CASE ~(x < n)
  BY <1>2, <1>3, <1>5
<1> QED BY <1>4, <1>5

(* So is the whole console. *)
LEMMA DrawnRows ==
  ASSUME NEW s, Shown(s), Pictured(s), NEW y \in Ys, NEW x \in Xs
  PROVE  s.px[y][x] =
           IF /\ y < Len(RowsOf(s)) /\ x < Len(RowsOf(s)[y + 1])
              /\ RowsOf(s)[y + 1][x + 1] # NL
           THEN RowsOf(s)[y + 1][x + 1] ELSE SPACE
<1> DEFINE e == Ended(s)  r == RowsOf(s)
<1>1. /\ e \in 0..ch_h /\ Len(r) = e + 1
      /\ \A z \in 1..e : \A n \in 1..ch_w :
              Full(s.fbc[z - 1], n) => r[z] = TextOf(s.fbc[z - 1], n)
      /\ r[e + 1] = IF Pending(s) THEN <<>> ELSE TextOf(s.fbc[s.cur_y], s.cur_x)
  BY GoodBoard, RowsAre DEF Shown
<1>2. ch_h \in Nat /\ y \in 0..(ch_h - 1) /\ ch_w \in Nat /\ ch_w > 0
  BY ConsoleAssumption DEF Ys
<1>3. s.px[y][x] = Drawn(s.fbc[y])[x] /\ s.fbc[y] \in [Xs -> Cells]
  BY DEF Pictured, Shown, Good, States
<1> HIDE DEF r
<1>4. CASE y < e
  <2>1. y \in 0..(e - 1) /\ y + 1 \in 1..e /\ y + 1 - 1 = y /\ y < Len(r)
    BY <1>1, <1>2, <1>4
  <2>2. PICK n \in 1..ch_w : Full(s.fbc[y], n)
    BY <2>1 DEF Shown, Lines
  <2>3. r[y + 1] = TextOf(s.fbc[y], n)
    BY <1>1, <2>1, <2>2
  <2>4. n \in 0..ch_w /\ Covers(s.fbc[y], n)
    BY <1>2, <2>2 DEF Full
  <2> QED BY <1>3, <2>1, <2>3, <2>4, DrawnText DEF r
<1>5. CASE ~(y < e)
  <2>1. ~Pending(s) /\ e = s.cur_y
    BY <1>2, <1>5 DEF Ended, Pending
  <2>2. CASE y = e
    <3>1. y < Len(r) /\ r[y + 1] = TextOf(s.fbc[y], s.cur_x)
      BY <1>1, <1>2, <2>1, <2>2
    <3>2. s.cur_x \in Nat /\ s.cur_x \in 0..ch_w
      BY <1>2 DEF Shown, Good, States, Xs
    <3>3. Covers(s.fbc[y], s.cur_x)
      BY <2>1, <2>2, <3>2, OpenCovers DEF Shown, Lines
    <3> QED BY <1>3, <3>1, <3>2, <3>3, DrawnText DEF r
  <2>3. CASE y # e
    <3>1. ~(y < Len(r)) /\ y > s.cur_y
      BY <1>1, <1>2, <1>5, <2>1, <2>3
    <3>2. Covers(s.fbc[y], 0)
      BY <3>1, OpenCovers DEF Shown, Lines
    <3>3. Drawn(s.fbc[y])[x] = IF x < 0 THEN Glyph(s.fbc[y][x]) ELSE SPACE
      BY <3>2, DrawnCovers
    <3>4. ~(x < 0)
      BY DEF Xs
    <3> QED BY <1>3, <3>1, <3>3, <3>4 DEF r
  <2> QED BY <2>2, <2>3
<1> QED BY <1>4, <1>5

-----------------------------------------------------------------------------
ScreenInv == Inv /\ Lines(Text) /\ (~InCurses => Pictured(con))

LEMMA TextOfCon ==
  ASSUME NEW s
  PROVE  RowsOf(Ctx(s)) = RowsOf(s) /\ (Lines(s) <=> Lines(Ctx(s)))
<1>1. /\ Ctx(s).fbc = s.fbc /\ Ctx(s).cur_y = s.cur_y /\ Ctx(s).cur_x = s.cur_x
      /\ Ctx(s).should_shift = s.should_shift
  BY DEF Ctx
<1> QED BY <1>1, SameText

(* The picture of the text. *)
LEMMA PictureHolds == ScreenInv => PictureOfRows
<1> SUFFICES ASSUME ScreenInv, ~InCurses PROVE con.px = Promise!Picture
  BY DEF PictureOfRows
<1>1. Good(con) /\ Pictured(con) /\ Lines(Text)
  BY InvIsGood DEF ScreenInv
<1>2. Rows = RowsOf(con) /\ Lines(con)
  BY <1>1, TextOfCon DEF Rows, Text
<1>3. \A y \in Ys : \A x \in Xs :
         con.px[y][x] = IF y < Len(Rows) /\ x < Len(Rows[y + 1]) /\ Rows[y + 1][x + 1] # NL
                        THEN Rows[y + 1][x + 1] ELSE SPACE
  BY <1>1, <1>2, DrawnRows DEF Shown
<1> DEFINE cell(y, x) == IF y < Len(Rows) /\ x < Len(Rows[y + 1]) /\ Rows[y + 1][x + 1] # NL
                         THEN Rows[y + 1][x + 1] ELSE SPACE
<1>4. Promise!Picture = [y \in Ys |-> [x \in Xs |-> cell(y, x)]]
  BY DEF Promise!Picture, Xs, Ys
<1>5. con.px \in [Ys -> [Xs -> Visible \union {SPACE}]]
  BY <1>1 DEF Good, States
<1>6. \A y \in Ys : \A x \in Xs : con.px[y][x] = cell(y, x)
  BY <1>3
<1> HIDE DEF cell
<1>7. ASSUME NEW y \in Ys PROVE con.px[y] = [x \in Xs |-> cell(y, x)]
  <2>1. con.px[y] = [x \in Xs |-> con.px[y][x]]
    BY <1>5
  <2> QED BY <1>6, <2>1
<1>8. con.px = [y \in Ys |-> con.px[y]]
  BY <1>5
<1> QED BY <1>4, <1>7, <1>8

(* An empty console is an empty text. *)
LEMMA ScreenStarts == Init => ScreenInv /\ Promise!Init
<1> SUFFICES ASSUME Init PROVE ScreenInv /\ Promise!Init
  OBVIOUS
<1>1. Inv /\ Good(con)
  BY InitInv, InvIsGood
<1>2. con = fbc_init /\ ~InCurses
  BY DEF Init, InCurses
<1>3. con.cur_y = 0 /\ con.cur_x = 0 /\ \A y \in Ys : con.fbc[y] = EmptyRow /\ con.px[y] = BlankRow
  BY <1>2 DEF fbc_init
<1>4. Lines(con) /\ RowsOf(con) = << <<>> >>
  BY <1>1, <1>3, GoodBoard, ClearedText
<1>5. Lines(Text) /\ Rows = << <<>> >>
  BY <1>2, <1>4, TextOfCon DEF Text, Rows
<1>6. Pictured(con)
  BY <1>3, EmptyDrawn DEF Pictured
<1> QED BY <1>1, <1>5, <1>6 DEF ScreenInv, Promise!Init

(* A printed character and a clear are steps of the promise. *)
LEMMA TypedIsPromised ==
  ASSUME NEW c \in Printing, c = BS => Promise!Erasable(Rows), Rows' = Promise!After(Rows, c)
  PROVE  [Promise!Next]_Rows
<1>1. CASE Rows' = Rows
  BY <1>1
<1>2. CASE Rows' # Rows
  <2>1. c \in Visible \union {NL, TAB, BS, CR, SPACE}
    BY DEF Printing
  <2>2. Promise!Type(c)
    BY DEF Promise!Type
  <2> QED BY <1>2, <2>1, <2>2, Zenon DEF Promise!Next
<1> QED BY <1>1, <1>2

LEMMA ClearIsPromised ==
  ASSUME Rows' = << <<>> >>
  PROVE  [Promise!Next]_Rows
<1>1. CASE Rows' = Rows
  BY <1>1
<1>2. CASE Rows' # Rows
  <2>1. Promise!Clear
    BY DEF Promise!Clear
  <2> QED BY <1>2, <2>1, Zenon DEF Promise!Next
<1> QED BY <1>1, <1>2

(* Every step is one of the text, or nothing to it. *)
LEMMA ScreenSteps == ScreenInv /\ [Next]_vars => ScreenInv' /\ [Promise!Next]_Rows
<1> SUFFICES ASSUME ScreenInv, [Next]_vars PROVE ScreenInv' /\ [Promise!Next]_Rows
  OBVIOUS
<1>1. Inv' /\ Good(con) /\ OldGood /\ Lines(Text) /\ (~InCurses => Pictured(con))
  BY NextInv, InvIsGood DEF ScreenInv
<1>2. ~InCurses => Text = Ctx(con) /\ Shown(con) /\ Rows = RowsOf(con)
  BY <1>1, TextOfCon DEF Text, Rows, Shown
<1>3. InCurses => Text = old_ctx
  BY DEF Text
(* On the shell's console again, or still. *)
<1>4. ASSUME old_ctx' = NULL, Lines(con'), Pictured(con')
      PROVE  ScreenInv' /\ Rows' = RowsOf(con')
  <2>1. ~InCurses' /\ Text' = Ctx(con')
    BY <1>4 DEF Text, InCurses
  <2>2. Lines(Text') /\ RowsOf(Text') = RowsOf(con')
    BY <1>4, <2>1, TextOfCon
  <2> QED BY <1>1, <1>4, <2>1, <2>2 DEF ScreenInv, Rows, Pictured
(* What leaves the text alone. *)
<1>5. ASSUME Text' = Text, InCurses' PROVE ScreenInv' /\ [Promise!Next]_Rows
  <2>1. Rows' = Rows
    BY <1>5 DEF Rows
  <2>2. Lines(Text')
    BY <1>1, <1>5
  <2> QED BY <1>1, <1>5, <2>1, <2>2 DEF ScreenInv
<1>6. ASSUME InCurses, UNCHANGED old_ctx PROVE ScreenInv' /\ [Promise!Next]_Rows
  <2>1. InCurses' /\ Text' = Text
    BY <1>6 DEF InCurses, Text
  <2> QED BY <1>5, <2>1
<1>7. ASSUME NEW c \in Printing, PrintChar(c) PROVE ScreenInv' /\ [Promise!Next]_Rows
  <2>1. /\ ~InCurses /\ old_ctx' = NULL /\ con' = fbc_putchar(con, c)
        /\ c = BS => Promise!Erasable(Rows)
    BY <1>7 DEF PrintChar, InCurses
  <2>2. c = BS => Promise!Erasable(RowsOf(con))
    BY <1>2, <2>1
  <2>3. /\ Shown(con') /\ RowsOf(con') = Promise!After(RowsOf(con), c) /\ Pictured(con')
    BY <1>1, <1>2, <2>1, <2>2, PutcharShown
  <2>4. ScreenInv' /\ Rows' = Promise!After(Rows, c)
    BY <1>2, <1>4, <2>1, <2>3 DEF Shown
  <2> QED BY <2>1, <2>4, TypedIsPromised
<1>8. CASE Clear
  <2>1. old_ctx' = NULL /\ con' = fbc_refresh_raw(fbc_clear(con))
    BY <1>8 DEF Clear, InCurses
  <2>2. Shown(con') /\ Pictured(con') /\ RowsOf(con') = << <<>> >>
    BY <1>1, <2>1, Cleared
  <2>3. ScreenInv' /\ Rows' = << <<>> >>
    BY <1>4, <2>1, <2>2 DEF Shown
  <2> QED BY <2>3, ClearIsPromised
<1>9. CASE Refresh
  <2>1. ~InCurses /\ old_ctx' = NULL /\ con' = fbc_refresh(con)
    BY <1>9 DEF Refresh, InCurses
  <2>2. Lines(con') /\ Pictured(con') /\ RowsOf(con') = RowsOf(con)
    BY <1>1, <1>2, <2>1, Redrawn DEF Shown
  <2>3. ScreenInv' /\ Rows' = Rows
    BY <1>2, <1>4, <2>1, <2>2
  <2> QED BY <2>3
<1>10. CASE initscr
  <2>1. ~InCurses /\ old_ctx' = Ctx(con)
    BY <1>10 DEF initscr
  <2>2. Ctx(con) \in Contexts
    BY <1>1 DEF Good, States, Contexts, Ctx
  <2>3. InCurses'
    BY <2>1, <2>2, CursesAssumption DEF InCurses
  <2>4. Text' = Text
    BY <1>2, <2>1, <2>3 DEF Text
  <2> QED BY <1>5, <2>3, <2>4
<1>11. CASE endwin
  <2> DEFINE s == [fbc |-> old_ctx.fbc, cur_y |-> old_ctx.cur_y, cur_x |-> old_ctx.cur_x,
                   should_shift |-> old_ctx.should_shift, px |-> con.px]
  <2>1. InCurses /\ con' = fbc_refresh(s) /\ old_ctx' = NULL
    BY <1>11 DEF endwin
  <2>2. Good(s)
    BY <1>1, <2>1 DEF Good, OldGood, States, Contexts
  <2>3. /\ s.fbc = old_ctx.fbc /\ s.cur_y = old_ctx.cur_y /\ s.cur_x = old_ctx.cur_x
        /\ s.should_shift = old_ctx.should_shift
    OBVIOUS
  <2> HIDE DEF s
  <2>4. RowsOf(s) = RowsOf(old_ctx) /\ Lines(s)
    BY <1>1, <1>3, <2>1, <2>3, SameText
  <2>5. Lines(con') /\ Pictured(con') /\ RowsOf(con') = RowsOf(s)
    BY <2>1, <2>2, <2>4, Redrawn
  <2>6. ScreenInv' /\ Rows' = Rows
    <3>1. Rows = RowsOf(old_ctx)
      BY <1>3, <2>1 DEF Rows
    <3> QED BY <1>4, <2>1, <2>4, <2>5, <3>1
  <2> QED BY <2>6
<1>12. ASSUME NEW at \in Positions, move(at[1], at[2]) PROVE ScreenInv' /\ [Promise!Next]_Rows
  BY <1>6, <1>12 DEF move, Calls
<1>13. ASSUME NEW c \in Visible \union {SPACE}, addch(c) PROVE ScreenInv' /\ [Promise!Next]_Rows
  BY <1>6, <1>13 DEF addch, Calls
<1>14. CASE clrtoeol
  BY <1>6, <1>14 DEF clrtoeol, Calls
<1>15. CASE refresh
  BY <1>6, <1>15 DEF refresh, Calls
<1>16. CASE UNCHANGED vars
  <2>1. con' = con /\ old_ctx' = old_ctx
    BY <1>16 DEF vars
  <2>2. Text' = Text /\ InCurses' = InCurses
    BY <2>1 DEF Text, InCurses
  <2>3. Rows' = Rows
    BY <2>2 DEF Rows
  <2>4. Lines(Text') /\ (~InCurses' => Pictured(con'))
    BY <1>1, <2>1, <2>2
  <2> QED BY <1>1, <2>3, <2>4 DEF ScreenInv, Pictured
<1> QED BY <1>7, <1>8, <1>9, <1>10, <1>11, <1>12, <1>13, <1>14, <1>15, <1>16 DEF Next

(* What is drawn character by character, by shifting and by redrawing at   *)
(* the end of a curses program is the picture of the text's last rows, on  *)
(* consoles of every size (framebuffer_console.c).                         *)
THEOREM PictureShown == Spec => []PictureOfRows
BY ScreenStarts, ScreenSteps, PictureHolds, PTL DEF Spec

(* The console holds the last rows of what was printed, whatever the       *)
(* characters, the clears and redraws, and the curses programs in between. *)
THEOREM ConsoleIsScreen == Spec => IsScreen
<1>1. ScreenInv /\ [Next]_vars => ScreenInv' /\ [Promise!Next]_Rows
  BY ScreenSteps
<1> QED BY ScreenStarts, <1>1, PTL DEF Spec, IsScreen, Promise!Spec
=============================================================================
