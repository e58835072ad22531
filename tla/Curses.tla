------------------------------- MODULE Curses -------------------------------
(***************************************************************************)
(* The console as it is used: the shell and its commands print, and now    *)
(* and then a curses program (5x5, minesweeper) takes the screen, between  *)
(* initscr and endwin, on a context of its own (src/libk/curses.c).        *)
(*                                                                         *)
(* One program runs at a time and the keyboard handler prints only while   *)
(* that program waits in kb_getchar (Keyboard!PrintsAlone), so that each   *)
(* call is one step.                                                       *)
(***************************************************************************)
EXTENDS Console, Sequences

CONSTANTS
  NULL,
  Positions,   \* bound: where curses programs move to
  MaxCalls     \* bound: the calls one makes between initscr and endwin

Cells == Visible \union {NL, SPACE, NUL}
Contexts == [fbc : [Ys -> [Xs -> Cells]], cur_y : Ys, cur_x : Xs, should_shift : BOOLEAN]

ASSUME CursesAssumption ==
  /\ NULL \notin Contexts
  /\ Positions \subseteq Nat \X Nat
  /\ MaxCalls \in Nat

VARIABLES
  con,       \* the current context and the picture, as in Console
  old_ctx,   \* stdscr->old_ctx while a curses program runs, or NULL
  calls      \* how many calls it made

vars == <<con, old_ctx, calls>>

InCurses == old_ctx # NULL
Ctx(s) == [fbc |-> s.fbc, cur_y |-> s.cur_y, cur_x |-> s.cur_x, should_shift |-> s.should_shift]

Printing == Visible \union {NL, TAB, BS, CR, SPACE}

Init == con = fbc_init /\ old_ctx = NULL /\ calls = 0

-----------------------------------------------------------------------------
(* The context that programs in line mode print on. *)
Text == IF InCurses THEN old_ctx ELSE Ctx(con)

(* The text of a row: up to its newline, or all of it. *)
TextEnd(row) ==
  CHOOSE n \in 1..ch_w :
    /\ n = ch_w \/ row[n - 1] = NL
    /\ \A x \in 0..(n - 2) : row[x] # NL
TextOf(row, n) == [i \in 1..n |-> row[i - 1]]

(* should_shift stays true over a clear, and means nothing then.           *)
Pending(t) == t.should_shift /\ t.cur_y = ch_h - 1
Ended(t)   == IF Pending(t) THEN ch_h ELSE t.cur_y

RowsOf(t) ==
  [y \in 1..(Ended(t) + 1) |->
     IF y <= Ended(t) THEN TextOf(t.fbc[y - 1], TextEnd(t.fbc[y - 1]))
     ELSE IF Pending(t) THEN <<>>
     ELSE TextOf(t.fbc[t.cur_y], t.cur_x)]
Rows == RowsOf(Text)

Promise == INSTANCE Screen WITH
  Height <- ch_h, Width <- ch_w, TabSize <- FBC_TABSIZE, rows <- Rows

(* putchar, from printf, from the shell or from the keyboard's echo.  Only *)
(* the echo prints a '\b', for a character that was typed.                 *)
PrintChar(c) ==
  /\ ~InCurses
  /\ c = BS => Promise!Erasable(Rows)
  /\ con' = fbc_putchar(con, c)
  /\ UNCHANGED <<old_ctx, calls>>

(* The shell's commands clear and ref. *)
Clear ==
  /\ ~InCurses
  /\ con' = fbc_refresh_raw(fbc_clear(con))
  /\ UNCHANGED <<old_ctx, calls>>

Refresh ==
  /\ ~InCurses
  /\ con' = fbc_refresh(con)
  /\ UNCHANGED <<old_ctx, calls>>

-----------------------------------------------------------------------------
(* The new context comes from malloc and should_shift is not assigned.     *)
initscr ==
  /\ ~InCurses
  /\ old_ctx' = Ctx(con) /\ UNCHANGED calls
  /\ \E shift \in BOOLEAN :
       con' = fbc_refresh_raw(fbc_clear([con EXCEPT !.should_shift = shift]))

endwin_raw ==
  /\ InCurses
  /\ con' = fbc_refresh_raw(
              [fbc |-> old_ctx.fbc, cur_y |-> old_ctx.cur_y, cur_x |-> old_ctx.cur_x,
               should_shift |-> old_ctx.should_shift, px |-> con.px])
  /\ old_ctx' = NULL /\ calls' = 0

endwin ==
  /\ InCurses
  /\ con' = fbc_refresh(
              [fbc |-> old_ctx.fbc, cur_y |-> old_ctx.cur_y, cur_x |-> old_ctx.cur_x,
               should_shift |-> old_ctx.should_shift, px |-> con.px])
  /\ old_ctx' = NULL /\ calls' = 0

Calls == InCurses /\ calls < MaxCalls /\ calls' = calls + 1 /\ UNCHANGED old_ctx

(* A position past the window is brought back to its edge.                 *)
move(y, x) ==
  /\ Calls
  /\ con' = [con EXCEPT !.cur_y = IF y >= ch_h THEN ch_h - 1 ELSE y,
                        !.cur_x = IF x >= ch_w THEN ch_w - 1 ELSE x]

addch(c) ==
  /\ Calls
  /\ con' = fbc_putchar(con, c)

clrtoeol ==
  /\ Calls
  /\ con' = fbc_clrtoeol(con)

refresh ==
  /\ Calls
  /\ con' = fbc_refresh_raw(con)

Next ==
  \/ \E c \in Printing : PrintChar(c)
  \/ Clear
  \/ Refresh
  \/ initscr
  \/ \E at \in Positions : move(at[1], at[2])
  \/ \E c \in Visible \union {SPACE} : addch(c)
  \/ clrtoeol
  \/ refresh
  \/ endwin

Spec == Init /\ [][Next]_vars

-----------------------------------------------------------------------------
States   == [fbc : [Ys -> [Xs -> Cells]], cur_y : Ys, cur_x : Xs, should_shift : BOOLEAN,
             px : [Ys -> [Xs -> Visible \union {SPACE}]]]

(* The cursor never leaves the console, whatever is printed.               *)
TypeOK ==
  /\ con \in States
  /\ old_ctx \in Contexts \union {NULL}
  /\ calls \in 0..MaxCalls

(* Every row of every context has a character in its first column, on      *)
(* which the search of '\b' for the end of the row above stops: its        *)
(* unsigned column would wrap below 0.                                     *)
RowsHaveText ==
  \A y \in Ys : con.fbc[y][0] # NUL /\ (InCurses => old_ctx.fbc[y][0] # NUL)

(* Whatever is printed, shifted, cleared, or run in between, the console   *)
(* holds the last rows of the text: a curses program leaves no trace.      *)
IsScreen == Promise!Spec

(* What is drawn character by character, by shifting and by redrawing when *)
(* a curses program ends, is the picture of those rows.                    *)
PictureOfRows == ~InCurses => con.px = Promise!Picture
=============================================================================
