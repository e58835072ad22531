------------------------------ MODULE Keyboard ------------------------------
(***************************************************************************)
(* The PS/2 keyboard of src/kernel/keyboard.c: the interrupt handler       *)
(* kb_handler, which keeps the state of the keys and gathers characters,   *)
(* and kb_getchar, which a program spins in until there is one.            *)
(*                                                                         *)
(* The handler sits behind an interrupt gate and is one step.  It may run  *)
(* between any two memory accesses of kb_getchar, whose accesses are a     *)
(* step each, in the order of the source; getchar_buf_pos is no volatile   *)
(* and gcc -O2 (config.mk) loads it once per call, as p here.              *)
(*                                                                         *)
(* An interrupt with nothing in the controller's buffer changes nothing.   *)
(*                                                                         *)
(* A definition that stands just before another, with its parameters, and  *)
(* that nothing uses, is what a bug would make of it: PROJECT.json names   *)
(* the property that would notice.                                         *)
(***************************************************************************)
EXTENDS Integers, FiniteSets, SequencesExt, Bags

CONSTANTS
  Keys,          \* the key codes of the keys that are used
  Shifts,        \* those of cur_layout->special for the two shift keys
  CapsLock,      \* and for caps lock
  Layouts,       \* [def, shift]: what a key gives in each keyboard layout
  us_layout,     \* the one the kernel starts with
  NL, BS, TAB,   \* the characters '\n', '\b' and '\t',
  SPACE, Nul,    \* ' ' and 0
  Prompt,        \* the last character a program prints before it reads
  EOF,           \* what an empty cell of getchar_buf holds
  BufSz,         \* KB_GETCHAR_BUFSZ
  Modes,         \* the [raw, echo] settings programs read in
  Typists,       \* who types, see below
  MaxRow         \* bound: the length of the row typed in

CharsOf(k) == {l.def[k] : l \in Layouts} \union {l.shift[k] : l \in Layouts}
Chars      == UNION {CharsOf(k) : k \in Keys}

ASSUME KeyboardAssumption ==
  /\ Shifts \subseteq Keys
  /\ us_layout \in Layouts
  /\ {EOF, Prompt} \intersect Chars = {}
  /\ NL # BS /\ TAB \notin {NL, BS, Prompt}
  /\ BufSz \in Nat \ {0}
  /\ Modes \subseteq [raw : BOOLEAN, echo : BOOLEAN]
  /\ Typists \subseteq [patient : BOOLEAN, keys : SUBSET Keys, layouts : SUBSET Layouts,
                         fingers : Nat, ahead : Nat]
  /\ MaxRow \in Nat

(* Who types: a patient typist presses a key once the program has drained  *)
(* what there is, another whenever he likes.  Either uses some keys and    *)
(* layouts, and (bounds) has so many fingers, and types so many characters *)
(* ahead of the program.                                                   *)
VARIABLES
  typist,
  down,              \* the keys that are down, whatever the code thinks
  key_flags,         \* the characters with KB_FLAG_PRESSED
  shift_held, capslock_on, cur_layout,
  print_chars, wait_for_eol,
  getting_char,
  getchar_buf, getchar_buf_pos,
  line,              \* getchar_line_buf up to getchar_line_buf_pos
  screen,            \* the row of the console the user types in
  tab_erased,        \* whether a tab was taken back in it
  pc,                \* where the program is; "run" is outside kb_getchar
  p,                 \* the index kb_getchar works with
  c                  \* the character it returns

keys  == <<typist, down, key_flags, shift_held, capslock_on, cur_layout>>
modes == <<print_chars, wait_for_eol>>
bufs  == <<getchar_buf, getchar_buf_pos, line, screen, tab_erased>>
prog  == <<getting_char, pc, p, c>>
vars  == <<keys, modes, bufs, prog>>

Stopped == pc \in {"panic", "broken"}

-----------------------------------------------------------------------------
(* The static initialisers and kb_getchar_init. *)
Init ==
  /\ typist \in Typists
  /\ down = {} /\ key_flags = {}
  /\ shift_held = FALSE /\ capslock_on = FALSE
  /\ cur_layout = us_layout
  /\ print_chars = TRUE /\ wait_for_eol = TRUE
  /\ getting_char = FALSE
  /\ getchar_buf = [i \in 0..(BufSz - 1) |-> EOF] /\ getchar_buf_pos = 0
  /\ line = <<>>
  /\ screen = <<>> /\ tab_erased = FALSE
  /\ pc = "run" /\ p = 0 /\ c = EOF

-----------------------------------------------------------------------------
(* putchar, as the console shows it: '\t' is one to four spaces, '\b' takes *)
(* back the character before the cursor, whoever printed it.               *)
FBC_TABSIZE == 4

TabToStop(col) == (FBC_TABSIZE - (col % FBC_TABSIZE)) % FBC_TABSIZE
tabs_needed(col) == FBC_TABSIZE - (col % FBC_TABSIZE)

Printed(row, ch) ==
  CASE ch = NL  -> <<>>
    [] ch = TAB -> row \o [i \in 1..tabs_needed(Len(row)) |-> SPACE]
    [] ch = BS  -> IF row = <<>> THEN <<>> ELSE Front(row)
    [] OTHER    -> Append(row, ch)
Echo(ch) == screen' = (IF print_chars THEN Printed(screen, ch) ELSE screen) /\ UNCHANGED tab_erased

(* Raw mode: straight to getchar_buf, whose end is not looked at. *)
StoreRaw(ch) ==
  IF getchar_buf_pos < BufSz
  THEN /\ getchar_buf' = [getchar_buf EXCEPT ![getchar_buf_pos] = ch]
       /\ getchar_buf_pos' = getchar_buf_pos + 1
       /\ Echo(ch)
       /\ UNCHANGED <<line, pc>>
  ELSE pc' = "broken" /\ UNCHANGED bufs

EndLineKeepsLine ==
  /\ getchar_buf' = [i \in 0..(BufSz - 1) |->
                       IF i < Len(line) THEN line[i + 1]
                       ELSE IF i = Len(line) THEN NL
                       ELSE getchar_buf[i]]
  /\ getchar_buf_pos' = 0
  /\ screen' = Printed(screen, NL) /\ tab_erased' = FALSE
  /\ UNCHANGED line

(* The line goes to getchar_buf, over whatever is left there. *)
EndLine ==
  /\ getchar_buf' = [i \in 0..(BufSz - 1) |->
                       IF i < Len(line) THEN line[i + 1]
                       ELSE IF i = Len(line) THEN NL
                       ELSE getchar_buf[i]]
  /\ getchar_buf_pos' = 0
  /\ line' = <<>>
  /\ screen' = Printed(screen, NL) /\ tab_erased' = FALSE

BackspaceAlways ==
  /\ line' = IF line = <<>> THEN line ELSE Front(line)
  /\ screen' = Printed(screen, BS)
  /\ tab_erased' = (tab_erased \/ (line # <<>> /\ Last(line) = TAB))
  /\ UNCHANGED <<getchar_buf, getchar_buf_pos>>

Backspace ==
  /\ line' = IF line = <<>> THEN line ELSE Front(line)
  /\ screen' = IF line = <<>> THEN screen ELSE Printed(screen, BS)
  /\ tab_erased' = (tab_erased \/ (line # <<>> /\ Last(line) = TAB))
  /\ UNCHANGED <<getchar_buf, getchar_buf_pos>>

AddToLine(ch) ==
  /\ line' = Append(line, ch)
  /\ Echo(ch)
  /\ UNCHANGED <<getchar_buf, getchar_buf_pos>>

(* Line mode: to the line buffer, which panics when it is full. *)
StoreLine(ch) ==
  \/ Len(line) >= BufSz /\ pc' = "panic" /\ UNCHANGED bufs
  \/ /\ Len(line) < BufSz
     /\ \/ ch = NL /\ EndLine
        \/ ch = BS /\ Backspace
        \/ ch \notin {NL, BS} /\ AddToLine(ch)
     /\ UNCHANGED pc

(* The second half of kb_handler: what a pressed key's character does. *)
InputAnyTime(ch) ==
  IF ch = Nul THEN UNCHANGED <<bufs, pc>>
  ELSE IF ~wait_for_eol THEN StoreRaw(ch)
  ELSE StoreLine(ch)
Input(ch) ==
  IF ch = Nul \/ ~getting_char THEN UNCHANGED <<bufs, pc>>
  ELSE IF ~wait_for_eol THEN StoreRaw(ch)
  ELSE StoreLine(ch)

check_special(released, k) ==
  /\ shift_held' = IF k \in Shifts THEN ~released ELSE shift_held
  /\ capslock_on' = IF k = CapsLock /\ ~released THEN ~capslock_on ELSE capslock_on

(* The character of key k, by get_layout, once check_special has run. *)
FinalKey(k) == IF capslock_on' \/ shift_held' THEN cur_layout.shift[k] ELSE cur_layout.def[k]

FlaggedWhenAsked(ch) == IF getting_char THEN key_flags \union {ch} ELSE key_flags
Flagged(ch)          == key_flags \union {ch}

(* The characters that are stored and not read. *)
Ahead == Len(line) + Cardinality({i \in 0..(BufSz - 1) : getchar_buf[i] # EOF})

Arrives ==
  /\ ~Stopped
  /\ typist.patient => pc = "run" \/ (pc = "spin" /\ getchar_buf[p] = EOF)

(* kb_handler for the make code of key k.  The keyboard repeats it while   *)
(* the key is down.                                                        *)
Press(k) ==
  /\ Arrives /\ k \in typist.keys
  /\ Cardinality(down \union {k}) <= typist.fingers
  /\ down' = down \union {k}
  /\ check_special(FALSE, k)
  /\ key_flags' = Flagged(FinalKey(k))
  /\ Input(FinalKey(k)) /\ Len(screen') <= MaxRow /\ Ahead' <= typist.ahead
  /\ UNCHANGED <<typist, cur_layout, modes, getting_char, p, c>>

(* kb_handler for the break code of key k. *)
Release(k) ==
  /\ Arrives
  /\ k \in down
  /\ down' = down \ {k}
  /\ check_special(TRUE, k)
  /\ key_flags' = key_flags \ {FinalKey(k)}
  /\ UNCHANGED <<typist, cur_layout, modes, bufs, prog>>

-----------------------------------------------------------------------------
(* kb_raw, kb_noraw, kb_echo and kb_noecho, which programs call in pairs.  *)
SetMode(m) ==
  /\ pc = "run"
  /\ wait_for_eol' = ~m.raw
  /\ print_chars' = m.echo
  /\ UNCHANGED <<keys, bufs, prog>>

(* kb_setlayout, by the shell's keyboard command. *)
SetLayout(l) ==
  /\ pc = "run" /\ l \in typist.layouts
  /\ cur_layout' = l
  /\ UNCHANGED <<typist, down, key_flags, shift_held, capslock_on, modes, bufs, prog>>

(* The program has printed what it had to say and calls kb_getchar. *)
Call ==
  /\ pc = "run"
  /\ [raw |-> ~wait_for_eol, echo |-> print_chars] \in Modes
  /\ getting_char' = TRUE
  /\ pc' = "point"
  /\ screen' = <<Prompt>> /\ tab_erased' = FALSE
  /\ UNCHANGED <<keys, modes, getchar_buf, getchar_buf_pos, line, p, c>>

(* tmp = &getchar_buf[getchar_buf_pos] *)
Point ==
  /\ pc = "point"
  /\ p' = getchar_buf_pos
  /\ pc' = "spin"
  /\ UNCHANGED <<keys, modes, bufs, getting_char, c>>

(* The spin ends, c is read.  p is outside when raw keys filled the buffer.*)
Take ==
  /\ pc = "spin"
  /\ IF p = BufSz
     THEN pc' = "broken" /\ UNCHANGED c
     ELSE /\ getchar_buf[p] # EOF
          /\ c' = getchar_buf[p]
          /\ pc' = "erase"
  /\ UNCHANGED <<keys, modes, bufs, getting_char, p>>

Erase ==
  /\ pc = "erase"
  /\ getchar_buf' = [getchar_buf EXCEPT ![p] = EOF]
  /\ pc' = "advance"
  /\ UNCHANGED <<keys, modes, getchar_buf_pos, line, screen, tab_erased, getting_char, p, c>>

(* ++getchar_buf_pos *)
Advance ==
  /\ pc = "advance"
  /\ getchar_buf_pos' = p + 1
  /\ pc' = "peek"
  /\ UNCHANGED <<keys, modes, getchar_buf, line, screen, tab_erased, getting_char, p, c>>

PeekAndReset ==
  /\ pc = "peek"
  /\ pc' = "reset"
  /\ UNCHANGED <<keys, modes, bufs, getting_char, p, c>>

(* getchar_buf[p + 1] == EOF; after a line as long as the buffer this is   *)
(* whatever variable comes next in memory.                                 *)
Peek ==
  /\ pc = "peek"
  /\ pc' = IF p + 1 = BufSz THEN "broken"
           ELSE IF getchar_buf[p + 1] = EOF THEN "reset" ELSE "return"
  /\ UNCHANGED <<keys, modes, bufs, getting_char, p, c>>

ResetForgotten ==
  /\ pc = "reset"
  /\ pc' = "return"
  /\ UNCHANGED <<keys, modes, bufs, getting_char, p, c>>

Reset ==
  /\ pc = "reset"
  /\ getchar_buf_pos' = 0
  /\ pc' = "return"
  /\ UNCHANGED <<keys, modes, getchar_buf, line, screen, tab_erased, getting_char, p, c>>

Return ==
  /\ pc = "return"
  /\ getting_char' = FALSE
  /\ pc' = "run"
  /\ UNCHANGED <<keys, modes, bufs, p, c>>

GetChar == Point \/ Take \/ Erase \/ Advance \/ Peek \/ Reset \/ Return

Next ==
  \/ \E k \in Keys : Press(k)
  \/ \E k \in Keys : Release(k)
  \/ \E m \in Modes : SetMode(m)
  \/ \E l \in Layouts : SetLayout(l)
  \/ Call
  \/ GetChar

(* The program runs on and reads again; nobody has to press a key. *)
Spec == Init /\ [][Next]_vars /\ WF_vars(Call) /\ WF_vars(GetChar)

-----------------------------------------------------------------------------
TypeOK ==
  /\ typist \in Typists
  /\ down \subseteq Keys
  /\ key_flags \subseteq Chars
  /\ {shift_held, capslock_on, print_chars, tab_erased, wait_for_eol, getting_char} \subseteq BOOLEAN
  /\ cur_layout \in Layouts
  /\ getchar_buf \in [0..(BufSz - 1) -> Chars \union {EOF}]
  /\ getchar_buf_pos \in 0..BufSz
  /\ line \in Seq(Chars \ {NL, BS}) /\ Len(line) <= BufSz
  /\ screen \in Seq(Chars \union {Prompt, SPACE})
  /\ pc \in {"run", "point", "spin", "erase", "advance", "peek", "reset", "return",
             "panic", "broken"}
  /\ p \in 0..BufSz
  /\ c \in Chars \union {EOF}

(* The handler prints only while the program is inside kb_getchar: the     *)
(* console, which is not reentrant, never has two writers.                 *)
PrintsAlone == [][pc = "run" /\ pc' = "run" => UNCHANGED screen]_vars

(* A key that is down is held under one of its characters, whatever shift, *)
(* caps lock and the layout did since it went down - provided no other key *)
(* gives one of them.                                                      *)
DownMeansHeld ==
  \A k \in down \ {j \in Keys : \E i \in Keys \ {j} : CharsOf(i) \intersect CharsOf(j) # {}} :
    CharsOf(k) \intersect key_flags # {}

(* While a line is typed with echo, the screen shows the line: '\b' takes  *)
(* back what was typed and never the program's prompt.  Only where a tab   *)
(* was erased, of which one '\b' takes back one space, the screen shows    *)
(* too much; even then all of the line is there, in order, and of each tab *)
(* a space at least.                                                       *)
Shown(text) ==
  LET shown[n \in 0..Len(text)] == IF n = 0 THEN <<Prompt>> ELSE Printed(shown[n - 1], text[n])
  IN  shown[Len(text)]

ShowsAll(row, text) ==
  \E at \in [DOMAIN text -> DOMAIN row] :
    \A i \in DOMAIN text :
      /\ row[at[i]] = IF text[i] = TAB THEN SPACE ELSE text[i]
      /\ \A j \in 1..(i - 1) : at[j] < at[i]

ScreenShowsLine ==
  typist.patient /\ pc = "spin" /\ wait_for_eol /\ getchar_buf[p] = EOF =>
    IF tab_erased THEN ShowsAll(screen, <<Prompt>> \o line) ELSE screen = Shown(line)

(* To a program that reads faster than keys come, the keyboard is a        *)
(* terminal: a queue of lines, or of keys in raw mode, in typing order.    *)
(* A character leaves the queue when kb_getchar reads it.                  *)
Unread ==
  LET from == IF pc \in {"run", "point"} THEN getchar_buf_pos
              ELSE IF pc = "spin" THEN p ELSE p + 1
      till == CHOOSE i \in from..BufSz :
                /\ i = BufSz \/ getchar_buf[i] = EOF
                /\ \A j \in from..(i - 1) : getchar_buf[j] # EOF
  IN  [i \in 1..(till - from) |-> getchar_buf[from + i - 1]]
Device == INSTANCE Terminal WITH
  raw <- ~wait_for_eol, edit <- line, ready <- Unread, ret <- c, off <- Stopped
IsTerminal ==
  /\ typist.patient => Device!Init
  /\ [][typist.patient => ~Stopped /\ Device!Next]_<<~wait_for_eol, line, Unread, c, Stopped>>

(* Whenever keys come: what kb_getchar returns was typed, is returned at   *)
(* most once and - in line mode - only after its line has ended and unless *)
(* it was erased.  Keys may be lost and overtake each other.               *)
InBuffer ==
  LET full  == {i \in 0..(BufSz - 1) : getchar_buf[i] # EOF /\ ~(pc = "erase" /\ i = p)}
      cells(ch) == {i \in full : getchar_buf[i] = ch}
  IN  [ch \in {getchar_buf[i] : i \in full} |-> Cardinality(cells(ch))]
Lossy == INSTANCE LossyTerminal WITH
  raw <- ~wait_for_eol, edit <- line, ready <- InBuffer, ret <- c, off <- Stopped
IsLossyTerminal == Lossy!Spec

(* A program that goes on reading, and faster than keys come, gets all     *)
(* that was typed.                                                         *)
AllRead == typist.patient /\ InBuffer # EmptyBag ~> InBuffer = EmptyBag \/ Stopped

-----------------------------------------------------------------------------
(* What the comments say, and the code does not do.                        *)

(* "bit 0 of key_flags['c'] will be 1 if that key is pressed": with no key *)
(* down, none is held.                                                     *)
HeldMeansDown == down = {} => key_flags = {}

(* "Max length of an input line" is KB_GETCHAR_BUFSZ: reading such a line  *)
(* stays inside getchar_buf.                                               *)
InBounds == pc # "broken"

=============================================================================
