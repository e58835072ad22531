--------------------------- MODULE KeyboardProofs ---------------------------
(***************************************************************************)
(* For every set of keys, every layout and every size of the buffers:      *)
(*   - the types of Keyboard's variables, with them that every index lies  *)
(*     in its buffer except where the model says "broken";                 *)
(*   - the handler and the program never print at the same time;           *)
(*   - a key that is down is held under one of its characters;             *)
(*   - to a patient typist the keyboard is a Terminal, and the screen      *)
(*     shows the line he types;                                            *)
(*   - whenever keys come it is a LossyTerminal.                           *)
(***************************************************************************)
EXTENDS Keyboard, SequenceTheorems, FiniteSetTheorems, WellFoundedInduction, TLAPS

(* What TypeOK needs to be inductive: kb_getchar has looked at the cell    *)
(* whose neighbour it goes on to; and what PrintsAlone rests on.           *)
Inv ==
  /\ TypeOK
  /\ pc \in {"erase", "advance", "peek", "reset", "return"} => p < BufSz
  /\ pc = "run" => ~getting_char

-----------------------------------------------------------------------------
(* What a key gives is a character, in any layout, with shift or without.  *)
LEMMA FinalKeyType ==
  ASSUME NEW k \in Keys, cur_layout \in Layouts
  PROVE  FinalKey(k) \in Chars
BY DEF FinalKey, Chars, CharsOf

(* Printing a character, a tab or a '\b' leaves a row of characters. *)
LEMMA PrintedType ==
  ASSUME NEW ch \in Chars, NEW row \in Seq(Chars \union {Prompt, SPACE})
  PROVE  Printed(row, ch) \in Seq(Chars \union {Prompt, SPACE})
<1> DEFINE S == Chars \union {Prompt, SPACE}
<1> USE KeyboardAssumption
<1>1. CASE ch = NL
  BY <1>1 DEF Printed
<1>2. CASE ch # NL /\ ch # TAB /\ ch = BS /\ row # <<>>
  <2>1. Front(row) \in Seq(S)
    BY <1>2 DEF Front
  <2> QED BY <1>2, <2>1 DEF Printed
<1>3. CASE ch # NL /\ ch # TAB /\ ch = BS /\ row = <<>>
  BY <1>3 DEF Printed
<1>4. CASE ch # NL /\ ch # TAB /\ ch # BS
  BY <1>4 DEF Printed
<1>5. CASE ch = TAB
  <2> DEFINE n == tabs_needed(Len(row))
             spaces == [i \in 1..n |-> SPACE]
  <2>1. n \in Nat
    BY DEF tabs_needed, FBC_TABSIZE
  <2> HIDE DEF n
  <2>2. spaces \in Seq(S)
    BY <2>1
  <2>3. row \o spaces \in Seq(S)
    BY <2>2
  <2>4. Printed(row, ch) = row \o spaces
    BY <1>5 DEF Printed, n
  <2> QED BY <2>3, <2>4
<1> QED BY <1>1, <1>2, <1>3, <1>4, <1>5
-----------------------------------------------------------------------------
LEMMA InitInv == Init => Inv
<1> SUFFICES ASSUME Init PROVE Inv
  OBVIOUS
<1>1. TypeOK
  <2>1. line \in Seq(Chars \ {NL, BS}) /\ Len(line) <= BufSz
    BY KeyboardAssumption DEF Init
  <2>2. screen \in Seq(Chars \union {Prompt, SPACE})
    BY DEF Init
  <2>3. getchar_buf \in [0..(BufSz - 1) -> Chars \union {EOF}]
    BY DEF Init
  <2>4. getchar_buf_pos \in 0..BufSz /\ p \in 0..BufSz
    BY KeyboardAssumption DEF Init
  <2> QED BY <2>1, <2>2, <2>3, <2>4, KeyboardAssumption DEF Init, TypeOK
<1>2. pc = "run" /\ ~getting_char
  BY DEF Init
<1> QED BY <1>1, <1>2 DEF Inv

(* Storing a character keeps the buffers' types, and stops the program or  *)
(* leaves it where it is.                                                  *)
BufsOK ==
  /\ getchar_buf \in [0..(BufSz - 1) -> Chars \union {EOF}]
  /\ getchar_buf_pos \in 0..BufSz
  /\ line \in Seq(Chars \ {NL, BS}) /\ Len(line) <= BufSz
  /\ screen \in Seq(Chars \union {Prompt, SPACE})
  /\ tab_erased \in BOOLEAN

LEMMA EchoType ==
  ASSUME NEW ch \in Chars, screen \in Seq(Chars \union {Prompt, SPACE}), Echo(ch)
  PROVE  screen' \in Seq(Chars \union {Prompt, SPACE}) /\ UNCHANGED tab_erased
BY PrintedType DEF Echo

LEMMA StoreRawKeeps ==
  ASSUME NEW ch \in Chars, BufsOK, StoreRaw(ch)
  PROVE  BufsOK' /\ pc' \in {pc, "broken"}
<1> USE KeyboardAssumption
<1>1. CASE getchar_buf_pos < BufSz
  <2>1. screen' \in Seq(Chars \union {Prompt, SPACE}) /\ UNCHANGED tab_erased
    BY <1>1, EchoType DEF StoreRaw, BufsOK
  <2>2. getchar_buf' \in [0..(BufSz - 1) -> Chars \union {EOF}]
    BY <1>1 DEF StoreRaw, BufsOK
  <2>3. getchar_buf_pos' \in 0..BufSz
    BY <1>1 DEF StoreRaw, BufsOK
  <2> QED BY <1>1, <2>1, <2>2, <2>3 DEF StoreRaw, BufsOK
<1>2. CASE ~(getchar_buf_pos < BufSz)
  BY <1>2 DEF StoreRaw, BufsOK, bufs
<1> QED BY <1>1, <1>2

LEMMA EndLineKeeps ==
  ASSUME NL \in Chars, BufsOK, EndLine
  PROVE  BufsOK'
<1> USE KeyboardAssumption
<1>1. screen' \in Seq(Chars \union {Prompt, SPACE})
  BY PrintedType DEF EndLine, BufsOK
<1>2. \A i \in 0..(BufSz - 1) : i < Len(line) => line[i + 1] \in Chars
  <2> SUFFICES ASSUME NEW i \in 0..(BufSz - 1), i < Len(line) PROVE line[i + 1] \in Chars
    OBVIOUS
  <2>1. line \in Seq(Chars \ {NL, BS}) /\ Len(line) \in Nat
    BY DEF BufsOK
  <2>2. i + 1 \in 1..Len(line)
    BY <2>1
  <2> QED BY <2>1, <2>2
<1>3. getchar_buf' \in [0..(BufSz - 1) -> Chars \union {EOF}]
  BY <1>2 DEF EndLine, BufsOK
<1>4. line' = <<>> /\ getchar_buf_pos' = 0 /\ tab_erased' = FALSE
  BY DEF EndLine
<1>5. line' \in Seq(Chars \ {NL, BS}) /\ Len(line') <= BufSz
  BY <1>4
<1>6. getchar_buf_pos' \in 0..BufSz
  BY <1>4
<1> QED BY <1>1, <1>3, <1>4, <1>5, <1>6 DEF BufsOK

LEMMA BackspaceKeeps ==
  ASSUME BS \in Chars, BufsOK, Backspace
  PROVE  BufsOK'
<1> USE KeyboardAssumption
<1>1. screen' \in Seq(Chars \union {Prompt, SPACE})
  BY PrintedType DEF Backspace, BufsOK
<1>2. line' \in Seq(Chars \ {NL, BS}) /\ Len(line') <= BufSz
  BY DEF Backspace, BufsOK, Front
<1> QED BY <1>1, <1>2 DEF Backspace, BufsOK

LEMMA StoreLineKeeps ==
  ASSUME NEW ch \in Chars, BufsOK, StoreLine(ch)
  PROVE  BufsOK' /\ pc' \in {pc, "panic"}
<1> USE KeyboardAssumption
<1>1. CASE Len(line) >= BufSz /\ pc' = "panic" /\ UNCHANGED bufs
  BY <1>1 DEF BufsOK, bufs
<1>2. CASE Len(line) < BufSz /\ pc' = pc /\ ch = NL /\ EndLine
  BY <1>2, EndLineKeeps
<1>3. CASE Len(line) < BufSz /\ pc' = pc /\ ch = BS /\ Backspace
  BY <1>3, BackspaceKeeps
<1>4. CASE Len(line) < BufSz /\ pc' = pc /\ ch \notin {NL, BS} /\ AddToLine(ch)
  <2>1. screen' \in Seq(Chars \union {Prompt, SPACE}) /\ UNCHANGED tab_erased
    BY <1>4, EchoType DEF AddToLine, BufsOK
  <2>2. line' \in Seq(Chars \ {NL, BS}) /\ Len(line') <= BufSz
    BY <1>4 DEF AddToLine, BufsOK
  <2> QED BY <1>4, <2>1, <2>2 DEF AddToLine, BufsOK
<1> QED BY <1>1, <1>2, <1>3, <1>4 DEF StoreLine

(* The handler's second half: nothing is stored or printed unless a program*)
(* is in kb_getchar.                                                       *)
LEMMA InputKeeps ==
  ASSUME NEW ch \in Chars, BufsOK, Input(ch)
  PROVE  /\ BufsOK' /\ pc' \in {pc, "panic", "broken"}
         /\ ~getting_char => UNCHANGED <<bufs, pc>>
<1>1. CASE ch = Nul \/ ~getting_char
  BY <1>1 DEF Input, BufsOK, bufs
<1>2. CASE ~(ch = Nul \/ ~getting_char) /\ ~wait_for_eol
  BY <1>2, StoreRawKeeps DEF Input
<1>3. CASE ~(ch = Nul \/ ~getting_char) /\ wait_for_eol
  BY <1>3, StoreLineKeeps DEF Input
<1> QED BY <1>1, <1>2, <1>3

-----------------------------------------------------------------------------
LEMMA PressInv ==
  ASSUME Inv, NEW k \in Keys, Press(k)
  PROVE  Inv' /\ (pc = "run" => UNCHANGED screen)
<1> USE KeyboardAssumption
<1>1. {shift_held', capslock_on'} \subseteq BOOLEAN
  BY DEF Inv, TypeOK, Press, check_special
<1>2. FinalKey(k) \in Chars
  BY FinalKeyType DEF Inv, TypeOK
<1>3. BufsOK /\ Input(FinalKey(k))
  BY DEF Inv, TypeOK, BufsOK, Press
<1>4. /\ BufsOK' /\ pc' \in {pc, "panic", "broken"}
      /\ ~getting_char => UNCHANGED <<bufs, pc>>
  BY <1>2, <1>3, InputKeeps
<1>5. down' \subseteq Keys /\ key_flags' \subseteq Chars
  BY <1>2 DEF Inv, TypeOK, Press, Flagged
<1>6. UNCHANGED <<typist, cur_layout, print_chars, wait_for_eol, getting_char, p, c>>
  BY DEF Press, modes
<1>7. TypeOK'
  BY <1>1, <1>4, <1>5, <1>6 DEF Inv, TypeOK, BufsOK
<1> QED BY <1>4, <1>6, <1>7 DEF Inv, bufs

LEMMA ReleaseInv ==
  ASSUME Inv, NEW k \in Keys, Release(k)
  PROVE  Inv' /\ UNCHANGED screen
<1>1. {shift_held', capslock_on'} \subseteq BOOLEAN
  BY DEF Inv, TypeOK, Release, check_special
<1>2. /\ down' \subseteq Keys /\ key_flags' \subseteq Chars
      /\ UNCHANGED <<typist, cur_layout, modes, bufs, prog>>
  BY DEF Inv, TypeOK, Release
<1> QED BY <1>1, <1>2 DEF Inv, TypeOK, modes, bufs, prog

(* The steps of the program. *)
LEMMA ProgramInv ==
  ASSUME Inv,
         \/ \E m \in Modes : SetMode(m)
         \/ \E l \in Layouts : SetLayout(l)
         \/ Call \/ GetChar
  PROVE  Inv' /\ (pc = "run" /\ pc' = "run" => UNCHANGED screen)
<1> USE KeyboardAssumption DEF Inv, TypeOK, keys, modes, bufs, prog
<1>1. CASE \E m \in Modes : SetMode(m)
  BY <1>1 DEF SetMode
<1>2. CASE \E l \in Layouts : SetLayout(l)
  BY <1>2 DEF SetLayout
<1>3. CASE Call
  <2>1. screen' \in Seq(Chars \union {Prompt, SPACE})
    BY <1>3 DEF Call
  <2> QED BY <1>3, <2>1 DEF Call
<1>4. CASE Point
  BY <1>4 DEF Point
<1>5. CASE Take
  <2>1. CASE p = BufSz
    BY <1>5, <2>1 DEF Take
  <2>2. CASE p # BufSz
    <3>1. p \in 0..(BufSz - 1) /\ getchar_buf[p] \in Chars \union {EOF}
      BY <2>2
    <3> QED BY <1>5, <2>2, <3>1 DEF Take
  <2> QED BY <2>1, <2>2
<1>6. CASE Erase
  BY <1>6 DEF Erase
<1>7. CASE Advance
  BY <1>7 DEF Advance
<1>8. CASE Peek
  BY <1>8 DEF Peek
<1>9. CASE Reset
  BY <1>9 DEF Reset
<1>10. CASE Return
  BY <1>10 DEF Return
<1> QED BY <1>1, <1>2, <1>3, <1>4, <1>5, <1>6, <1>7, <1>8, <1>9, <1>10 DEF GetChar

LEMMA NextInv ==
  ASSUME Inv, [Next]_vars
  PROVE  Inv' /\ (pc = "run" /\ pc' = "run" => UNCHANGED screen)
<1>1. CASE \E k \in Keys : Press(k)
  BY <1>1, PressInv
<1>2. CASE \E k \in Keys : Release(k)
  BY <1>2, ReleaseInv
<1>3. CASE \/ \E m \in Modes : SetMode(m)
           \/ \E l \in Layouts : SetLayout(l)
           \/ Call \/ GetChar
  BY <1>3, ProgramInv
<1>4. CASE UNCHANGED vars
  BY <1>4 DEF Inv, TypeOK, vars, keys, modes, bufs, prog
<1> QED BY <1>1, <1>2, <1>3, <1>4 DEF Next

-----------------------------------------------------------------------------
(* The keys whose characters no other key gives: those DownMeansHeld is    *)
(* about.                                                                  *)
Own == {k \in Keys : \A j \in Keys \ {k} : CharsOf(k) \intersect CharsOf(j) = {}}

LEMMA OwnDown ==
  ASSUME NEW D \in SUBSET Keys
  PROVE  D \intersect Own =
           D \ {j \in Keys : \E i \in Keys \ {j} : CharsOf(i) \intersect CharsOf(j) # {}}
<1> DEFINE Shared == {j \in Keys : \E i \in Keys \ {j} : CharsOf(i) \intersect CharsOf(j) # {}}
<1>1. ASSUME NEW k \in Keys PROVE k \in Own <=> k \notin Shared
  BY <1>1 DEF Own
<1> HIDE DEF Shared
<1>2. D \intersect Own = D \ Shared
  BY <1>1 DEF Own
<1> QED BY <1>2 DEF Shared

LEMMA HeldOwn ==
  ASSUME Inv
  PROVE  DownMeansHeld <=> \A k \in down \intersect Own : CharsOf(k) \intersect key_flags # {}
BY OwnDown DEF DownMeansHeld, Inv, TypeOK

(* The character a key gives is one of its own, in every layout: the one   *)
(* set when it went down and the one cleared when it comes up may differ,  *)
(* but both are this key's.                                                *)
LEMMA FinalKeyOwn ==
  ASSUME NEW k \in Keys, cur_layout \in Layouts
  PROVE  FinalKey(k) \in CharsOf(k)
BY DEF FinalKey, CharsOf

LEMMA HeldInit == Init => DownMeansHeld
BY DEF Init, DownMeansHeld

LEMMA PressHeld ==
  ASSUME Inv, DownMeansHeld, NEW j \in Keys, Press(j)
  PROVE  DownMeansHeld'
<1>1. FinalKey(j) \in CharsOf(j)
  BY FinalKeyOwn DEF Inv, TypeOK
<1>2. down' = down \union {j} /\ key_flags' = key_flags \union {FinalKey(j)}
  BY DEF Press, Flagged
<1>3. ASSUME NEW k \in down' \intersect Own PROVE CharsOf(k) \intersect key_flags' # {}
  <2>1. CASE k = j
    BY <1>1, <1>2, <2>1
  <2>2. CASE k # j
    <3>1. k \in down \intersect Own
      BY <1>2, <1>3, <2>2
    <3>2. CharsOf(k) \intersect key_flags # {}
      BY <3>1, HeldOwn
    <3> QED BY <1>2, <3>2
  <2> QED BY <2>1, <2>2
<1>4. down' \subseteq Keys
  BY <1>2 DEF Inv, TypeOK
<1>5. DownMeansHeld' <=> \A k \in down' \intersect Own : CharsOf(k) \intersect key_flags' # {}
  BY <1>4, OwnDown DEF DownMeansHeld
<1> QED BY <1>3, <1>5

LEMMA ReleaseHeld ==
  ASSUME Inv, DownMeansHeld, NEW j \in Keys, Release(j)
  PROVE  DownMeansHeld'
<1>1. FinalKey(j) \in CharsOf(j)
  BY FinalKeyOwn DEF Inv, TypeOK
<1>2. down' = down \ {j} /\ key_flags' = key_flags \ {FinalKey(j)}
  BY DEF Release
<1>3. ASSUME NEW k \in down' \intersect Own PROVE CharsOf(k) \intersect key_flags' # {}
  <2>1. k \in down \intersect Own /\ k # j
    BY <1>2, <1>3
  <2>2. CharsOf(k) \intersect key_flags # {}
    BY <2>1, HeldOwn
  <2>3. FinalKey(j) \notin CharsOf(k)
    BY <1>1, <2>1 DEF Own
  <2> QED BY <1>2, <2>2, <2>3
<1>4. down' \subseteq Keys
  BY <1>2 DEF Inv, TypeOK
<1>5. DownMeansHeld' <=> \A k \in down' \intersect Own : CharsOf(k) \intersect key_flags' # {}
  BY <1>4, OwnDown DEF DownMeansHeld
<1> QED BY <1>3, <1>5

LEMMA NextHeld ==
  ASSUME Inv, DownMeansHeld, [Next]_vars
  PROVE  DownMeansHeld'
<1>1. CASE \E k \in Keys : Press(k)
  BY <1>1, PressHeld
<1>2. CASE \E k \in Keys : Release(k)
  BY <1>2, ReleaseHeld
<1>3. CASE UNCHANGED keys
  BY <1>3 DEF keys, DownMeansHeld
<1>4. CASE \E l \in Layouts : SetLayout(l)
  BY <1>4 DEF SetLayout, DownMeansHeld
<1>5. CASE (\E m \in Modes : SetMode(m)) \/ Call \/ GetChar
  BY <1>5, <1>3 DEF SetMode, Call, GetChar, Point, Take, Erase, Advance, Peek, Reset, Return
<1> QED BY <1>1, <1>2, <1>3, <1>4, <1>5 DEF Next, vars

-----------------------------------------------------------------------------
(* The invariant, in every reachable state. *)
THEOREM Invariance == Spec => []Inv
<1>1. Init => Inv
  BY InitInv
<1>2. Inv /\ [Next]_vars => Inv'
  BY NextInv
<1> QED BY <1>1, <1>2, PTL DEF Spec

(* Types and bounds: outside "broken" no index leaves its buffer. *)
THEOREM TypeCorrect == Spec => []TypeOK
<1>1. Inv => TypeOK
  BY DEF Inv
<1> QED BY <1>1, Invariance, PTL

(* Nothing is printed by the handler while the program runs: the console   *)
(* has one writer at a time.                                               *)
THEOREM Alone == Spec => PrintsAlone
<1>1. Inv /\ [Next]_vars => [pc = "run" /\ pc' = "run" => UNCHANGED screen]_vars
  BY NextInv
<1> QED BY <1>1, Invariance, PTL DEF Spec, PrintsAlone

(* A key that is down is held under one of its characters, whatever shift, *)
(* caps lock and the layout did since the handler saw it go down, if no    *)
(* other key gives one of its characters.                                  *)
THEOREM Held == Spec => []DownMeansHeld
<1>1. Inv /\ DownMeansHeld /\ [Next]_vars => DownMeansHeld'
  BY NextHeld
<1> QED BY <1>1, HeldInit, Invariance, PTL DEF Spec

-----------------------------------------------------------------------------
(* A patient typist's terminal.  The characters nobody has read are in the *)
(* cells from `from' to `till', and nowhere else but where kb_getchar is   *)
(* about to erase.                                                         *)
From == IF pc \in {"run", "point"} THEN getchar_buf_pos
        ELSE IF pc = "spin" THEN p ELSE p + 1

Filled(buf, from, till, but) ==
  /\ from \in 0..BufSz /\ till \in from..BufSz
  /\ \A i \in 0..(BufSz - 1) : i \notin but => (buf[i] # EOF <=> from <= i /\ i < till)

QueueInv ==
  ~Stopped =>
    \E till \in 0..BufSz :
      /\ Filled(getchar_buf, From, till, IF pc = "erase" THEN {p} ELSE {})
      /\ pc \in {"run", "point"} => till > From \/ getchar_buf_pos = 0
      /\ pc = "spin" => till > p \/ (p = 0 /\ getchar_buf_pos = 0)
      /\ pc = "peek" => getchar_buf_pos = p + 1
      /\ pc = "reset" => till = p + 1
      /\ pc = "return" => getchar_buf_pos = IF till > p + 1 THEN p + 1 ELSE 0

(* Unread is these cells. *)
UnreadOf(buf, from) ==
  LET till == CHOOSE i \in from..BufSz :
                /\ i = BufSz \/ buf[i] = EOF
                /\ \A j \in from..(i - 1) : buf[j] # EOF
  IN  [i \in 1..(till - from) |-> buf[from + i - 1]]

LEMMA UnreadFrom ==
  /\ Unread = UnreadOf(getchar_buf, From)
  /\ Unread' = UnreadOf(getchar_buf', From')
BY DEF Unread, UnreadOf, From

LEMMA UnreadIs ==
  ASSUME NEW buf, NEW from, NEW till, NEW but, Filled(buf, from, till, but),
         but \intersect (from..BufSz) = {}
  PROVE  UnreadOf(buf, from) = [i \in 1..(till - from) |-> buf[from + i - 1]]
<1> DEFINE P(t) == /\ t = BufSz \/ buf[t] = EOF
                   /\ \A j \in from..(t - 1) : buf[j] # EOF
           q == CHOOSE t \in from..BufSz : P(t)
<1> USE KeyboardAssumption
<1>1. from \in Nat /\ till \in from..BufSz /\ till \in Nat
  BY DEF Filled
<1>2. \A i \in from..(till - 1) : buf[i] # EOF
  <2> SUFFICES ASSUME NEW i \in from..(till - 1) PROVE buf[i] # EOF
    OBVIOUS
  <2>1. i \in 0..(BufSz - 1) /\ i \notin but /\ from <= i /\ i < till
    BY <1>1
  <2> QED BY <2>1 DEF Filled
<1>3. till = BufSz \/ buf[till] = EOF
  <2>1. CASE till # BufSz
    <3>1. till \in 0..(BufSz - 1) /\ till \notin but /\ ~(till < till)
      BY <1>1, <2>1
    <3> QED BY <3>1 DEF Filled
  <2> QED BY <2>1
<1>4. P(till)
  BY <1>2, <1>3
<1>5. ASSUME NEW t \in from..BufSz, P(t) PROVE t = till
  <2>1. CASE t < till
    <3>1. t \in from..(till - 1) /\ t # BufSz
      BY <1>1, <2>1
    <3> QED BY <1>2, <1>5, <3>1
  <2>2. CASE till < t
    <3>1. till \in from..(t - 1) /\ till # BufSz
      BY <1>1, <2>2
    <3> QED BY <1>3, <1>5, <3>1
  <2> QED BY <1>1, <2>1, <2>2
<1>6. q \in from..BufSz /\ P(q)
  BY <1>1, <1>4
<1>7. q = till
  BY <1>5, <1>6
<1>8. UnreadOf(buf, from) = [i \in 1..(q - from) |-> buf[from + i - 1]]
  BY DEF UnreadOf
<1> QED BY <1>7, <1>8

(* A step of the terminal. *)
TerminalStep == [~Stopped /\ Device!Next]_<<~wait_for_eol, line, Unread, c, Stopped>>

LEMMA QueueStarts == Init => QueueInv /\ Device!Init
<1> SUFFICES ASSUME Init PROVE QueueInv /\ Device!Init
  OBVIOUS
<1>1. From = 0 /\ pc = "run" /\ getchar_buf_pos = 0 /\ 0 \in 0..BufSz
  BY KeyboardAssumption DEF Init, From
<1>2. Filled(getchar_buf, 0, 0, {})
  BY <1>1, KeyboardAssumption DEF Init, Filled
<1>3. QueueInv
  BY <1>1, <1>2 DEF QueueInv
<1>4. Unread = <<>>
  <2>1. UnreadOf(getchar_buf, 0) = [i \in 1..(0 - 0) |-> getchar_buf[0 + i - 1]]
    BY <1>2, UnreadIs
  <2> QED BY <1>1, <2>1, UnreadFrom
<1>5. line = <<>> /\ ~Stopped
  BY <1>1 DEF Init, Stopped
<1> QED BY <1>3, <1>4, <1>5 DEF Device!Init

(* The queue depends on the buffer, its positions and where the program is.*)
LEMMA QueueSame ==
  ASSUME QueueInv, UNCHANGED <<getchar_buf, getchar_buf_pos, pc, p>>
  PROVE  QueueInv' /\ Unread' = Unread
<1>1. From' = From /\ (Stopped' <=> Stopped)
  BY DEF From, Stopped
<1>2. Unread' = Unread
  BY <1>1, UnreadFrom
<1> QED BY <1>1, <1>2 DEF QueueInv

(* When a key comes that counts, all has been read.                        *)
LEMMA Drained ==
  ASSUME Inv, QueueInv, pc = "spin", getchar_buf[p] = EOF
  PROVE  /\ p = 0 /\ getchar_buf_pos = 0 /\ Filled(getchar_buf, 0, 0, {}) /\ Unread = <<>>
         /\ \A i \in 0..(BufSz - 1) : getchar_buf[i] = EOF
<1>1. PICK till \in 0..BufSz : Filled(getchar_buf, p, till, {}) /\ (till > p \/ (p = 0 /\ getchar_buf_pos = 0))
  BY DEF QueueInv, From, Stopped
<1>2. ~(till > p)
  <2> SUFFICES ASSUME till > p PROVE FALSE
    OBVIOUS
  <2>1. p \in 0..(BufSz - 1) /\ p <= p /\ p < till
    BY <1>1, KeyboardAssumption DEF Filled
  <2> QED BY <1>1, <2>1 DEF Filled
<1>3. p = 0 /\ getchar_buf_pos = 0 /\ till = 0
  BY <1>1, <1>2, KeyboardAssumption DEF Filled
<1>4. Filled(getchar_buf, 0, 0, {})
  BY <1>1, <1>3
<1>5. Unread = <<>>
  <2>1. UnreadOf(getchar_buf, 0) = [i \in 1..(0 - 0) |-> getchar_buf[0 + i - 1]]
    BY <1>4, UnreadIs
  <2>2. From = 0
    BY <1>3 DEF From
  <2> QED BY <2>1, <2>2, UnreadFrom
<1>6. \A i \in 0..(BufSz - 1) : getchar_buf[i] = EOF
  BY <1>4, KeyboardAssumption DEF Filled
<1> QED BY <1>3, <1>4, <1>5, <1>6

(* A key in raw mode is the only one there is to read. *)
LEMMA RawIsQueued ==
  ASSUME Inv, QueueInv, pc = "spin", getchar_buf[p] = EOF, NEW ch \in Chars,
         ~wait_for_eol, StoreRaw(ch), UNCHANGED <<modes, p, c>>
  PROVE  QueueInv' /\ Device!RawKey(ch) /\ ~Stopped
<1>1. /\ p = 0 /\ getchar_buf_pos = 0 /\ Unread = <<>>
      /\ \A i \in 0..(BufSz - 1) : getchar_buf[i] = EOF
  BY Drained
<1>2. /\ getchar_buf' = [getchar_buf EXCEPT ![0] = ch]
      /\ getchar_buf_pos' = 1 /\ UNCHANGED <<line, pc>>
  BY <1>1, KeyboardAssumption DEF StoreRaw
<1>3. getchar_buf'[0] = ch /\ \A i \in 1..(BufSz - 1) : getchar_buf'[i] = EOF
  BY <1>1, <1>2, KeyboardAssumption DEF Inv, TypeOK
<1>4. From' = 0 /\ pc' = "spin" /\ p' = 0
  BY <1>1, <1>2 DEF From
<1>5. Filled(getchar_buf', 0, 1, {})
  <2>1. ch # EOF /\ BufSz \in Nat \ {0}
    BY KeyboardAssumption
  <2>2. ASSUME NEW i \in 0..(BufSz - 1) PROVE getchar_buf'[i] # EOF <=> 0 <= i /\ i < 1
    <3>1. CASE i = 0
      BY <1>3, <2>1, <3>1
    <3>2. CASE i # 0
      <4>1. i \in 1..(BufSz - 1)
        BY <3>2
      <4> QED BY <1>3, <4>1
    <3> QED BY <3>1, <3>2
  <2> QED BY <2>1, <2>2 DEF Filled
<1>6. QueueInv'
  <2>1. 1 \in 0..BufSz /\ 1 > 0
    BY KeyboardAssumption
  <2> QED BY <1>4, <1>5, <2>1 DEF QueueInv
<1>7. Unread' = <<ch>>
  <2> DEFINE one == 1
  <2>1. one = 1
    OBVIOUS
  <2>0. Filled(getchar_buf', 0, one, {})
    BY <1>5
  <2> HIDE DEF one
  <2>2. UnreadOf(getchar_buf', 0) = [i \in 1..(one - 0) |-> getchar_buf'[0 + i - 1]]
    BY <2>0, UnreadIs
  <2>3. [i \in 1..(one - 0) |-> getchar_buf'[0 + i - 1]] = <<ch>>
    BY <1>3, <2>1
  <2> QED BY <1>4, <2>2, <2>3, UnreadFrom
<1>8. Unread' = Append(Unread, ch)
  BY <1>1, <1>7
<1>9. ~Stopped /\ UNCHANGED <<~wait_for_eol, line, c, Stopped>>
  BY <1>2, <1>4 DEF Stopped, modes
<1> QED BY <1>6, <1>8, <1>9 DEF Device!RawKey

(* A line that ends is all there is to read. *)
LEMMA LineIsQueued ==
  ASSUME Inv, QueueInv, pc = "spin", getchar_buf[p] = EOF, NL \in Chars,
         wait_for_eol, Len(line) < BufSz, EndLine, UNCHANGED <<modes, p, c, pc>>
  PROVE  QueueInv' /\ Device!EndLine /\ ~Stopped
<1> DEFINE l == Len(line)
<1>0. l \in Nat /\ BufSz \in Nat \ {0} /\ line \in Seq(Chars) /\ l < BufSz
  BY KeyboardAssumption DEF Inv, TypeOK
<1>1. /\ p = 0 /\ getchar_buf_pos = 0 /\ Unread = <<>>
      /\ \A i \in 0..(BufSz - 1) : getchar_buf[i] = EOF
  BY Drained
<1>2. /\ \A i \in 0..(BufSz - 1) : getchar_buf'[i] = IF i < l THEN line[i + 1] ELSE IF i = l THEN NL ELSE EOF
      /\ getchar_buf_pos' = 0 /\ line' = <<>>
  BY <1>1 DEF EndLine
<1>3. From' = 0 /\ pc' = "spin" /\ p' = 0
  BY <1>1 DEF From
<1>4. \A i \in 1..l : line[i] \in Chars
  BY <1>0, ElementOfSeq
<1> HIDE DEF l
<1>5. Filled(getchar_buf', 0, l + 1, {})
  <2>1. ASSUME NEW i \in 0..(BufSz - 1) PROVE getchar_buf'[i] # EOF <=> 0 <= i /\ i < l + 1
    <3>1. CASE i < l
      <4>1. i + 1 \in 1..l
        BY <1>0, <3>1
      <4> QED BY <1>0, <1>2, <1>4, <3>1, <4>1, KeyboardAssumption
    <3>2. CASE i = l
      BY <1>0, <1>2, <3>2, KeyboardAssumption
    <3>3. CASE i > l
      BY <1>0, <1>2, <3>3
    <3> QED BY <1>0, <3>1, <3>2, <3>3
  <2> QED BY <1>0, <2>1 DEF Filled
<1>6. QueueInv'
  <2>1. l + 1 \in 0..BufSz /\ l + 1 > 0
    BY <1>0
  <2> QED BY <1>3, <1>5, <2>1 DEF QueueInv
<1>7. Unread' = [i \in 1..(l + 1) |-> getchar_buf'[i - 1]]
  <2>1. UnreadOf(getchar_buf', 0) = [i \in 1..((l + 1) - 0) |-> getchar_buf'[0 + i - 1]]
    BY <1>5, UnreadIs
  <2>2. \A i \in 1..(l + 1) : 0 + i - 1 = i - 1
    BY <1>0
  <2> QED BY <1>0, <1>3, <2>1, <2>2, UnreadFrom
<1> DEFINE q == line \o <<NL>>
<1>8. Len(q) = l + 1 /\ q \in Seq(Chars) /\ \A i \in 1..(l + 1) : q[i] = IF i <= l THEN line[i] ELSE NL
  <2>1. PICK u : u = <<NL>>
    OBVIOUS
  <2>2. u \in Seq(Chars) /\ Len(u) = 1 /\ u[1] = NL
    BY <2>1
  <2>3. /\ line \o u \in Seq(Chars) /\ Len(line \o u) = l + 1
        /\ \A i \in 1..(l + 1) : (line \o u)[i] = IF i <= l THEN line[i] ELSE u[i - l]
    <3>1. /\ line \o u \in Seq(Chars) /\ Len(line \o u) = Len(line) + Len(u)
          /\ \A i \in 1..(Len(line) + Len(u)) : (line \o u)[i] = IF i <= Len(line) THEN line[i] ELSE u[i - Len(line)]
      BY <1>0, <2>2, ConcatProperties, Zenon
    <3> QED BY <2>2, <3>1, Zenon DEF l
  <2>4. \A i \in 1..(l + 1) : ~(i <= l) => i - l = 1
    BY <1>0
  <2> QED BY <2>1, <2>2, <2>3, <2>4
<1>9. \A i \in 1..(l + 1) : q[i] = getchar_buf'[i - 1]
  <2> SUFFICES ASSUME NEW i \in 1..(l + 1) PROVE q[i] = getchar_buf'[i - 1]
    OBVIOUS
  <2>1. i - 1 \in 0..(BufSz - 1) /\ (i - 1) + 1 = i /\ (i <= l <=> i - 1 < l) /\ (~(i <= l) => i - 1 = l)
    BY <1>0
  <2>2. q[i] = IF i <= l THEN line[i] ELSE NL
    BY <1>8
  <2>3. getchar_buf'[i - 1] = IF i - 1 < l THEN line[(i - 1) + 1] ELSE IF i - 1 = l THEN NL ELSE EOF
    BY <1>2, <2>1
  <2>4. CASE i <= l
    BY <2>1, <2>2, <2>3, <2>4
  <2>5. CASE ~(i <= l)
    <3>1. ~(i - 1 < l) /\ i - 1 = l
      BY <2>1, <2>5
    <3> QED BY <2>2, <2>3, <2>5, <3>1
  <2> QED BY <2>4, <2>5
<1> HIDE DEF q
<1>10. q = [i \in 1..(l + 1) |-> q[i]]
  BY <1>8
<1>11. Unread' = q
  BY <1>7, <1>9, <1>10
<1>12. Unread \o line \o <<NL>> = q
  <2>1. Unread \o line = line
    BY <1>0, <1>1
  <2> QED BY <2>1 DEF q
<1>13. ~Stopped /\ UNCHANGED <<~wait_for_eol, c, Stopped>>
  BY <1>3 DEF Stopped, modes
<1> QED BY <1>2, <1>6, <1>11, <1>12, <1>13 DEF Device!EndLine

LEMMA PressQueues ==
  ASSUME typist.patient, Inv, QueueInv, NEW k \in Keys, Press(k)
  PROVE  QueueInv' /\ TerminalStep
<1> DEFINE ch == FinalKey(k)
<1>1. ch \in Chars
  BY FinalKeyType DEF Inv, TypeOK
<1>2. /\ ~Stopped /\ (pc = "run" \/ (pc = "spin" /\ getchar_buf[p] = EOF))
      /\ Input(ch) /\ UNCHANGED <<modes, p, c>>
  BY DEF Press, Arrives
<1> HIDE DEF ch
<1>3. CASE UNCHANGED <<bufs, pc>>
  <2>1. UNCHANGED <<getchar_buf, getchar_buf_pos, pc, p>> /\ UNCHANGED <<~wait_for_eol, line, c, Stopped>>
    BY <1>2, <1>3 DEF bufs, modes, Stopped
  <2>2. QueueInv' /\ Unread' = Unread
    BY <2>1, QueueSame
  <2> QED BY <2>1, <2>2 DEF TerminalStep
<1>4. CASE pc = "run" \/ ch = Nul
  <2>1. ch = Nul \/ ~getting_char
    BY <1>2, <1>4 DEF Inv
  <2> QED BY <1>2, <1>3, <2>1 DEF Input
<1>5. CASE pc = "spin" /\ getchar_buf[p] = EOF /\ ch # Nul
  <2>1. CASE ~getting_char
    BY <1>2, <1>3, <2>1 DEF Input
  <2>2. CASE getting_char /\ ~wait_for_eol
    <3>1. StoreRaw(ch)
      BY <1>2, <1>5, <2>2 DEF Input
    <3>2. QueueInv' /\ Device!RawKey(ch) /\ ~Stopped
      BY <1>1, <1>2, <1>5, <2>2, <3>1, RawIsQueued
    <3> QED BY <1>1, <3>2 DEF TerminalStep, Device!Next
  <2>3. CASE getting_char /\ wait_for_eol
    <3>0. StoreLine(ch)
      BY <1>2, <1>5, <2>3 DEF Input
    <3>1. CASE pc' = "panic" /\ UNCHANGED bufs
      <4>1. Stopped' /\ UNCHANGED <<~wait_for_eol, line, c>>
        BY <1>2, <3>1 DEF Stopped, bufs, modes
      <4>2. QueueInv' /\ Device!Stop
        BY <4>1 DEF QueueInv, Device!Stop
      <4> QED BY <1>2, <4>2 DEF TerminalStep, Device!Next
    <3>2. CASE Len(line) < BufSz /\ ch = NL /\ EndLine /\ UNCHANGED pc
      <4>1. QueueInv' /\ Device!EndLine /\ ~Stopped
        BY <1>1, <1>2, <1>5, <2>3, <3>2, LineIsQueued
      <4> QED BY <4>1 DEF TerminalStep, Device!Next
    <3>3. CASE ch = BS /\ Backspace /\ UNCHANGED pc
      <4>1. QueueInv' /\ Unread' = Unread /\ UNCHANGED <<~wait_for_eol, c, Stopped>>
        BY <1>2, <3>3, QueueSame DEF Backspace, modes, Stopped
      <4>2. line # <<>> => Device!Erase
        BY <2>3, <3>3, <4>1 DEF Backspace, Device!Erase, Front, Device!Front
      <4>3. line = <<>> => line' = line
        BY <3>3 DEF Backspace
      <4> QED BY <1>2, <4>1, <4>2, <4>3 DEF TerminalStep, Device!Next
    <3>4. CASE ch \notin {NL, BS} /\ AddToLine(ch) /\ UNCHANGED pc
      <4>1. QueueInv' /\ Unread' = Unread /\ UNCHANGED <<~wait_for_eol, c, Stopped>>
        BY <1>2, <3>4, QueueSame DEF AddToLine, modes, Stopped
      <4>2. Device!Type(ch)
        BY <2>3, <3>4, <4>1 DEF AddToLine, Device!Type
      <4> QED BY <1>1, <1>2, <4>1, <4>2 DEF TerminalStep, Device!Next
    <3> QED BY <3>0, <3>1, <3>2, <3>3, <3>4 DEF StoreLine
  <2> QED BY <2>1, <2>2, <2>3
<1> QED BY <1>2, <1>4, <1>5

(* kb_getchar, step by step: Take reads the first of the queue ...         *)
LEMMA TakeReads ==
  ASSUME Inv, QueueInv, Take
  PROVE  QueueInv' /\ TerminalStep
<1>0. pc = "spin" /\ ~Stopped /\ p \in 0..BufSz
      /\ UNCHANGED <<~wait_for_eol, line, getchar_buf, getchar_buf_pos, p>>
  BY DEF Take, Stopped, modes, bufs, Inv, TypeOK
<1>1. CASE p = BufSz
  <2>1. Stopped' /\ UNCHANGED c
    BY <1>1 DEF Take, Stopped
  <2>2. QueueInv' /\ Device!Stop
    BY <1>0, <2>1 DEF QueueInv, Device!Stop
  <2> QED BY <1>0, <2>2 DEF TerminalStep, Device!Next
<1>2. CASE p # BufSz
  <2>1. getchar_buf[p] # EOF /\ c' = getchar_buf[p] /\ pc' = "erase" /\ UNCHANGED Stopped
    BY <1>2 DEF Take, Stopped
  <2>2. PICK till \in 0..BufSz : Filled(getchar_buf, p, till, {})
    BY <1>0 DEF QueueInv, From
  <2>3. p < till /\ p \in Nat /\ till \in Nat /\ till <= BufSz /\ BufSz \in Nat
    <3>1. p \in 0..(BufSz - 1)
      BY <1>0, <1>2, KeyboardAssumption
    <3> QED BY <1>0, <2>1, <2>2, <3>1, KeyboardAssumption DEF Filled
  <2>4. Filled(getchar_buf, p + 1, till, {p})
    <3>1. \A i \in 0..(BufSz - 1) : i # p => (p <= i <=> p + 1 <= i)
      BY <2>3
    <3> QED BY <2>2, <2>3, <3>1 DEF Filled
  <2>5. From = p /\ From' = p + 1
    BY <1>0, <2>1 DEF From
  <2>6. QueueInv'
    BY <1>0, <2>1, <2>4, <2>5 DEF QueueInv
  <2>7. Unread = [i \in 1..(till - p) |-> getchar_buf[p + i - 1]]
    BY <2>2, <2>5, UnreadIs, UnreadFrom
  <2>8. Unread' = [i \in 1..(till - (p + 1)) |-> getchar_buf[p + 1 + i - 1]]
    <3> DEFINE f == p + 1
    <3>1. Filled(getchar_buf, f, till, {p}) /\ {p} \intersect (f..BufSz) = {}
      BY <2>3, <2>4
    <3>2. From' = f
      BY <2>5
    <3> HIDE DEF f
    <3>3. UnreadOf(getchar_buf, f) = [i \in 1..(till - f) |-> getchar_buf[f + i - 1]]
      BY <3>1, UnreadIs
    <3>4. Unread' = [i \in 1..(till - f) |-> getchar_buf[f + i - 1]]
      BY <1>0, <3>2, <3>3, UnreadFrom
    <3> QED BY <3>4 DEF f
  <2>9. Unread # <<>> /\ c' = Head(Unread) /\ Unread' = Tail(Unread)
    <3>1. PICK n \in Nat : n = till - p /\ n > 0
      BY <2>3
    <3>2. Unread = [i \in 1..n |-> getchar_buf[p + i - 1]]
      BY <2>7, <3>1
    <3>3. 1 \in 1..n /\ p + 1 - 1 = p
      BY <2>3, <3>1
    <3> DEFINE S == Chars \union {EOF}
    <3>4. Len(Unread) = n /\ Unread[1] = getchar_buf[p] /\ Unread \in Seq(S)
      <4>1. \A i \in 1..n : p + i - 1 \in 0..(BufSz - 1)
        BY <2>3, <3>1
      <4>2. \A i \in 1..n : getchar_buf[p + i - 1] \in S
        BY <4>1 DEF Inv, TypeOK
      <4> HIDE DEF S
      <4>3. Unread \in [1..n -> S]
        BY <3>2, <4>2
      <4>4. Unread \in Seq(S) /\ Len(Unread) = n
        BY <3>1, <4>3
      <4> QED BY <3>2, <3>3, <4>4
    <3> HIDE DEF S
    <3>5. Unread # <<>> /\ Head(Unread) = Unread[1]
      BY <3>1, <3>4
    <3>6. Tail(Unread) = [i \in 1..(n - 1) |-> Unread[i + 1]]
      <4>1. Tail(Unread) \in Seq(S) /\ Len(Tail(Unread)) = n - 1 /\ \A i \in 1..(n - 1) : Tail(Unread)[i] = Unread[i + 1]
        BY <3>1, <3>4, <3>5, HeadTailProperties
      <4>2. PICK t : t = Tail(Unread)
        OBVIOUS
      <4>3. t \in Seq(S) /\ Len(t) = n - 1 /\ \A i \in 1..(n - 1) : t[i] = Unread[i + 1]
        BY <4>1, <4>2
      <4>4. t = [i \in 1..(n - 1) |-> t[i]]
        BY <3>1, <4>3
      <4> QED BY <4>2, <4>3, <4>4
    <3>7. \A i \in 1..(n - 1) : Unread[i + 1] = getchar_buf[p + 1 + i - 1]
      <4> SUFFICES ASSUME NEW i \in 1..(n - 1) PROVE Unread[i + 1] = getchar_buf[p + 1 + i - 1]
        OBVIOUS
      <4>1. i + 1 \in 1..n /\ p + (i + 1) - 1 = p + 1 + i - 1
        BY <2>3, <3>1
      <4> QED BY <3>2, <4>1
    <3>8. till - (p + 1) = n - 1
      BY <2>3, <3>1
    <3>9. Unread' = [i \in 1..(n - 1) |-> getchar_buf[p + 1 + i - 1]]
      BY <2>8, <3>8
    <3> QED BY <2>1, <3>4, <3>5, <3>6, <3>7, <3>9
  <2>10. Device!Read
    BY <1>0, <2>1, <2>9 DEF Device!Read
  <2> QED BY <1>0, <2>6, <2>10 DEF TerminalStep, Device!Next
<1> QED BY <1>1, <1>2

(* ... and the others leave it alone.                                      *)
LEMMA UnreadStays ==
  ASSUME NEW till, NEW but, Filled(getchar_buf, From, till, but), but \intersect (From..BufSz) = {},
         From' = From, UNCHANGED <<~wait_for_eol, line, c, Stopped>>,
         \/ UNCHANGED getchar_buf
         \/ Filled(getchar_buf', From, till, {}) /\ \A i \in From..(till - 1) : getchar_buf'[i] = getchar_buf[i]
  PROVE  TerminalStep
<1>1. Unread' = Unread
  <2>1. CASE UNCHANGED getchar_buf
    BY <2>1, UnreadFrom
  <2>2. CASE Filled(getchar_buf', From, till, {}) /\ \A i \in From..(till - 1) : getchar_buf'[i] = getchar_buf[i]
    <3>1. From \in Nat /\ till \in Nat /\ From <= till
      BY KeyboardAssumption DEF Filled
    <3>2. Unread = [i \in 1..(till - From) |-> getchar_buf[From + i - 1]]
      BY UnreadIs, UnreadFrom
    <3>3. UnreadOf(getchar_buf', From) = [i \in 1..(till - From) |-> getchar_buf'[From + i - 1]]
      BY <2>2, UnreadIs
    <3>4. \A i \in 1..(till - From) : From + i - 1 \in From..(till - 1)
      BY <3>1
    <3>5. \A i \in 1..(till - From) : getchar_buf'[From + i - 1] = getchar_buf[From + i - 1]
      BY <2>2, <3>4
    <3> QED BY <3>2, <3>3, <3>5, UnreadFrom
  <2> QED BY <2>1, <2>2
<1> QED BY <1>1 DEF TerminalStep

LEMMA EraseReads ==
  ASSUME Inv, QueueInv, Erase
  PROVE  QueueInv' /\ TerminalStep
<1>1. /\ pc = "erase" /\ pc' = "advance" /\ p \in 0..(BufSz - 1)
      /\ getchar_buf' = [getchar_buf EXCEPT ![p] = EOF]
      /\ UNCHANGED <<~wait_for_eol, line, c, Stopped, p, getchar_buf_pos>>
  BY KeyboardAssumption DEF Erase, Inv, TypeOK, modes, Stopped
<1>2. From = p + 1 /\ From' = p + 1 /\ ~Stopped
  BY <1>1 DEF From, Stopped
<1>3. PICK till \in 0..BufSz : Filled(getchar_buf, p + 1, till, {p})
  BY <1>1, <1>2 DEF QueueInv
<1>4. getchar_buf'[p] = EOF /\ \A i \in 0..(BufSz - 1) : i # p => getchar_buf'[i] = getchar_buf[i]
  BY <1>1 DEF Inv, TypeOK
<1>5. Filled(getchar_buf', p + 1, till, {})
  <2>1. ~(p + 1 <= p)
    BY <1>1
  <2> QED BY <1>3, <1>4, <2>1 DEF Filled
<1>6. QueueInv'
  BY <1>1, <1>2, <1>5 DEF QueueInv
<1>7. \A i \in (p + 1)..(till - 1) : getchar_buf'[i] = getchar_buf[i]
  <2>1. \A i \in (p + 1)..(till - 1) : i \in 0..(BufSz - 1) /\ i # p
    BY <1>1, <1>3, KeyboardAssumption
  <2> QED BY <1>4, <2>1
<1>8. {p} \intersect ((p + 1)..BufSz) = {}
  BY <1>1
<1> QED BY <1>1, <1>2, <1>3, <1>5, <1>6, <1>7, <1>8, UnreadStays

LEMMA GetCharReads ==
  ASSUME Inv, QueueInv, Point \/ Advance \/ Peek \/ Reset \/ Return
  PROVE  QueueInv' /\ TerminalStep
<1> USE DEF Inv, TypeOK
<1>0. UNCHANGED <<~wait_for_eol, line, c, getchar_buf>>
  BY DEF Point, Advance, Peek, Reset, Return, modes, bufs
<1>1. PICK till \in 0..BufSz :
        /\ Filled(getchar_buf, From, till, {})
        /\ pc \in {"run", "point"} => till > From \/ getchar_buf_pos = 0
        /\ pc = "spin" => till > p \/ (p = 0 /\ getchar_buf_pos = 0)
        /\ pc = "peek" => getchar_buf_pos = p + 1
        /\ pc = "reset" => till = p + 1
        /\ pc = "return" => getchar_buf_pos = IF till > p + 1 THEN p + 1 ELSE 0
  <2>1. ~Stopped /\ pc # "erase"
    BY DEF Point, Advance, Peek, Reset, Return, Stopped
  <2> QED BY <2>1 DEF QueueInv
<1>2. till \in Nat /\ p \in Nat /\ BufSz \in Nat /\ till <= BufSz
  BY KeyboardAssumption
<1>3. ASSUME From' = From, ~Stopped, ~Stopped' PROVE TerminalStep
  <2>1. UNCHANGED Stopped
    BY <1>3 DEF Stopped
  <2> QED BY <1>0, <1>1, <1>3, <2>1, UnreadStays
<1>4. CASE Point
  <2>1. pc = "point" /\ pc' = "spin" /\ p' = getchar_buf_pos /\ UNCHANGED getchar_buf_pos
    BY <1>4 DEF Point, bufs
  <2>2. From = p' /\ From' = p' /\ ~Stopped /\ ~Stopped'
    BY <2>1 DEF From, Stopped
  <2>3. QueueInv'
    BY <1>0, <1>1, <2>1, <2>2 DEF QueueInv
  <2> QED BY <1>3, <2>2, <2>3
<1>5. CASE Advance
  <2>1. pc = "advance" /\ pc' = "peek" /\ getchar_buf_pos' = p + 1 /\ p' = p
    BY <1>5 DEF Advance
  <2>2. From = p + 1 /\ From' = p + 1 /\ ~Stopped /\ ~Stopped'
    BY <2>1 DEF From, Stopped
  <2>3. QueueInv'
    BY <1>0, <1>1, <2>1, <2>2 DEF QueueInv
  <2> QED BY <1>3, <2>2, <2>3
<1>6. CASE Peek
  <2>1. /\ pc = "peek" /\ p' = p /\ getchar_buf_pos' = getchar_buf_pos /\ getchar_buf_pos = p + 1
        /\ pc' = IF p + 1 = BufSz THEN "broken" ELSE IF getchar_buf[p + 1] = EOF THEN "reset" ELSE "return"
    BY <1>1, <1>6 DEF Peek, bufs
  <2>2. From = p + 1 /\ ~Stopped
    BY <2>1 DEF From, Stopped
  <2>3. CASE p + 1 = BufSz
    <3>1. Stopped'
      BY <2>1, <2>3 DEF Stopped
    <3>2. QueueInv' /\ Device!Stop
      BY <1>0, <3>1 DEF QueueInv, Device!Stop
    <3> QED BY <2>2, <3>2 DEF TerminalStep, Device!Next
  <2>4. CASE p + 1 # BufSz
    <3>0. p + 1 \in 0..(BufSz - 1) /\ p + 1 <= till
      BY <1>1, <1>2, <2>1, <2>2, <2>4 DEF Filled
    <3>1. getchar_buf[p + 1] = EOF <=> till = p + 1
      BY <1>1, <1>2, <2>2, <3>0 DEF Filled
    <3>2. From' = p + 1 /\ ~Stopped' /\ pc' = IF till = p + 1 THEN "reset" ELSE "return"
      BY <2>1, <2>4, <3>1 DEF From, Stopped
    <3>3. pc' = "return" => till > p + 1
      BY <1>2, <3>0, <3>2
    <3>4. QueueInv'
      BY <1>0, <1>1, <2>1, <2>2, <3>2, <3>3 DEF QueueInv
    <3> QED BY <1>3, <2>2, <3>2, <3>4
  <2> QED BY <2>3, <2>4
<1>7. CASE Reset
  <2>1. pc = "reset" /\ pc' = "return" /\ getchar_buf_pos' = 0 /\ p' = p /\ till = p + 1
    BY <1>1, <1>7 DEF Reset
  <2>2. From = p + 1 /\ From' = p + 1 /\ ~Stopped /\ ~Stopped'
    BY <2>1 DEF From, Stopped
  <2>3. QueueInv'
    BY <1>0, <1>1, <1>2, <2>1, <2>2 DEF QueueInv
  <2> QED BY <1>3, <2>2, <2>3
<1>8. CASE Return
  <2>1. /\ pc = "return" /\ pc' = "run" /\ p' = p /\ getchar_buf_pos' = getchar_buf_pos
        /\ getchar_buf_pos = IF till > p + 1 THEN p + 1 ELSE 0
    BY <1>1, <1>8 DEF Return, bufs
  <2>2. From = p + 1 /\ From' = getchar_buf_pos /\ ~Stopped /\ ~Stopped' /\ p + 1 <= till
    BY <1>1, <1>2, <2>1, KeyboardAssumption DEF From, Stopped, Filled
  <2>3. CASE till > p + 1
    <3>1. From' = From
      BY <2>1, <2>2, <2>3
    <3>2. QueueInv'
      BY <1>0, <1>1, <2>1, <2>2, <2>3, <3>1 DEF QueueInv
    <3> QED BY <1>3, <2>2, <3>1, <3>2
  <2>4. CASE till = p + 1
    <3>1. getchar_buf_pos = 0 /\ From' = 0
      BY <2>1, <2>2, <2>4, <1>2
    <3>2. Filled(getchar_buf, 0, 0, {})
      <4>1. \A i \in 0..(BufSz - 1) : ~(p + 1 <= i /\ i < p + 1) /\ ~(0 <= i /\ i < 0)
        BY <1>2
      <4> QED BY <1>1, <1>2, <2>2, <2>4, <4>1 DEF Filled
    <3>3. QueueInv'
      <4>1. 0 \in 0..BufSz
        BY <1>2
      <4> QED BY <1>0, <2>1, <3>1, <3>2, <4>1 DEF QueueInv
    <3>4. Unread = <<>>
      <4>1. Filled(getchar_buf, p + 1, p + 1, {})
        BY <1>1, <2>2, <2>4
      <4>2. UnreadOf(getchar_buf, p + 1) = [i \in 1..((p + 1) - (p + 1)) |-> getchar_buf[p + 1 + i - 1]]
        BY <4>1, UnreadIs
      <4>3. 1..((p + 1) - (p + 1)) = {}
        BY <1>2
      <4> QED BY <2>2, <4>2, <4>3, UnreadFrom
    <3>5. Unread' = <<>>
      <4>1. UnreadOf(getchar_buf, 0) = [i \in 1..(0 - 0) |-> getchar_buf[0 + i - 1]]
        BY <3>2, UnreadIs
      <4> QED BY <1>0, <3>1, <4>1, UnreadFrom
    <3>6. UNCHANGED Stopped
      BY <2>2 DEF Stopped
    <3> QED BY <1>0, <3>3, <3>4, <3>5, <3>6 DEF TerminalStep
  <2> QED BY <1>2, <2>2, <2>3, <2>4
<1> QED BY <1>4, <1>5, <1>6, <1>7, <1>8

LEMMA QueueNext ==
  ASSUME typist.patient, Inv, QueueInv, [Next]_vars
  PROVE  QueueInv' /\ TerminalStep
<1>1. CASE \E k \in Keys : Press(k)
  BY <1>1, PressQueues
<1>2. ASSUME UNCHANGED <<bufs, pc, p, c>>, UNCHANGED wait_for_eol \/ pc = "run"
      PROVE  QueueInv' /\ TerminalStep
  <2>1. QueueInv' /\ Unread' = Unread /\ UNCHANGED <<line, c, Stopped>>
    BY <1>2, QueueSame DEF bufs, Stopped
  <2>2. CASE UNCHANGED wait_for_eol
    BY <2>1, <2>2 DEF TerminalStep
  <2>3. CASE pc = "run"
    <3>1. Device!SetMode /\ ~Stopped
      BY <2>1, <2>3 DEF Device!SetMode, Stopped
    <3> QED BY <2>1, <3>1 DEF TerminalStep, Device!Next
  <2> QED BY <1>2, <2>2, <2>3
<1>3. CASE \E k \in Keys : Release(k)
  BY <1>2, <1>3 DEF Release, modes, prog
<1>4. CASE \E m \in Modes : SetMode(m)
  BY <1>2, <1>4 DEF SetMode, prog
<1>5. CASE \E l \in Layouts : SetLayout(l)
  BY <1>2, <1>5 DEF SetLayout, modes, prog
<1>6. CASE Call
  <2>1. /\ pc = "run" /\ pc' = "point"
        /\ UNCHANGED <<~wait_for_eol, line, c, getchar_buf, getchar_buf_pos, p>>
    BY <1>6 DEF Call, modes
  <2>2. From' = From /\ UNCHANGED Stopped /\ ~Stopped
    BY <2>1 DEF From, Stopped
  <2>3. QueueInv'
    BY <2>1, <2>2 DEF QueueInv
  <2>4. Unread' = Unread
    BY <2>1, <2>2, UnreadFrom
  <2> QED BY <2>1, <2>2, <2>3, <2>4 DEF TerminalStep
<1>7. CASE GetChar
  BY <1>7, TakeReads, EraseReads, GetCharReads DEF GetChar
<1>8. CASE UNCHANGED vars
  BY <1>2, <1>8 DEF vars, modes, prog
<1> QED BY <1>1, <1>3, <1>4, <1>5, <1>6, <1>7, <1>8 DEF Next

(* Who types stays who he is. *)
LEMMA SameTypist == ASSUME [Next]_vars PROVE UNCHANGED typist
BY DEF Next, Press, Release, SetMode, SetLayout, Call, GetChar, Point, Take, Erase, Advance,
       Peek, Reset, Return, keys, vars

(* To a patient typist the keyboard is a terminal: whatever the layout,    *)
(* the modes and the size of the buffers, what programs read is the lines, *)
(* edited, or the keys, in the order in which they were typed, and each    *)
(* once.                                                                   *)
THEOREM KeyboardIsTerminal == Spec => IsTerminal
<1> DEFINE Queues == typist.patient => QueueInv
           Step   == [typist.patient => ~Stopped /\ Device!Next]_<<~wait_for_eol, line, Unread, c, Stopped>>
<1>1. Init => Queues /\ (typist.patient => Device!Init)
  BY QueueStarts
<1>2. Inv /\ Queues /\ [Next]_vars => Queues' /\ Step
  <2> SUFFICES ASSUME Inv, Queues, [Next]_vars PROVE Queues' /\ Step
    OBVIOUS
  <2>1. UNCHANGED typist
    BY SameTypist
  <2>2. CASE typist.patient
    BY <2>2, QueueNext DEF TerminalStep
  <2>3. CASE ~typist.patient
    BY <2>1, <2>3
  <2> QED BY <2>2, <2>3
<1> QED BY <1>1, <1>2, Invariance, PTL DEF Spec, IsTerminal

-----------------------------------------------------------------------------
(* Any typist's terminal.  A bag counts the cells that hold a character;   *)
(* the one about to be erased does not count.                              *)
Full == {i \in 0..(BufSz - 1) : getchar_buf[i] # EOF /\ ~(pc = "erase" /\ i = p)}
CellsWith(buf, full, e) == {i \in full : buf[i] = e}
BagAt(buf, full) == [e \in {buf[i] : i \in full} |-> Cardinality(CellsWith(buf, full, e))]

LEMMA InBufferIs ==
  /\ InBuffer = BagAt(getchar_buf, Full)
  /\ InBuffer' = BagAt(getchar_buf', Full')
BY DEF InBuffer, BagAt, CellsWith, Full

LEMMA CellsCount ==
  ASSUME NEW S \in SUBSET (0..(BufSz - 1))
  PROVE  /\ IsFiniteSet(S) /\ Cardinality(S) \in Nat
         /\ Cardinality(S) = 0 <=> S = {}
         /\ \A T \in SUBSET S : Cardinality(T) \in Nat /\ Cardinality(T) <= Cardinality(S)
<1>1. IsFiniteSet(0..(BufSz - 1))
  BY FS_Interval, KeyboardAssumption
<1>2. IsFiniteSet(S)
  BY <1>1, FS_Subset
<1> QED BY <1>2, FS_Subset, FS_CardinalityType, FS_EmptySet

LEMMA BagAtHas ==
  ASSUME NEW buf, NEW full, NEW e
  PROVE  /\ e \in DOMAIN BagAt(buf, full) <=> CellsWith(buf, full, e) # {}
         /\ e \in DOMAIN BagAt(buf, full) =>
              BagAt(buf, full)[e] = Cardinality(CellsWith(buf, full, e))
BY DEF BagAt, CellsWith

(* One character more, in a cell that may have held another.               *)
LEMMA BagGains ==
  ASSUME NEW old, NEW buf, NEW full \in SUBSET (0..(BufSz - 1)), NEW now \in SUBSET (0..(BufSz - 1)),
         NEW j \in 0..(BufSz - 1), NEW k, now \subseteq full \union {j}, buf[j] = k,
         \A i \in now : i # j => buf[i] = old[i]
  PROVE  Lossy!\sqsubseteq(BagAt(buf, now), Lossy!BagAdd(BagAt(old, full), k))
<1> DEFINE B == BagAt(old, full)  D == BagAt(buf, now)
<1>1. ASSUME NEW e PROVE CellsWith(buf, now, e) \subseteq CellsWith(old, full, e) \union (IF e = k THEN {j} ELSE {})
  BY DEF CellsWith
<1>2. ASSUME NEW e PROVE CellsWith(old, full, e) \in SUBSET (0..(BufSz - 1)) /\ CellsWith(buf, now, e) \in SUBSET (0..(BufSz - 1))
  BY DEF CellsWith
<1>3. ASSUME NEW e, e # k, e \in DOMAIN D PROVE e \in DOMAIN B /\ D[e] <= B[e]
  <2>1. CellsWith(buf, now, e) \subseteq CellsWith(old, full, e) /\ CellsWith(buf, now, e) # {}
    BY <1>1, <1>3, BagAtHas
  <2>2. Cardinality(CellsWith(buf, now, e)) <= Cardinality(CellsWith(old, full, e))
    BY <1>2, <2>1, CellsCount
  <2> QED BY <1>3, <2>1, <2>2, BagAtHas
<1>4. ASSUME k \in DOMAIN D
      PROVE  IF k \in DOMAIN B THEN D[k] <= B[k] + 1 /\ B[k] \in Nat ELSE D[k] <= 1
  <2> DEFINE X == CellsWith(old, full, k)  Y == CellsWith(buf, now, k)
  <2>1. Y \subseteq X \union {j} /\ X \in SUBSET (0..(BufSz - 1)) /\ Y \in SUBSET (0..(BufSz - 1))
    BY <1>1, <1>2
  <2>2. D[k] = Cardinality(Y) /\ (k \in DOMAIN B <=> X # {}) /\ (k \in DOMAIN B => B[k] = Cardinality(X))
    BY <1>4, BagAtHas
  <2> HIDE DEF X, Y, B, D
  <2>3. IsFiniteSet(X) /\ Cardinality(X) \in Nat /\ (Cardinality(X) = 0 <=> X = {})
    BY <2>1, CellsCount
  <2>4. X \union {j} \in SUBSET (0..(BufSz - 1))
    BY <2>1
  <2>5. Cardinality(Y) <= Cardinality(X \union {j}) /\ Cardinality(Y) \in Nat
    BY <2>1, <2>4, CellsCount
  <2>6. Cardinality(X \union {j}) <= Cardinality(X) + 1 /\ Cardinality(X \union {j}) \in Nat
    BY <2>3, FS_AddElement
  <2> QED BY <2>2, <2>3, <2>5, <2>6
<1> HIDE DEF B, D
<1>5. DOMAIN D \subseteq DOMAIN Lossy!BagAdd(B, k)
  BY <1>3 DEF Lossy!BagAdd
<1>6. ASSUME NEW e \in DOMAIN D PROVE D[e] <= Lossy!BagAdd(B, k)[e]
  <2>1. CASE e = k
    BY <1>4, <1>6, <2>1 DEF Lossy!BagAdd
  <2>2. CASE e # k
    <3>1. e \in DOMAIN B /\ D[e] <= B[e]
      BY <1>3, <2>2
    <3>2. Lossy!BagAdd(B, k)[e] = B[e]
      BY <2>2, <3>1 DEF Lossy!BagAdd
    <3> QED BY <3>1, <3>2
  <2> QED BY <2>1, <2>2
<1> QED BY <1>5, <1>6 DEF Lossy!\sqsubseteq, B, D

LEMMA SameCardinality == ASSUME NEW S PROVE Lossy!Cardinality(S) = Cardinality(S)
BY DEF Lossy!Cardinality, Cardinality

(* A line more, over what was there.                                       *)
LEMMA BagGainsLine ==
  ASSUME NEW old, NEW buf, NEW full \in SUBSET (0..(BufSz - 1)), NEW now \in SUBSET (0..(BufSz - 1)),
         NEW S, NEW q \in Seq(S), \A i \in now : i \in full \/ i < Len(q),
         \A i \in now : buf[i] = IF i < Len(q) THEN q[i + 1] ELSE old[i]
  PROVE  Lossy!\sqsubseteq(BagAt(buf, now), Lossy!\oplus(BagAt(old, full), Lossy!BagOf(q)))
<1> DEFINE B == BagAt(old, full)  D == BagAt(buf, now)  Q == Lossy!BagOf(q)
           At(e) == {i \in 1..Len(q) : q[i] = e}
<1>0. Len(q) \in Nat /\ DOMAIN q = 1..Len(q)
  BY LenProperties
<1>1. ASSUME NEW e
      PROVE  /\ e \in DOMAIN Q <=> At(e) # {}
             /\ e \in DOMAIN Q => Q[e] = Cardinality(At(e))
             /\ IsFiniteSet(At(e)) /\ Cardinality(At(e)) \in Nat /\ (Cardinality(At(e)) = 0 <=> At(e) = {})
  <2>1. (e \in DOMAIN Q <=> At(e) # {}) /\ (e \in DOMAIN Q => Q[e] = Cardinality(At(e)))
    <3>0. PICK I : I = DOMAIN q
      OBVIOUS
    <3>01. Q = [x \in {q[i] : i \in I} |-> Cardinality({i \in I : q[i] = x})]
      BY <3>0, SameCardinality DEF Lossy!BagOf
    <3>02. I = 1..Len(q)
      BY <1>0, <3>0
    <3>1. Q = [x \in {q[i] : i \in 1..Len(q)} |-> Cardinality({i \in 1..Len(q) : q[i] = x})]
      BY <3>01, <3>02
    <3>2. DOMAIN Q = {q[i] : i \in 1..Len(q)}
      BY <3>1
    <3> HIDE DEF Q
    <3>3. e \in DOMAIN Q => Q[e] = Cardinality(At(e))
      BY <3>1, <3>2
    <3>4. e \in DOMAIN Q <=> At(e) # {}
      <4> HIDE DEF At
      <4>1. \A i : i \in At(e) <=> i \in 1..Len(q) /\ q[i] = e
        BY DEF At
      <4> QED BY <3>2, <4>1
    <3> QED BY <3>3, <3>4
  <2>2. IsFiniteSet(1..Len(q)) /\ At(e) \subseteq 1..Len(q)
    BY <1>0, FS_Interval
  <2>3. IsFiniteSet(At(e))
    BY <2>2, FS_Subset
  <2> QED BY <2>1, <2>3, FS_CardinalityType, FS_EmptySet
<1>2. ASSUME NEW e, e \in DOMAIN D
      PROVE  /\ e \in DOMAIN B \union DOMAIN Q
             /\ D[e] <= (IF e \in DOMAIN B THEN B[e] ELSE 0) + (IF e \in DOMAIN Q THEN Q[e] ELSE 0)
  <2> DEFINE X == CellsWith(old, full, e)  Y == CellsWith(buf, now, e)
             Z == {i - 1 : i \in At(e)}
  <2>1. X \in SUBSET (0..(BufSz - 1)) /\ Y \in SUBSET (0..(BufSz - 1)) /\ Y # {} /\ D[e] = Cardinality(Y)
    <3>1. X \in SUBSET (0..(BufSz - 1)) /\ Y \in SUBSET (0..(BufSz - 1))
      BY DEF CellsWith
    <3>2. Y # {} /\ D[e] = Cardinality(Y)
      BY <1>2, BagAtHas
    <3> QED BY <3>1, <3>2
  <2>2. (e \in DOMAIN B <=> X # {}) /\ (e \in DOMAIN B => B[e] = Cardinality(X))
    BY BagAtHas
  <2>3. Y \subseteq X \union Z
    <3> SUFFICES ASSUME NEW i \in Y, i \notin X PROVE i \in Z
      OBVIOUS
    <3>1. i \in now /\ buf[i] = e /\ i \in 0..(BufSz - 1)
      BY DEF CellsWith
    <3>2. i < Len(q) /\ q[i + 1] = e
      BY <3>1 DEF CellsWith
    <3>3. i + 1 \in 1..Len(q) /\ (i + 1) - 1 = i
      BY <1>0, <3>1, <3>2
    <3> QED BY <3>2, <3>3
  <2>4. IsFiniteSet(Z) /\ Cardinality(Z) <= Cardinality(At(e)) /\ Cardinality(Z) \in Nat /\ (Z = {} <=> At(e) = {})
    <3> DEFINE f == [i \in At(e) |-> i - 1]
    <3>0. IsFiniteSet(At(e)) /\ (Z = {} <=> At(e) = {})
      <4>1. IsFiniteSet(At(e))
        BY <1>1
      <4>2. Z = {} <=> At(e) = {}
        <5> HIDE DEF At
        <5> QED OBVIOUS
      <4> QED BY <4>1, <4>2
    <3>1. f \in Surjection(At(e), Z)
      <4>1. f \in [At(e) -> Z]
        OBVIOUS
      <4>2. \A z \in Z : \E i \in At(e) : f[i] = z
        OBVIOUS
      <4> HIDE DEF f, At, Z
      <4> QED BY <4>1, <4>2 DEF Surjection
    <3> HIDE DEF f, At, Z
    <3>2. IsFiniteSet(Z) /\ Cardinality(Z) <= Cardinality(At(e))
      BY <3>0, <3>1, FS_Surjection
    <3> QED BY <3>0, <3>2, FS_CardinalityType
  <2>5. IsFiniteSet(X) /\ Cardinality(X) \in Nat /\ (Cardinality(X) = 0 <=> X = {})
    BY <2>1, CellsCount
  <2>6. IsFiniteSet(X \union Z) /\ Cardinality(X \union Z) <= Cardinality(X) + Cardinality(Z) /\ Cardinality(X \union Z) \in Nat
    <3>1. /\ IsFiniteSet(X \union Z) /\ IsFiniteSet(X \intersect Z)
          /\ Cardinality(X \union Z) = Cardinality(X) + Cardinality(Z) - Cardinality(X \intersect Z)
      <4> HIDE DEF X, Z
      <4> QED BY <2>4, <2>5, FS_Union, FS_Intersection
    <3>2. Cardinality(X \intersect Z) \in Nat /\ Cardinality(X \union Z) \in Nat
      <4> HIDE DEF X, Z
      <4> QED BY <3>1, FS_CardinalityType
    <3> QED BY <2>4, <2>5, <3>1, <3>2
  <2>7. Cardinality(Y) <= Cardinality(X \union Z) /\ Cardinality(Y) \in Nat
    <3> HIDE DEF X, Y, Z
    <3>1. Cardinality(Y) <= Cardinality(X \union Z)
      BY <2>3, <2>6, FS_Subset
    <3>2. Cardinality(Y) \in Nat
      BY <2>1, CellsCount
    <3> QED BY <3>1, <3>2
  <2>8. (e \in DOMAIN Q <=> At(e) # {}) /\ (e \in DOMAIN Q => Q[e] = Cardinality(At(e)))
        /\ Cardinality(At(e)) \in Nat /\ (Cardinality(At(e)) = 0 <=> At(e) = {})
    BY <1>1
  <2> DEFINE n == Cardinality(At(e))
  <2>9. (e \in DOMAIN Q <=> Z # {}) /\ (e \in DOMAIN Q => Q[e] = n) /\ n \in Nat /\ (n = 0 <=> Z = {}) /\ Cardinality(Z) <= n
    BY <2>4, <2>8
  <2> HIDE DEF X, Y, Z, B, D, Q, At, n
  <2>10. e \in DOMAIN B \union DOMAIN Q
    BY <2>1, <2>2, <2>3, <2>9
  <2>11. (IF e \in DOMAIN B THEN B[e] ELSE 0) = Cardinality(X) /\ (IF e \in DOMAIN Q THEN Q[e] ELSE 0) = n
    BY <2>2, <2>5, <2>9
  <2> QED BY <2>1, <2>4, <2>5, <2>6, <2>7, <2>9, <2>10, <2>11
<1> HIDE DEF B, D, Q
<1> QED BY <1>2 DEF Lossy!\sqsubseteq, Lossy!\oplus, B, D, Q

(* One character less.                                                     *)
LEMMA BagLoses ==
  ASSUME NEW buf, NEW full \in SUBSET (0..(BufSz - 1)), NEW j \in full
  PROVE  /\ Lossy!BagIn(buf[j], BagAt(buf, full))
         /\ BagAt(buf, full \ {j}) = Lossy!BagRemove(BagAt(buf, full), buf[j])
<1> DEFINE B == BagAt(buf, full)  D == BagAt(buf, full \ {j})  k == buf[j]
           X == CellsWith(buf, full, k)  Y == CellsWith(buf, full \ {j}, k)
<1>1. Y = X \ {j} /\ j \in X /\ X \in SUBSET (0..(BufSz - 1)) /\ Y \in SUBSET (0..(BufSz - 1))
  BY DEF CellsWith
<1>2. ASSUME NEW e, e # k PROVE CellsWith(buf, full \ {j}, e) = CellsWith(buf, full, e)
  BY <1>2 DEF CellsWith
<1>3. ASSUME NEW e, e # k PROVE (e \in DOMAIN D <=> e \in DOMAIN B) /\ (e \in DOMAIN B => D[e] = B[e])
  BY <1>2, <1>3, BagAtHas
<1>4. k \in DOMAIN B /\ B[k] = Cardinality(X) /\ (k \in DOMAIN D <=> Y # {}) /\ (k \in DOMAIN D => D[k] = Cardinality(Y))
  BY <1>1, BagAtHas
<1>5. DOMAIN B = {buf[i] : i \in full} /\ DOMAIN D = {buf[i] : i \in full \ {j}}
      /\ B = [e \in DOMAIN B |-> B[e]] /\ D = [e \in DOMAIN D |-> D[e]]
  BY DEF BagAt
<1> HIDE DEF X, Y, B, D, k
<1>6. IsFiniteSet(X) /\ Cardinality(X) \in Nat /\ (Cardinality(Y) = 0 <=> Y = {}) /\ Cardinality(Y) \in Nat
  BY <1>1, CellsCount
<1>7. Cardinality(Y) = Cardinality(X) - 1
  BY <1>1, <1>6, FS_RemoveElement
<1>8. D = Lossy!BagRemove(B, k)
  <2>1. CASE B[k] = 1
    <3>1. DOMAIN D = DOMAIN B \ {k} /\ \A e \in DOMAIN D : D[e] = B[e]
      BY <1>3, <1>4, <1>6, <1>7, <2>1
    <3>2. Lossy!BagRemove(B, k) = [e \in DOMAIN B \ {k} |-> B[e]]
      BY <1>4, <2>1 DEF Lossy!BagRemove
    <3> QED BY <1>5, <3>1, <3>2
  <2>2. CASE B[k] # 1
    <3>1. DOMAIN D = DOMAIN B /\ \A e \in DOMAIN D : D[e] = IF e = k THEN B[e] - 1 ELSE B[e]
      BY <1>3, <1>4, <1>6, <1>7, <2>2
    <3>2. Lossy!BagRemove(B, k) = [e \in DOMAIN B |-> IF e = k THEN B[e] - 1 ELSE B[e]]
      BY <1>4, <2>2 DEF Lossy!BagRemove
    <3> QED BY <1>5, <3>1, <3>2
  <2> QED BY <2>1, <2>2
<1> QED BY <1>4, <1>8 DEF Lossy!BagIn, Lossy!BagToSet, B, D, k

(* A step of the lossy terminal. *)
LossyStep == [~Stopped /\ Lossy!Next]_<<~wait_for_eol, line, InBuffer, c, Stopped>>

LEMMA LossyStarts == Init => Lossy!Init
<1> SUFFICES ASSUME Init PROVE Lossy!Init
  OBVIOUS
<1>1. Full = {} /\ line = <<>> /\ ~Stopped
  BY DEF Init, Full, Stopped
<1>2. InBuffer = [e \in {} |-> 1]
  BY <1>1, InBufferIs DEF BagAt
<1> QED BY <1>1, <1>2 DEF Lossy!Init, Lossy!EmptyBag, Lossy!SetToBag

LEMMA LossyStops ==
  ASSUME ~Stopped, Stopped'
  PROVE  LossyStep
BY DEF LossyStep, Lossy!Next, Lossy!Stop

LEMMA FullIn == Full \in SUBSET (0..(BufSz - 1)) /\ Full' \in SUBSET (0..(BufSz - 1))
BY DEF Full

LEMMA InBufferSame ==
  ASSUME UNCHANGED getchar_buf,
         \/ UNCHANGED <<pc, p>>
         \/ pc # "erase" /\ pc' # "erase"
  PROVE  InBuffer' = InBuffer
<1>1. Full' = Full
  BY DEF Full
<1> QED BY <1>1, InBufferIs

LEMMA RawIsIn ==
  ASSUME Inv, ~Stopped, NEW ch \in Chars, ~wait_for_eol, StoreRaw(ch), UNCHANGED <<modes, p, c>>
  PROVE  LossyStep
<1>1. CASE getchar_buf_pos < BufSz
  <2>1. /\ getchar_buf_pos \in 0..(BufSz - 1)
        /\ getchar_buf' = [getchar_buf EXCEPT ![getchar_buf_pos] = ch] /\ UNCHANGED <<line, pc>>
    BY <1>1, KeyboardAssumption DEF StoreRaw, Inv, TypeOK
  <2>2. getchar_buf'[getchar_buf_pos] = ch
        /\ \A i \in 0..(BufSz - 1) : i # getchar_buf_pos => getchar_buf'[i] = getchar_buf[i]
    BY <2>1 DEF Inv, TypeOK
  <2>3. Full' \subseteq Full \union {getchar_buf_pos}
    BY <2>1, <2>2 DEF Full
  <2>4. \A i \in Full' : i # getchar_buf_pos => getchar_buf'[i] = getchar_buf[i]
    BY <2>2, FullIn
  <2>5. Lossy!\sqsubseteq(BagAt(getchar_buf', Full'), Lossy!BagAdd(BagAt(getchar_buf, Full), ch))
    BY <2>1, <2>2, <2>3, <2>4, FullIn, BagGains
  <2>6. Lossy!\sqsubseteq(InBuffer', Lossy!BagAdd(InBuffer, ch))
    BY <2>5, InBufferIs
  <2>7. UNCHANGED <<~wait_for_eol, line, c, Stopped>>
    BY <2>1 DEF modes, Stopped
  <2>8. Lossy!RawKey(ch)
    BY <2>6, <2>7 DEF Lossy!RawKey
  <2> QED BY <2>8 DEF LossyStep, Lossy!Next
<1>2. CASE ~(getchar_buf_pos < BufSz)
  <2>1. Stopped'
    BY <1>2 DEF StoreRaw, Stopped
  <2> QED BY <2>1, LossyStops
<1> QED BY <1>1, <1>2

LEMMA LineIsIn ==
  ASSUME Inv, ~Stopped, NL \in Chars, wait_for_eol, Len(line) < BufSz, EndLine, UNCHANGED <<modes, p, c, pc>>
  PROVE  LossyStep
<1> DEFINE q == Append(line, NL)
<1>1. line \in Seq(Chars) /\ BufSz \in Nat \ {0}
  BY KeyboardAssumption DEF Inv, TypeOK
<1>2. q \in Seq(Chars) /\ Len(q) = Len(line) + 1
      /\ \A i \in 1..Len(q) : q[i] = IF i <= Len(line) THEN line[i] ELSE NL
  BY <1>1, AppendProperties
<1>3. Len(line) \in Nat
  BY <1>1
<1>4. \A i \in 0..(BufSz - 1) : getchar_buf'[i] = IF i < Len(line) THEN line[i + 1]
                                                  ELSE IF i = Len(line) THEN NL ELSE getchar_buf[i]
  BY DEF EndLine
<1> HIDE DEF q
<1>5. ASSUME NEW i \in 0..(BufSz - 1)
      PROVE  getchar_buf'[i] = IF i < Len(q) THEN q[i + 1] ELSE getchar_buf[i]
  <2>1. CASE i < Len(line)
    <3>1. i + 1 \in 1..Len(q) /\ i + 1 <= Len(line) /\ i < Len(q)
      BY <1>2, <1>3, <2>1
    <3> QED BY <1>2, <1>4, <2>1, <3>1
  <2>2. CASE i = Len(line)
    <3>1. i + 1 \in 1..Len(q) /\ ~(i + 1 <= Len(line)) /\ i < Len(q) /\ ~(i < Len(line))
      BY <1>2, <1>3, <2>2
    <3> QED BY <1>2, <1>4, <2>2, <3>1
  <2>3. CASE i > Len(line)
    <3>1. ~(i < Len(q)) /\ ~(i < Len(line)) /\ i # Len(line)
      BY <1>2, <1>3, <2>3
    <3> QED BY <1>4, <3>1
  <2> QED BY <1>3, <2>1, <2>2, <2>3
<1>6. \A i \in Full' : i \in Full \/ i < Len(q)
  BY <1>5, FullIn DEF Full
<1>7. \A i \in Full' : getchar_buf'[i] = IF i < Len(q) THEN q[i + 1] ELSE getchar_buf[i]
  BY <1>5, FullIn
<1>8. Lossy!\sqsubseteq(BagAt(getchar_buf', Full'), Lossy!\oplus(BagAt(getchar_buf, Full), Lossy!BagOf(q)))
  BY <1>2, <1>6, <1>7, FullIn, BagGainsLine
<1>9. line' = <<>> /\ UNCHANGED <<~wait_for_eol, c, Stopped>>
  BY DEF EndLine, modes, Stopped
<1>10. Lossy!EndLine
  BY <1>8, <1>9, InBufferIs DEF Lossy!EndLine, q
<1> QED BY <1>10 DEF LossyStep, Lossy!Next

LEMMA PressIsIn ==
  ASSUME Inv, NEW k \in Keys, Press(k)
  PROVE  LossyStep
<1> DEFINE ch == FinalKey(k)
<1>1. ch \in Chars
  BY FinalKeyType DEF Inv, TypeOK
<1>2. ~Stopped /\ Input(ch) /\ UNCHANGED <<modes, p, c>>
  BY DEF Press, Arrives
<1> HIDE DEF ch
<1>3. ASSUME UNCHANGED <<getchar_buf, pc>>
      PROVE  InBuffer' = InBuffer /\ UNCHANGED <<~wait_for_eol, c, Stopped>>
  BY <1>2, <1>3, InBufferSame DEF modes, Stopped
<1>4. CASE UNCHANGED <<bufs, pc>>
  BY <1>3, <1>4 DEF bufs, LossyStep
<1>5. CASE ~wait_for_eol /\ StoreRaw(ch)
  BY <1>1, <1>2, <1>5, RawIsIn
<1>6. CASE wait_for_eol /\ StoreLine(ch)
  <2>1. CASE pc' = "panic"
    <3>1. Stopped'
      BY <2>1 DEF Stopped
    <3> QED BY <1>2, <3>1, LossyStops
  <2>2. CASE Len(line) < BufSz /\ ch = NL /\ EndLine /\ UNCHANGED pc
    BY <1>1, <1>2, <1>6, <2>2, LineIsIn
  <2>3. CASE ch = BS /\ Backspace /\ UNCHANGED pc
    <3>1. InBuffer' = InBuffer /\ UNCHANGED <<~wait_for_eol, c, Stopped>>
      BY <1>3, <2>3 DEF Backspace
    <3>2. CASE line = <<>>
      BY <2>3, <3>1, <3>2 DEF Backspace, LossyStep
    <3>3. CASE line # <<>>
      <4>1. Lossy!Edit
        BY <1>6, <2>3, <3>1, <3>3 DEF Backspace, Lossy!Edit, Front, Lossy!Front
      <4> QED BY <1>2, <4>1 DEF LossyStep, Lossy!Next
    <3> QED BY <3>2, <3>3
  <2>4. CASE ch \notin {NL, BS} /\ AddToLine(ch) /\ UNCHANGED pc
    <3>1. InBuffer' = InBuffer /\ UNCHANGED <<~wait_for_eol, c, Stopped>>
      BY <1>3, <2>4 DEF AddToLine
    <3>2. Lossy!Edit
      BY <1>1, <1>6, <2>4, <3>1 DEF AddToLine, Lossy!Edit
    <3> QED BY <1>2, <3>2 DEF LossyStep, Lossy!Next
  <2> QED BY <1>6, <2>1, <2>2, <2>3, <2>4 DEF StoreLine
<1> QED BY <1>2, <1>4, <1>5, <1>6 DEF Input

LEMMA TakeIsOut ==
  ASSUME Inv, Take
  PROVE  LossyStep
<1>1. /\ pc = "spin" /\ ~Stopped /\ p \in 0..BufSz
      /\ UNCHANGED <<~wait_for_eol, line, getchar_buf, p>>
  BY DEF Take, modes, bufs, Inv, TypeOK, Stopped
<1>2. CASE p = BufSz
  <2>1. Stopped'
    BY <1>2 DEF Take, Stopped
  <2> QED BY <1>1, <2>1, LossyStops
<1>3. CASE p # BufSz
  <2>1. getchar_buf[p] # EOF /\ c' = getchar_buf[p] /\ pc' = "erase" /\ UNCHANGED Stopped
    BY <1>1, <1>3 DEF Take, Stopped
  <2>2. p \in Full
    BY <1>1, <1>3, <2>1, KeyboardAssumption DEF Full
  <2>3. Full' = Full \ {p}
    BY <1>1, <2>1 DEF Full
  <2>4. /\ Lossy!BagIn(getchar_buf[p], BagAt(getchar_buf, Full))
        /\ BagAt(getchar_buf, Full \ {p}) = Lossy!BagRemove(BagAt(getchar_buf, Full), getchar_buf[p])
    BY <2>2, FullIn, BagLoses
  <2>5. Lossy!BagIn(c', InBuffer) /\ InBuffer' = Lossy!BagRemove(InBuffer, c')
    BY <1>1, <2>1, <2>3, <2>4, InBufferIs
  <2>6. Lossy!Read
    BY <1>1, <2>1, <2>5 DEF Lossy!Read
  <2> QED BY <1>1, <2>6 DEF LossyStep, Lossy!Next
<1> QED BY <1>2, <1>3

LEMMA EraseIsOut ==
  ASSUME Inv, Erase
  PROVE  LossyStep
<1>1. /\ pc = "erase" /\ pc' = "advance" /\ p \in 0..(BufSz - 1)
      /\ getchar_buf' = [getchar_buf EXCEPT ![p] = EOF]
      /\ UNCHANGED <<~wait_for_eol, line, c, Stopped, p>>
  BY KeyboardAssumption DEF Erase, Inv, TypeOK, modes, Stopped
<1>2. getchar_buf'[p] = EOF /\ \A i \in 0..(BufSz - 1) : i # p => getchar_buf'[i] = getchar_buf[i]
  BY <1>1 DEF Inv, TypeOK
<1>3. Full' = Full
  BY <1>1, <1>2 DEF Full
<1>4. \A i \in Full : getchar_buf'[i] = getchar_buf[i]
  BY <1>1, <1>2 DEF Full
<1>5. BagAt(getchar_buf', Full) = BagAt(getchar_buf, Full)
  <2>1. \A e : CellsWith(getchar_buf', Full, e) = CellsWith(getchar_buf, Full, e)
    BY <1>4 DEF CellsWith
  <2>2. {getchar_buf'[i] : i \in Full} = {getchar_buf[i] : i \in Full}
    BY <1>4
  <2> QED BY <2>1, <2>2 DEF BagAt
<1>6. InBuffer' = InBuffer
  BY <1>3, <1>5, InBufferIs
<1> QED BY <1>1, <1>6 DEF LossyStep

LEMMA LossyNext ==
  ASSUME Inv, [Next]_vars
  PROVE  LossyStep
<1>1. CASE \E k \in Keys : Press(k)
  BY <1>1, PressIsIn
<1>2. ASSUME UNCHANGED <<getchar_buf, line, c, wait_for_eol>>,
             UNCHANGED <<pc, p>> \/ (pc # "erase" /\ pc' # "erase" /\ ~Stopped /\ ~Stopped')
      PROVE  LossyStep
  <2>1. InBuffer' = InBuffer
    BY <1>2, InBufferSame
  <2>2. UNCHANGED Stopped
    BY <1>2 DEF Stopped
  <2> QED BY <1>2, <2>1, <2>2 DEF LossyStep
<1>3. CASE \E k \in Keys : Release(k)
  BY <1>2, <1>3 DEF Release, modes, bufs, prog
<1>4. CASE \E m \in Modes : SetMode(m)
  <2>1. pc = "run" /\ UNCHANGED <<bufs, prog>>
    BY <1>4 DEF SetMode
  <2>2. InBuffer' = InBuffer /\ UNCHANGED Stopped /\ ~Stopped
    BY <2>1, InBufferSame DEF bufs, prog, Stopped
  <2>3. Lossy!SetMode
    BY <2>1, <2>2 DEF Lossy!SetMode, bufs, prog
  <2> QED BY <2>2, <2>3 DEF LossyStep, Lossy!Next
<1>5. CASE \E l \in Layouts : SetLayout(l)
  BY <1>2, <1>5 DEF SetLayout, modes, bufs, prog
<1>6. CASE Call
  BY <1>2, <1>6 DEF Call, modes, Stopped
<1>7. CASE Point \/ Advance \/ Reset \/ Return
  BY <1>2, <1>7 DEF Point, Advance, Reset, Return, modes, bufs, Stopped
<1>8. CASE Peek
  <2>1. /\ pc = "peek" /\ ~Stopped /\ pc' \in {"broken", "reset", "return"}
        /\ UNCHANGED <<getchar_buf, line, c, wait_for_eol>>
    BY <1>8 DEF Peek, modes, bufs, Stopped
  <2>2. CASE pc' = "broken"
    <3>1. Stopped'
      BY <2>2 DEF Stopped
    <3> QED BY <2>1, <3>1, LossyStops
  <2>3. CASE pc' # "broken"
    BY <1>2, <2>1, <2>3 DEF Stopped
  <2> QED BY <2>2, <2>3
<1>9. CASE Take \/ Erase
  BY <1>9, TakeIsOut, EraseIsOut
<1>10. CASE UNCHANGED vars
  BY <1>2, <1>10 DEF vars, modes, bufs, prog
<1> QED BY <1>1, <1>3, <1>4, <1>5, <1>6, <1>7, <1>8, <1>9, <1>10 DEF Next, GetChar

(* Whenever keys come, between whichever two steps of kb_getchar: what it  *)
(* returns was typed, is returned once at most, and - in line mode - only  *)
(* when its line has ended and unless it was erased.                       *)
THEOREM KeyboardIsLossyTerminal == Spec => IsLossyTerminal
<1>1. Init => Lossy!Init
  BY LossyStarts
<1>2. Inv /\ [Next]_vars => LossyStep
  BY LossyNext
<1> QED BY <1>1, <1>2, Invariance, PTL DEF Spec, IsLossyTerminal, Lossy!Spec, LossyStep

-----------------------------------------------------------------------------
(* What the screen shows.  There is a least number in a set of them.       *)
LEMMA Least ==
  ASSUME NEW T \in SUBSET Nat, T # {}
  PROVE  \E m \in T : \A k \in T : m <= k
<1> DEFINE R == OpToRel(<, Nat)
<1>1. IsWellFoundedOn(R, Nat)
  BY NatLessThanWellFounded, Zenon
<1>2. R = {ss \in Nat \X Nat : ss[1] < ss[2]}
  BY Zenon DEF OpToRel
<1>3. \A x, y \in Nat : x < y => <<x, y>> \in {ss \in Nat \X Nat : ss[1] < ss[2]}
  OBVIOUS
<1>4. \A x, y \in Nat : x < y => <<x, y>> \in R
  BY <1>2, <1>3, Zenon
<1> HIDE DEF R
<1>5. PICK m \in T : \A k \in T : ~(<<k, m>> \in R)
  BY <1>1, WFMin
<1>6. \A k \in T : ~(k < m)
  BY <1>4, <1>5, Zenon
<1> QED
  BY <1>6

(* The rows after each character of a text.                                *)
AreRows(g, text, n) ==
  /\ g[0] = <<Prompt>>
  /\ \A k \in 1..n : g[k] = Printed(g[k - 1], text[k])

(* They depend on the text up to there, ...                                *)
LEMMA RowsAgree ==
  ASSUME NEW text, NEW other, NEW n \in Nat, \A k \in 1..n : text[k] = other[k],
         NEW g, NEW h, AreRows(g, text, n), AreRows(h, other, n)
  PROVE  g[n] = h[n]
<1> DEFINE B == {k \in 0..n : g[k] # h[k]}
<1>1. B = {}
  <2> SUFFICES ASSUME B # {} PROVE FALSE
    OBVIOUS
  <2>1. PICK m \in B : \A k \in B : m <= k
    <3>1. B \in SUBSET Nat
      OBVIOUS
    <3> HIDE DEF B
    <3> QED BY <3>1, Least
  <2>2. m \in 0..n /\ g[m] # h[m]
    OBVIOUS
  <2>3. \A k \in 0..n : k < m => g[k] = h[k]
    BY <2>1, <2>2
  <2> HIDE DEF B
  <2>4. m # 0
    BY <2>2 DEF AreRows
  <2>5. m \in 1..n /\ m - 1 \in 0..n /\ m - 1 < m
    BY <2>2, <2>4
  <2>6. g[m - 1] = h[m - 1] /\ text[m] = other[m]
    BY <2>3, <2>5
  <2>7. g[m] = Printed(g[m - 1], text[m]) /\ h[m] = Printed(h[m - 1], other[m])
    BY <2>5 DEF AreRows
  <2> QED BY <2>2, <2>6, <2>7
<1> QED BY <1>1

(* ... and there always are such rows.                                     *)
LEMMA RowsExist ==
  ASSUME NEW text, NEW n \in Nat
  PROVE  \E g : g = [k \in 0..n |-> IF k = 0 THEN <<Prompt>> ELSE Printed(g[k - 1], text[k])]
<1> DEFINE Has(m) == \E g : g = [k \in 0..m |-> IF k = 0 THEN <<Prompt>> ELSE Printed(g[k - 1], text[k])]
           B == {m \in Nat : ~Has(m)}
<1>1. Has(0)
  <2> DEFINE f == [k \in 0..0 |-> <<Prompt>>]
  <2>1. \A k \in 0..0 : k = 0
    OBVIOUS
  <2>2. f = [k \in 0..0 |-> IF k = 0 THEN <<Prompt>> ELSE Printed(f[k - 1], text[k])]
    BY <2>1
  <2> QED BY <2>2
<1>2. ASSUME NEW m \in Nat, Has(m) PROVE Has(m + 1)
  <2>1. PICK g : g = [k \in 0..m |-> IF k = 0 THEN <<Prompt>> ELSE Printed(g[k - 1], text[k])]
    BY <1>2
  <2> DEFINE f == [k \in 0..(m + 1) |-> IF k <= m THEN g[k] ELSE Printed(g[m], text[m + 1])]
  <2>2. \A k \in 0..m : g[k] = IF k = 0 THEN <<Prompt>> ELSE Printed(g[k - 1], text[k])
    BY <2>1
  <2>3. ASSUME NEW k \in 0..(m + 1)
        PROVE  f[k] = IF k = 0 THEN <<Prompt>> ELSE Printed(f[k - 1], text[k])
    <3>1. CASE k = 0
      <4>1. k \in 0..m /\ k <= m
        BY <3>1
      <4> QED BY <2>2, <3>1, <4>1
    <3>2. CASE k # 0 /\ k <= m
      <4>1. k \in 0..m /\ k - 1 \in 0..(m + 1) /\ k - 1 <= m
        BY <3>2
      <4>2. f[k] = g[k] /\ f[k - 1] = g[k - 1]
        BY <3>2, <4>1
      <4> HIDE DEF f
      <4>3. g[k] = Printed(g[k - 1], text[k])
        BY <2>2, <3>2, <4>1
      <4> QED BY <3>2, <4>2, <4>3
    <3>3. CASE k = m + 1
      <4>1. m \in 0..(m + 1) /\ m <= m /\ ~(k <= m) /\ k - 1 = m /\ k # 0
        BY <3>3
      <4>2. f[k] = Printed(g[m], text[m + 1]) /\ f[m] = g[m]
        BY <4>1
      <4> HIDE DEF f
      <4> QED BY <3>3, <4>1, <4>2
    <3>4. k <= m \/ k = m + 1
      OBVIOUS
    <3> QED BY <3>1, <3>2, <3>3, <3>4
  <2>4. f = [k \in 0..(m + 1) |-> f[k]]
    OBVIOUS
  <2> HIDE DEF f
  <2>5. f = [k \in 0..(m + 1) |-> IF k = 0 THEN <<Prompt>> ELSE Printed(f[k - 1], text[k])]
    BY <2>3, <2>4
  <2> QED BY <2>5
<1>3. B = {}
  <2> SUFFICES ASSUME B # {} PROVE FALSE
    OBVIOUS
  <2>1. B \in SUBSET Nat /\ \A m \in Nat : m \in B <=> ~Has(m)
    OBVIOUS
  <2> HIDE DEF B, Has
  <2>2. PICK m \in B : \A k \in B : m <= k
    BY <2>1, Least
  <2>3. m \in Nat /\ m # 0 /\ ~Has(m)
    BY <1>1, <2>1
  <2>4. m - 1 \in Nat /\ m - 1 \notin B /\ (m - 1) + 1 = m
    BY <2>2, <2>3
  <2>5. Has(m - 1)
    BY <2>1, <2>4
  <2>6. Has((m - 1) + 1)
    BY <1>2, <2>4, <2>5
  <2> QED BY <2>3, <2>4, <2>6
<1>4. n \notin B
  BY <1>3
<1>5. Has(n)
  BY <1>4
<1> QED BY <1>5

LEMMA ShownRows ==
  ASSUME NEW text, Len(text) \in Nat
  PROVE  \E g : AreRows(g, text, Len(text)) /\ Shown(text) = g[Len(text)]
<1> DEFINE g == CHOOSE f : f = [k \in 0..Len(text) |-> IF k = 0 THEN <<Prompt>> ELSE Printed(f[k - 1], text[k])]
<1>1. Shown(text) = g[Len(text)]
  BY DEF Shown
<1>2. g = [k \in 0..Len(text) |-> IF k = 0 THEN <<Prompt>> ELSE Printed(g[k - 1], text[k])]
  BY RowsExist, Zenon
<1> HIDE DEF g
<1>3. \A k \in 0..Len(text) : g[k] = IF k = 0 THEN <<Prompt>> ELSE Printed(g[k - 1], text[k])
  BY <1>2
<1>4. AreRows(g, text, Len(text))
  <2>1. 0 \in 0..Len(text) /\ \A k \in 1..Len(text) : k \in 0..Len(text) /\ k # 0
    OBVIOUS
  <2> QED BY <1>3, <2>1 DEF AreRows
<1> QED BY <1>1, <1>4

LEMMA ShownGrows ==
  ASSUME NEW S, NEW text \in Seq(S), NEW ch \in S
  PROVE  /\ Shown(<<>>) = <<Prompt>>
         /\ Shown(Append(text, ch)) = Printed(Shown(text), ch)
<1>1. Shown(<<>>) = <<Prompt>>
  <2>1. PICK e : e = <<>>
    OBVIOUS
  <2>2. Len(e) = 0
    BY <2>1
  <2>3. PICK g : AreRows(g, e, Len(e)) /\ Shown(e) = g[Len(e)]
    BY <2>2, ShownRows
  <2> QED BY <2>1, <2>2, <2>3 DEF AreRows
<1>2. PICK n \in Nat : n = Len(text)
  OBVIOUS
<1>3. PICK u : u = Append(text, ch)
  OBVIOUS
<1>4. Len(u) = n + 1 /\ u[n + 1] = ch /\ \A k \in 1..n : u[k] = text[k]
  <2>1. /\ Len(Append(text, ch)) = Len(text) + 1
        /\ \A i \in 1..Len(text) : Append(text, ch)[i] = text[i]
        /\ Append(text, ch)[Len(text) + 1] = ch
    BY AppendProperties
  <2> QED BY <1>2, <1>3, <2>1
<1>5. PICK g : AreRows(g, u, n + 1) /\ Shown(u) = g[n + 1]
  BY <1>4, ShownRows
<1>6. PICK h : AreRows(h, text, n) /\ Shown(text) = h[n]
  BY <1>2, ShownRows
<1>7. AreRows(g, u, n)
  <2>1. \A k \in 1..n : k \in 1..(n + 1)
    OBVIOUS
  <2> QED BY <1>5, <2>1 DEF AreRows
<1>8. g[n] = h[n]
  BY <1>4, <1>6, <1>7, RowsAgree
<1>9. g[n + 1] = Printed(g[n], u[n + 1])
  <2>1. n + 1 \in 1..(n + 1) /\ (n + 1) - 1 = n
    OBVIOUS
  <2>2. g[n + 1] = Printed(g[(n + 1) - 1], u[n + 1])
    BY <1>5, <2>1 DEF AreRows
  <2> QED BY <2>1, <2>2
<1> QED BY <1>1, <1>3, <1>4, <1>5, <1>6, <1>8, <1>9

(* So what a line shows is a row of the console.                           *)
LEMMA ShownType ==
  ASSUME NEW text \in Seq(Chars)
  PROVE  Shown(text) \in Seq(Chars \union {Prompt, SPACE})
<1> DEFINE S == Chars \union {Prompt, SPACE}
<1>1. PICK n \in Nat : n = Len(text)
  OBVIOUS
<1>2. PICK g : AreRows(g, text, n) /\ Shown(text) = g[n]
  BY <1>1, ShownRows
<1>3. \A k \in 1..n : text[k] \in Chars
  BY <1>1, ElementOfSeq
<1>4. <<Prompt>> \in Seq(S)
  OBVIOUS
<1> DEFINE B == {k \in 0..n : g[k] \notin Seq(S)}
<1>5. B = {}
  <2> SUFFICES ASSUME B # {} PROVE FALSE
    OBVIOUS
  <2>1. B \in SUBSET Nat /\ (\A k \in B : k \in 0..n /\ g[k] \notin Seq(S))
        /\ \A k \in 0..n : k \notin B => g[k] \in Seq(S)
    OBVIOUS
  <2> HIDE DEF B, S
  <2>2. PICK m \in B : \A k \in B : m <= k
    BY <2>1, Least
  <2>3. m \in 0..n /\ m # 0
    BY <1>2, <1>4, <2>1 DEF AreRows
  <2>4. m \in 1..n /\ m - 1 \in 0..n /\ m - 1 \notin B
    BY <2>2, <2>3
  <2>5. g[m] = Printed(g[m - 1], text[m]) /\ g[m - 1] \in Seq(S) /\ text[m] \in Chars
    BY <1>2, <1>3, <2>1, <2>4 DEF AreRows
  <2>6. g[m] \in Seq(S)
    BY <2>5, PrintedType DEF S
  <2> QED BY <2>1, <2>6
<1>6. n \in 0..n
  OBVIOUS
<1> QED BY <1>2, <1>5, <1>6

(* '\b' takes back a character that is no tab.                             *)
LEMMA ShownShrinks ==
  ASSUME NEW text \in Seq(Chars), text # <<>>, Last(text) \notin {NL, BS, TAB}
  PROVE  Front(text) \in Seq(Chars) /\ Shown(Front(text)) = Printed(Shown(text), BS)
<1> USE KeyboardAssumption
<1> DEFINE S == Chars \union {Prompt, SPACE}
<1>1. Len(text) \in Nat \ {0} /\ Last(text) \in Chars
  BY DEF Last
<1>2. PICK f : f = Front(text)
  OBVIOUS
<1>3. f \in Seq(Chars) /\ text = Append(f, Last(text))
  BY <1>1, <1>2 DEF Front, Last
<1>4. PICK row : row = Shown(f)
  OBVIOUS
<1>5. row \in Seq(S)
  BY <1>3, <1>4, ShownType
<1>6. PICK ch \in Chars : ch = Last(text)
  BY <1>1
<1>7. Shown(text) = Printed(row, ch)
  BY <1>3, <1>4, <1>6, ShownGrows
<1>8. Printed(row, ch) = Append(row, ch)
  BY <1>6 DEF Printed
<1>9. Printed(Append(row, ch), BS) = row
  <2>1. Append(row, ch) # <<>> /\ Front(Append(row, ch)) = row
    BY <1>5 DEF Front
  <2> QED BY <2>1 DEF Printed
<1> QED BY <1>2, <1>3, <1>4, <1>7, <1>8, <1>9

(* A row that shows all of a text goes on doing so when both grow, ...     *)
LEMMA ShowsAllGrows ==
  ASSUME NEW R, NEW T, NEW row \in Seq(R), NEW longer \in Seq(R), NEW text \in Seq(T), NEW ch \in T,
         ShowsAll(row, text),
         Len(longer) > Len(row), \A j \in 1..Len(row) : longer[j] = row[j],
         longer[Len(row) + 1] = IF ch = TAB THEN SPACE ELSE ch
  PROVE  ShowsAll(longer, Append(text, ch))
<1>1. PICK n \in Nat, m \in Nat, l \in Nat : n = Len(text) /\ m = Len(row) /\ l = Len(longer)
  OBVIOUS
<1>2. DOMAIN text = 1..n /\ DOMAIN row = 1..m /\ DOMAIN longer = 1..l /\ m < l
  BY <1>1
<1>3. PICK u : u = Append(text, ch)
  OBVIOUS
<1>4. DOMAIN u = 1..(n + 1) /\ u[n + 1] = ch /\ \A k \in 1..n : u[k] = text[k]
  BY <1>1, <1>3
<1>5. PICK at \in [1..n -> 1..m] :
        \A i \in 1..n : /\ row[at[i]] = IF text[i] = TAB THEN SPACE ELSE text[i]
                        /\ \A j \in 1..(i - 1) : at[j] < at[i]
  BY <1>2 DEF ShowsAll
<1> DEFINE to == [i \in 1..(n + 1) |-> IF i <= n THEN at[i] ELSE m + 1]
<1>6. \A i \in 1..n : i \in 1..(n + 1) /\ to[i] = at[i] /\ at[i] \in 1..m /\ to[i] \in 1..l
  BY <1>2, <1>5
<1>7. to[n + 1] = m + 1 /\ m + 1 \in 1..l
  BY <1>2
<1>8. to \in [1..(n + 1) -> 1..l]
  <2>1. \A i \in 1..(n + 1) : to[i] \in 1..l
    BY <1>6, <1>7
  <2> QED BY <2>1
<1> HIDE DEF to
<1>9. ASSUME NEW i \in 1..(n + 1)
      PROVE  /\ longer[to[i]] = IF u[i] = TAB THEN SPACE ELSE u[i]
             /\ \A j \in 1..(i - 1) : to[j] < to[i]
  <2>1. CASE i <= n
    <3>1. i \in 1..n /\ at[i] \in 1..m /\ to[i] = at[i]
      BY <1>6, <2>1
    <3>2. longer[at[i]] = row[at[i]] /\ u[i] = text[i]
      BY <1>1, <1>4, <3>1
    <3>3. \A j \in 1..(i - 1) : j \in 1..n /\ to[j] = at[j]
      BY <1>6, <3>1
    <3> QED BY <1>5, <3>1, <3>2, <3>3
  <2>2. CASE i = n + 1
    <3>1. to[i] = m + 1 /\ u[i] = ch
      BY <1>4, <1>7, <2>2
    <3>2. ASSUME NEW j \in 1..(i - 1) PROVE to[j] < to[i]
      <4>1. j \in 1..n
        BY <2>2
      <4>2. to[j] \in 1..m
        BY <1>6, <4>1
      <4> QED BY <3>1, <4>2
    <3> QED BY <1>1, <3>1, <3>2
  <2> QED BY <2>1, <2>2
<1>10. ShowsAll(longer, u)
  BY <1>2, <1>4, <1>8, <1>9 DEF ShowsAll
<1> QED BY <1>3, <1>10

(* ... and when each loses its last character: the text's was the row's,   *)
(* or the row's showed nothing.                                            *)
LEMMA ShowsAllShrinks ==
  ASSUME NEW R, NEW T, NEW row \in Seq(R), NEW text \in Seq(T), text # <<>>, ShowsAll(row, text)
  PROVE  row # <<>> /\ ShowsAll(Front(row), Front(text))
<1>1. PICK n \in Nat \ {0}, m \in Nat : n = Len(text) /\ m = Len(row)
  OBVIOUS
<1>2. DOMAIN text = 1..n /\ DOMAIN row = 1..m
  BY <1>1
<1>3. PICK at \in [1..n -> 1..m] :
        \A i \in 1..n : /\ row[at[i]] = IF text[i] = TAB THEN SPACE ELSE text[i]
                        /\ \A j \in 1..(i - 1) : at[j] < at[i]
  BY <1>2 DEF ShowsAll
<1>4. at[n] \in 1..m
  BY <1>3
<1>5. PICK f, r : f = Front(text) /\ r = Front(row)
  OBVIOUS
<1>6. m # 0
  BY <1>4
<1>7. /\ DOMAIN f = 1..(n - 1) /\ (\A i \in 1..(n - 1) : f[i] = text[i])
      /\ DOMAIN r = 1..(m - 1) /\ (\A i \in 1..(m - 1) : r[i] = row[i])
  BY <1>1, <1>5, <1>6 DEF Front
<1>8. ASSUME NEW i \in 1..(n - 1) PROVE i \in 1..n /\ at[i] \in 1..(m - 1)
  <2>1. i \in 1..n /\ n \in 1..n
    OBVIOUS
  <2>2. at[i] \in 1..m /\ at[i] < at[n]
    BY <1>3, <1>8, <2>1
  <2> QED BY <1>4, <2>1, <2>2
<1> DEFINE to == [i \in 1..(n - 1) |-> at[i]]
<1>9. to \in [1..(n - 1) -> 1..(m - 1)] /\ \A i \in 1..(n - 1) : to[i] = at[i]
  BY <1>8
<1> HIDE DEF to
<1>10. ASSUME NEW i \in 1..(n - 1)
       PROVE  /\ r[to[i]] = IF f[i] = TAB THEN SPACE ELSE f[i]
              /\ \A j \in 1..(i - 1) : to[j] < to[i]
  <2>1. i \in 1..n /\ to[i] = at[i] /\ at[i] \in 1..(m - 1)
    BY <1>8, <1>9
  <2>2. r[at[i]] = row[at[i]] /\ f[i] = text[i]
    BY <1>7, <2>1
  <2>3. \A j \in 1..(i - 1) : j \in 1..(n - 1) /\ to[j] = at[j]
    BY <1>9
  <2> QED BY <1>3, <2>1, <2>2, <2>3
<1>11. ShowsAll(r, f)
  BY <1>7, <1>9, <1>10 DEF ShowsAll
<1>12. row # <<>>
  BY <1>1, <1>6
<1> QED BY <1>5, <1>11, <1>12

-----------------------------------------------------------------------------
(* While a line is typed all of it is on the screen after the prompt, and  *)
(* just it unless a tab was erased; when no key would count there is none. *)
RowShows ==
  /\ ShowsAll(screen, <<Prompt>> \o line)
  /\ ~tab_erased => screen = Shown(line)

Typing == pc = "spin" /\ wait_for_eol /\ getchar_buf[p] = EOF

EchoInv ==
  /\ wait_for_eol => print_chars
  /\ ~Stopped =>
       /\ line # <<>> => Typing
       /\ (wait_for_eol /\ pc = "point") \/ Typing => RowShows

LinesAreEchoed == \A m \in Modes : m.raw \/ m.echo

(* The prompt is there before the first character. *)
LEMMA PromptShows == ShowsAll(<<Prompt>>, <<Prompt>> \o <<>>) /\ Shown(<<>>) = <<Prompt>>
<1>1. PICK u : u = <<Prompt>>
  OBVIOUS
<1>2. u \in Seq({Prompt}) /\ DOMAIN u = 1..1 /\ u[1] = Prompt
  BY <1>1
<1>3. Prompt # TAB
  BY KeyboardAssumption
<1>4. ShowsAll(u, u)
  <2> DEFINE at == [i \in 1..1 |-> 1]
  <2>1. at \in [1..1 -> 1..1] /\ at[1] = 1 /\ \A i \in 1..1 : i = 1 /\ 1..(i - 1) = {}
    OBVIOUS
  <2> HIDE DEF at
  <2> QED BY <1>2, <1>3, <2>1 DEF ShowsAll
<1>5. u \o <<>> = u
  BY <1>2
<1>6. Shown(<<>>) = <<Prompt>>
  <2>1. <<>> \in Seq({Prompt})
    OBVIOUS
  <2> QED BY <2>1, ShownGrows
<1> QED BY <1>1, <1>4, <1>5, <1>6

LEMMA AddShows ==
  ASSUME Inv, RowShows, print_chars, NEW ch \in Chars, ch \notin {NL, BS}, AddToLine(ch)
  PROVE  RowShows'
<1> DEFINE R == Chars \union {Prompt, SPACE}
           T == Chars \union {Prompt}
           text == <<Prompt>> \o line
<1>0. screen \in Seq(R) /\ line \in Seq(Chars) /\ Len(screen) \in Nat
  BY DEF Inv, TypeOK
<1>1. screen' = Printed(screen, ch) /\ line' = Append(line, ch) /\ UNCHANGED tab_erased
  BY DEF AddToLine, Echo
<1>2. screen' \in Seq(R)
  BY <1>0, <1>1, PrintedType
<1>3. /\ Len(screen') > Len(screen) /\ \A j \in 1..Len(screen) : screen'[j] = screen[j]
      /\ screen'[Len(screen) + 1] = IF ch = TAB THEN SPACE ELSE ch
  <2>1. CASE ch = TAB
    <3> DEFINE n == tabs_needed(Len(screen))
    <3>1. n \in Nat /\ n > 0
      BY <1>0 DEF tabs_needed, FBC_TABSIZE
    <3>2. Printed(screen, ch) = screen \o [i \in 1..n |-> SPACE]
      BY <2>1, KeyboardAssumption DEF Printed
    <3> HIDE DEF n
    <3>3. PICK u : u = [i \in 1..n |-> SPACE]
      OBVIOUS
    <3>4. u \in Seq(R) /\ Len(u) = n /\ u[1] = SPACE
      BY <3>1, <3>3
    <3>5. /\ Len(screen \o u) = Len(screen) + n
          /\ \A j \in 1..(Len(screen) + n) :
               (screen \o u)[j] = IF j <= Len(screen) THEN screen[j] ELSE u[j - Len(screen)]
      <4>1. /\ Len(screen \o u) = Len(screen) + Len(u)
            /\ \A j \in 1..(Len(screen) + Len(u)) :
                 (screen \o u)[j] = IF j <= Len(screen) THEN screen[j] ELSE u[j - Len(screen)]
        <5>1. screen \in Seq(R) /\ u \in Seq(R)
          BY <1>0, <3>4
        <5> HIDE DEF R, T, text
        <5> QED BY <5>1, ConcatProperties
      <4> QED BY <3>4, <4>1, Zenon
    <3> DEFINE k == Len(screen)
    <3>6. k \in Nat /\ k + n > k /\ k + 1 \in 1..(k + n) /\ ~(k + 1 <= k) /\ (k + 1) - k = 1
          /\ \A j \in 1..k : j \in 1..(k + n) /\ j <= k
      BY <1>0, <3>1
    <3> QED BY <1>1, <2>1, <3>2, <3>3, <3>4, <3>5, <3>6
  <2>2. CASE ch # TAB
    <3>1. Printed(screen, ch) = Append(screen, ch)
      BY <2>2 DEF Printed
    <3> QED BY <1>0, <1>1, <2>2, <3>1
  <2> QED BY <2>1, <2>2
<1>4. text \in Seq(T)
  BY <1>0
<1>5. Append(text, ch) = <<Prompt>> \o line'
  BY <1>0, <1>1
<1>6. ShowsAll(screen, text)
  BY DEF RowShows
<1> HIDE DEF text, R, T
<1>7. ch \in T
  BY DEF T
<1>8. ShowsAll(screen', Append(text, ch))
  BY <1>0, <1>2, <1>3, <1>4, <1>6, <1>7, ShowsAllGrows
<1>9. screen = Shown(line) => screen' = Shown(line')
  BY <1>0, <1>1, ShownGrows
<1>10. ShowsAll(screen', <<Prompt>> \o line')
  BY <1>5, <1>8
<1>11. ~tab_erased' => screen' = Shown(line')
  BY <1>1, <1>9 DEF RowShows
<1> QED BY <1>10, <1>11 DEF RowShows

LEMMA BackspaceShows ==
  ASSUME Inv, RowShows, line # <<>>, Backspace
  PROVE  RowShows'
<1> DEFINE R == Chars \union {Prompt, SPACE}
           T == Chars \union {Prompt}
           text == <<Prompt>> \o line
<1> USE KeyboardAssumption
<1>0. screen \in Seq(R) /\ line \in Seq(Chars \ {NL, BS}) /\ line \in Seq(Chars)
  BY DEF Inv, TypeOK
<1>1. screen' = Printed(screen, BS) /\ line' = Front(line)
      /\ (~tab_erased' => ~tab_erased /\ Last(line) # TAB)
  BY DEF Backspace
<1>2. text \in Seq(T) /\ text # <<>> /\ Front(text) = <<Prompt>> \o Front(line)
  BY <1>0 DEF Front
<1>3. ShowsAll(screen, text)
  BY DEF RowShows
<1>4. screen # <<>> /\ ShowsAll(Front(screen), Front(text))
  <2> HIDE DEF text, R, T
  <2> QED BY <1>0, <1>2, <1>3, ShowsAllShrinks
<1>5. screen' = Front(screen)
  BY <1>1, <1>4 DEF Printed
<1>6. ShowsAll(screen', <<Prompt>> \o line')
  BY <1>1, <1>2, <1>4, <1>5
<1>7. ASSUME ~tab_erased' PROVE screen' = Shown(line')
  <2>1. Last(line) \notin {NL, BS, TAB}
    <3>1. Last(line) \in Chars \ {NL, BS}
      BY <1>0 DEF Last
    <3> QED BY <1>1, <1>7, <3>1
  <2>2. Shown(Front(line)) = Printed(Shown(line), BS)
    BY <1>0, <2>1, ShownShrinks
  <2> QED BY <1>1, <1>7, <2>2 DEF RowShows
<1> QED BY <1>6, <1>7 DEF RowShows

LEMMA EchoStarts == Init => EchoInv
BY DEF Init, EchoInv, Typing

LEMMA PressShows ==
  ASSUME typist.patient, Inv, QueueInv, EchoInv, NEW k \in Keys, Press(k)
  PROVE  EchoInv'
<1> DEFINE ch == FinalKey(k)
<1>1. ch \in Chars
  BY FinalKeyType DEF Inv, TypeOK
<1>2. /\ ~Stopped /\ (pc = "run" \/ (pc = "spin" /\ getchar_buf[p] = EOF))
      /\ Input(ch) /\ UNCHANGED <<modes, p>>
  BY DEF Press, Arrives
<1> HIDE DEF ch
<1>3. (wait_for_eol => print_chars) /\ (wait_for_eol' => print_chars')
  BY <1>2 DEF EchoInv, modes
<1>4. CASE UNCHANGED <<bufs, pc>>
  <2>1. UNCHANGED Stopped /\ UNCHANGED Typing /\ UNCHANGED RowShows
        /\ UNCHANGED <<line, pc, wait_for_eol, print_chars>>
    BY <1>2, <1>4 DEF bufs, modes, Stopped, Typing, RowShows
  <2> QED BY <1>3, <2>1 DEF EchoInv
<1>5. CASE Stopped'
  BY <1>3, <1>5 DEF EchoInv
<1>6. CASE ch = Nul \/ ~getting_char
  BY <1>2, <1>4, <1>6 DEF Input
<1>7. CASE ~(ch = Nul \/ ~getting_char) /\ ~wait_for_eol
  <2>1. StoreRaw(ch) /\ ~wait_for_eol'
    BY <1>2, <1>7 DEF Input, modes
  <2>2. line = <<>>
    BY <1>2, <1>7 DEF EchoInv, Typing
  <2>3. Stopped' \/ line' = <<>>
    BY <2>1, <2>2 DEF StoreRaw, Stopped
  <2> QED BY <1>3, <2>1, <2>3 DEF EchoInv, Typing
<1>8. CASE ~(ch = Nul \/ ~getting_char) /\ wait_for_eol
  <2>1. StoreLine(ch) /\ wait_for_eol' /\ print_chars
    BY <1>2, <1>3, <1>8 DEF Input, modes
  <2>2. pc = "spin" /\ Typing
    BY <1>2, <1>8 DEF Typing, Inv
  <2>3. RowShows
    BY <1>2, <2>2 DEF EchoInv
  <2>4. CASE pc' = "panic"
    BY <1>5, <2>4 DEF Stopped
  <2>5. CASE ch = NL /\ EndLine /\ UNCHANGED pc
    <3>1. p = 0 /\ p' = 0 /\ BufSz \in Nat \ {0} /\ line \in Seq(Chars) /\ Len(line) \in Nat
      BY <1>2, <2>2, Drained, KeyboardAssumption DEF Inv, TypeOK, Typing
    <3>2. getchar_buf'[0] = IF 0 < Len(line) THEN line[0 + 1] ELSE NL
      <4>1. 0 \in 0..(BufSz - 1) /\ (~(0 < Len(line)) => 0 = Len(line))
        BY <3>1
      <4>2. \A i \in 0..(BufSz - 1) : getchar_buf'[i] =
              IF i < Len(line) THEN line[i + 1] ELSE IF i = Len(line) THEN NL ELSE getchar_buf[i]
        BY <2>5 DEF EndLine
      <4>3. CASE 0 < Len(line)
        BY <4>1, <4>2, <4>3
      <4>4. CASE ~(0 < Len(line))
        BY <4>1, <4>2, <4>4
      <4> QED BY <4>3, <4>4
    <3>3. getchar_buf'[0] \in Chars
      BY <1>1, <2>5, <3>1, <3>2
    <3>4. ~Typing' /\ line' = <<>> /\ pc' = "spin"
      BY <2>2, <2>5, <3>1, <3>3, KeyboardAssumption DEF Typing, EndLine
    <3> QED BY <1>3, <3>4 DEF EchoInv
  <2>6. CASE ch = BS /\ Backspace /\ UNCHANGED pc
    <3>1. Typing' /\ pc' = "spin"
      BY <1>2, <2>1, <2>2, <2>6 DEF Typing, Backspace, modes
    <3>2. CASE line = <<>>
      <4>1. UNCHANGED <<bufs, pc>>
        BY <2>6, <3>2 DEF Backspace, bufs, Inv, TypeOK
      <4> QED BY <1>4, <4>1
    <3>3. CASE line # <<>>
      <4>1. RowShows'
        BY <2>3, <2>6, <3>3, BackspaceShows
      <4> QED BY <1>3, <3>1, <4>1 DEF EchoInv
    <3> QED BY <3>2, <3>3
  <2>7. CASE ch \notin {NL, BS} /\ AddToLine(ch) /\ UNCHANGED pc
    <3>1. Typing' /\ pc' = "spin"
      BY <1>2, <2>1, <2>2, <2>7 DEF Typing, AddToLine, modes
    <3>2. RowShows'
      BY <1>1, <2>1, <2>3, <2>7, AddShows
    <3> QED BY <1>3, <3>1, <3>2 DEF EchoInv
  <2> QED BY <2>1, <2>4, <2>5, <2>6, <2>7 DEF StoreLine
<1> QED BY <1>6, <1>7, <1>8

LEMMA EchoNext ==
  ASSUME typist.patient, LinesAreEchoed, Inv, QueueInv, EchoInv, [Next]_vars
  PROVE  EchoInv'
<1>1. CASE \E k \in Keys : Press(k)
  BY <1>1, PressShows
<1>2. ASSUME UNCHANGED <<modes, bufs, pc, p>> PROVE EchoInv'
  <2>1. UNCHANGED Stopped /\ UNCHANGED Typing /\ UNCHANGED RowShows
        /\ UNCHANGED <<line, pc, wait_for_eol, print_chars>>
    BY <1>2 DEF bufs, modes, Stopped, Typing, RowShows
  <2> QED BY <2>1 DEF EchoInv
<1>3. CASE (\E k \in Keys : Release(k)) \/ UNCHANGED vars
  BY <1>2, <1>3 DEF Release, vars, prog
<1>4. CASE \E l \in Layouts : SetLayout(l)
  BY <1>2, <1>4 DEF SetLayout, prog
<1>5. ASSUME NEW m \in Modes, SetMode(m) PROVE EchoInv'
  <2>1. line' = <<>> /\ pc' = "run"
    BY <1>5 DEF SetMode, EchoInv, Stopped, Typing, bufs, prog
  <2>2. wait_for_eol' => print_chars'
    BY <1>5 DEF SetMode, LinesAreEchoed
  <2> QED BY <2>1, <2>2 DEF EchoInv, Typing
<1>6. CASE Call
  <2>1. line = <<>> /\ UNCHANGED <<line, modes>> /\ pc' = "point" /\ screen' = <<Prompt>> /\ tab_erased' = FALSE
    BY <1>6 DEF Call, EchoInv, Stopped, Typing
  <2>2. RowShows'
    BY <2>1, PromptShows DEF RowShows
  <2> QED BY <2>1, <2>2 DEF EchoInv, modes
<1>7. CASE Point
  <2>1. line = <<>> /\ pc = "point" /\ pc' = "spin" /\ UNCHANGED <<modes, bufs>>
    BY <1>7 DEF Point, EchoInv, Stopped, Typing
  <2>2. wait_for_eol => RowShows'
    BY <2>1 DEF EchoInv, RowShows, Stopped, bufs
  <2> QED BY <2>1, <2>2 DEF EchoInv, Typing, modes, bufs
<1>8. CASE Take
  <2>1. UNCHANGED <<modes, line>> /\ pc' \in {"erase", "broken"}
    BY <1>8 DEF Take, bufs
  <2>2. pc' = "broken" \/ line = <<>>
    BY <1>8 DEF Take, EchoInv, Stopped, Typing
  <2> QED BY <2>1, <2>2 DEF EchoInv, Stopped, Typing, modes
<1>9. CASE Erase \/ Advance \/ Peek \/ Reset \/ Return
  <2>1. line = <<>> /\ UNCHANGED <<modes, line>> /\ pc' \notin {"point", "spin"}
    BY <1>9 DEF Erase, Advance, Peek, Reset, Return, EchoInv, Stopped, Typing, bufs
  <2> QED BY <2>1 DEF EchoInv, Typing, modes
<1> QED BY <1>1, <1>3, <1>4, <1>5, <1>6, <1>7, <1>8, <1>9 DEF Next, GetChar

(* To a patient typist who sees what he types in a line: the screen shows  *)
(* the line, in every layout and for lines and rows of any length, and all *)
(* of it even when a tab was erased in it.                                 *)
THEOREM LineShown == ASSUME LinesAreEchoed PROVE Spec => []ScreenShowsLine
<1> DEFINE Shows == typist.patient => QueueInv /\ EchoInv
<1>1. Init => Shows
  BY QueueStarts, EchoStarts
<1>2. Inv /\ Shows /\ [Next]_vars => Shows'
  BY SameTypist, QueueNext, EchoNext
<1>3. Shows => ScreenShowsLine
  BY DEF EchoInv, ScreenShowsLine, RowShows, Typing, Stopped
<1> QED BY <1>1, <1>2, <1>3, Invariance, PTL DEF Spec
=============================================================================
