--------------------------- MODULE ProgramProofs ---------------------------
(***************************************************************************)
(* Proofs about the programs of the shell and about booting: the piano for *)
(* any number of notes, the game 5x5 on boards of every size, the clock    *)
(* for any dates and any bytes read while it is updated, the page tables   *)
(* for every place of the sections, and printf for every number of 32 bits *)
(* and every double whose integer part is an int.                          *)
(***************************************************************************)
EXTENDS Piano, FiveByFive, Boot, Rtc, Stdio, FiniteSetTheorems, SequenceTheorems, WellFoundedInduction, TLAPS

(* Every nonempty set of naturals has a least member, and of the first k  *)
(* of them a greatest: what takes the place of induction here.             *)
LEMMA Least ==
  ASSUME NEW T \in SUBSET Nat, T # {}
  PROVE  \E m \in T : \A k \in T : m <= k
<1> DEFINE R == OpToRel(<, Nat)
<1>1. IsWellFoundedOn(R, Nat)
  BY NatLessThanWellFounded, Zenon
<1>2. R = {ss \in Nat \X Nat : ss[1] < ss[2]}
  BY Zenon DEF OpToRel
<1>3. \A x, y \in Nat : x < y => <<x, y>> \in {ss \in Nat \X Nat : ss[1] < ss[2]}
  OBVIOUS
<1>4. \A x, y \in Nat : x < y => <<x, y>> \in R
  BY <1>2, <1>3, Zenon
<1> HIDE DEF R
<1>5. PICK m \in T : \A k \in T : ~(<<k, m>> \in R)
  BY <1>1, WFMin
<1>6. \A k \in T : ~(k < m)
  BY <1>4, <1>5, Zenon
<1> QED
  BY <1>6

LEMMA Greatest ==
  ASSUME NEW k \in Nat, NEW T \in SUBSET (1..k), T # {}
  PROVE  \E n \in T : \A m \in T : m <= n
<1> DEFINE U == {d \in Nat : k - d \in T}
<1>1. \A n \in T : k - n \in Nat /\ k - (k - n) = n
  OBVIOUS
<1>2. U \in SUBSET Nat /\ U # {} /\ \A n \in T : k - n \in U
  BY <1>1
<1>3. PICK d \in U : \A m \in U : d <= m
  <2> HIDE DEF U
  <2> QED BY <1>2, Least
<1>4. k - d \in T /\ d \in Nat
  BY <1>3
<1>5. \A n \in T : d <= k - n
  BY <1>2, <1>3
<1>6. \A n \in T : n <= k - d
  BY <1>4, <1>5
<1> QED
  BY <1>4, <1>6

-----------------------------------------------------------------------------
(* The piano.                                                              *)
LEMMA Keyboard == N \in Nat \ {0} /\ Notes = 1..N
<1>1. PICK k \in Nat \ {0} : Notes = 1..k
  BY SpeakerAssumption
<1>2. k \in Notes /\ \A m \in Notes : m <= k
  BY <1>1
<1>3. N \in Notes /\ \A m \in Notes : m <= N
  BY <1>2 DEF N
<1>4. N = k
  BY <1>1, <1>2, <1>3
<1> QED
  BY <1>1, <1>4

LEMMA LastIsHeld == ASSUME NEW H \in SUBSET Notes, H # {}, held = H PROVE LastHeld \in held
BY Keyboard, Greatest DEF LastHeld

(* Channel 2 has room for the count of any tone from 19 Hz up.             *)
LEMMA CountFits == ASSUME NEW q \in Nat, NEW f \in Nat, f >= 19, q * f <= 1193182 PROVE q % 65536 = q
<1>1. q * 19 <= q * f
  OBVIOUS
<1> DEFINE p == q * f
<1>2. p \in Int /\ p <= 1193182 /\ q * 19 <= p
  BY <1>1
<1> HIDE DEF p
<1>3. q <= 62799
  BY <1>2
<1> QED
  BY <1>3

LEMMA Tuned == ASSUME NEW f \in Nat, f >= 19 PROVE InTune(f)
<1> DEFINE q == 1193182 \div f
<1>1. q \in Nat /\ q * f <= 1193182 /\ 1193182 < (q + 1) * f
  OBVIOUS
<1>2. PIT_BASE_FREQ \div f = q /\ PIT_BASE_FREQ = 1193182
  BY DEF PIT_BASE_FREQ
<1> HIDE DEF q
<1>3. Reload(f) = q
  BY <1>1, <1>2, CountFits DEF Reload
<1> QED
  BY <1>1, <1>2, <1>3 DEF InTune

LEMMA Frequencies ==
  ASSUME NEW n \in Notes, octave \in 1..5
  PROVE  NoteFreq(n) \in Nat /\ NoteFreq(n) >= 19
<1>1. Freq[n] \in Nat /\ Freq[n] >= 76
  BY SpeakerAssumption
<1> QED
  BY <1>1 DEF NoteFreq, get_octave_notes

PianoTypes ==
  /\ held \subseteq Notes /\ pressed \subseteq held
  /\ playing \in BOOLEAN /\ playing_note \in Notes \union {NoNote}
  /\ octave \in 1..5
  /\ i \in 1 .. N + 1
  /\ current_freq # 0 => gate

(* During a round the newest note is one of those already asked for.       *)
ScanInv ==
  at = "scan" =>
    /\ playing => playing_note \in pressed /\ playing_note \in 1 .. i - 1
    /\ ~playing => \A n \in pressed : n >= i

PianoInv ==
  /\ PianoTypes /\ ScanInv /\ SoundsHeldNote
  /\ at = "idle" => held = {}

LEMMA ScanKeeps == ASSUME PianoInv, Scan PROVE PianoInv'
<1> DEFINE new == kb_held(i) /\ i \notin held
<1>1. i \in Notes /\ i \in Int /\ N \in Nat /\ Notes = 1..N
  BY Keyboard DEF PianoInv, PianoTypes, Scan
<1>2. /\ at = "scan" /\ at' = "scan" /\ i' = i + 1 /\ UNCHANGED <<octave, current_freq, gate>>
      /\ pressed' = IF new THEN pressed \union {i} ELSE pressed \ {i}
      /\ held' = IF kb_held(i) THEN held \union {i} ELSE held \ {i}
      /\ playing_note' = IF new THEN i ELSE playing_note
      /\ playing' = (playing \/ new)
  BY DEF Scan, speakerVars, speaker
<1> HIDE DEF new
<1>3. held' \subseteq Notes /\ playing_note' \in Notes \union {NoNote}
  BY <1>1, <1>2 DEF PianoInv, PianoTypes
<1>4. pressed' \subseteq held'
  BY <1>1, <1>2 DEF PianoInv, PianoTypes, new
<1>5. playing' \in BOOLEAN
  BY <1>2, Zenon DEF new
<1>6. i' \in 1 .. N + 1
  BY <1>1, <1>2 DEF Scan
<1>7. PianoTypes'
  BY <1>2, <1>3, <1>4, <1>5, <1>6 DEF PianoInv, PianoTypes, N
<1>8. ScanInv'
  <2>1. CASE new
    <3>1. playing' = TRUE /\ playing_note' = i /\ i \in pressed'
      BY <1>2, <2>1
    <3>2. i \in 1 .. i' - 1
      BY <1>1, <1>2
    <3> QED
      BY <3>1, <3>2 DEF ScanInv
  <2>2. CASE ~new
    <3>1. pressed' = pressed \ {i} /\ playing_note' = playing_note /\ playing' = playing
      BY <1>2, <2>2 DEF PianoInv, PianoTypes
    <3>2. pressed \subseteq Notes
      BY DEF PianoInv, PianoTypes
    <3>3. CASE playing
      <4>1. playing_note \in pressed
        BY <1>2, <3>3 DEF PianoInv, ScanInv
      <4>2. playing_note # i /\ playing_note \in 1 .. i
        BY <1>1, <1>2, <3>3 DEF PianoInv, ScanInv
      <4>3. i' - 1 = i
        BY <1>1, <1>2
      <4>4. playing_note' \in pressed' /\ playing_note' \in 1 .. i' - 1
        BY <3>1, <4>1, <4>2, <4>3
      <4>5. playing'
        BY <3>1, <3>3, Zenon
      <4> QED
        BY <4>4, <4>5, Zenon DEF ScanInv
    <3>4. CASE ~playing
      BY <1>1, <1>2, <3>1, <3>2, <3>4 DEF PianoInv, ScanInv
    <3> QED
      BY <3>3, <3>4
  <2> QED
    BY <2>1, <2>2
<1> QED
  BY <1>2, <1>7, <1>8 DEF PianoInv, SoundsHeldNote

LEMMA ChooseKeeps == ASSUME PianoInv, Choose PROVE PianoInv'
<1>1. at = "scan" /\ at' = "loop" /\ UNCHANGED <<held, pressed, playing, octave, i>> /\ i > N
  BY DEF Choose
<1>2. N \in Nat /\ Notes = 1..N /\ pressed \subseteq held /\ held \subseteq Notes
  BY Keyboard DEF PianoInv, PianoTypes
<1>3. pressed # {} => playing
  <2>1. ~playing => \A n \in pressed : n >= i
    BY <1>1 DEF PianoInv, ScanInv
  <2>2. i \in Int /\ N \in Int /\ \A n \in pressed : n \in Int /\ n <= N
    BY <1>2 DEF PianoInv, PianoTypes
  <2>3. \A n \in pressed : ~(n >= i)
    BY <1>1, <2>2
  <2> QED
    BY <2>1, <2>3
<1>4. playing => playing_note \in pressed
  BY <1>1 DEF PianoInv, ScanInv
<1>5. NoNote \notin Notes
  BY PianoAssumption
<1>6. CASE held = {}
  <2>1. Sounding = NoNote
    BY <1>2, <1>4, <1>6 DEF Sounding
  <2>2. current_freq' = 0 /\ playing_note' = playing_note
    BY <2>1 DEF Choose, pcspkr_get_freq, pcspkr_clear, speaker
  <2> QED
    BY <1>1, <1>6, <2>2 DEF PianoInv, PianoTypes, ScanInv, SoundsHeldNote, N
<1>7. CASE held # {}
  <2>1. Sounding \in IF pressed # {} THEN pressed ELSE held
    BY <1>2, <1>3, <1>4, <1>7, LastIsHeld DEF Sounding
  <2>2. Sounding \in Notes /\ Sounding # NoNote
    BY <1>2, <1>5, <2>1
  <2>3. NoteFreq(Sounding) \in Nat /\ NoteFreq(Sounding) >= 19 /\ InTune(NoteFreq(Sounding))
    BY <2>2, Frequencies, Tuned DEF PianoInv, PianoTypes
  <2>4. playing_note' = Sounding /\ current_freq' = NoteFreq(Sounding)
    BY <2>2 DEF Choose, pcspkr_get_freq, pcspkr_play, speaker
  <2>5. gate'
    <3>1. CASE current_freq = NoteFreq(Sounding)
      <4>1. current_freq # 0
        BY <2>3, <3>1
      <4>2. gate' = gate
        BY <2>2, <3>1 DEF Choose, pcspkr_get_freq, speaker
      <4> QED
        BY <4>1, <4>2 DEF PianoInv, PianoTypes
    <3>2. CASE current_freq # NoteFreq(Sounding)
      BY <2>2, <3>2 DEF Choose, pcspkr_get_freq, pcspkr_play, speaker
    <3> QED
      BY <3>1, <3>2
  <2>6. SoundsHeldNote'
    <3>1. PICK n \in IF pressed # {} THEN pressed ELSE held : n = Sounding
      BY <2>1
    <3>2. n \in IF pressed' # {} THEN pressed' ELSE held'
      BY <1>1
    <3>3. current_freq' = NoteFreq(n) /\ InTune(NoteFreq(n)) /\ get_octave_notes(octave', Freq[n]) = NoteFreq(n)
      BY <1>1, <2>3, <2>4, <3>1 DEF NoteFreq
    <3> QED
      BY <1>1, <1>7, <2>5, <3>2, <3>3 DEF SoundsHeldNote, NoteFreq
  <2> QED
    BY <1>1, <2>2, <2>4, <2>5, <2>6 DEF PianoInv, PianoTypes, ScanInv, N
<1> QED
  BY <1>6, <1>7

LEMMA PianoStartKeeps == ASSUME PianoInv, current_freq = 0, PianoStart PROVE PianoInv'
<1> USE DEF PianoInv, PianoTypes, ScanInv, SoundsHeldNote, NoteFreq
<1>1. octave' \in 1..5
  BY SpeakerAssumption DEF PianoStart
<1>2. /\ at = "idle" /\ at' = "loop"
      /\ UNCHANGED <<held, pressed, playing_note, playing, i, current_freq, gate>>
  BY DEF PianoStart, speaker
<1> QED
  BY <1>1, <1>2

LEMMA PianoStepKeeps == ASSUME PianoInv, PianoStep PROVE PianoInv'
<1> USE DEF PianoInv, PianoTypes, ScanInv, SoundsHeldNote, NoteFreq
<1>1. CASE PianoLoop
  <2>1. /\ at = "loop" /\ at' \in {"exit", "scan"} /\ playing' = FALSE /\ i' = 1
        /\ UNCHANGED <<held, pressed, playing_note, octave, current_freq, gate>>
    BY <1>1 DEF PianoLoop, speakerVars, speaker
  <2>2. \A n \in pressed : n >= 1
    <3>1. pressed \subseteq 1..N
      BY Keyboard
    <3> QED
      BY <3>1, Keyboard
  <2>3. 1 \in 1 .. N + 1
    BY Keyboard
  <2> QED
    BY <2>1, <2>2, <2>3
<1>2. CASE Scan
  BY <1>2, ScanKeeps
<1>3. CASE Choose
  BY <1>3, ChooseKeeps
<1> QED
  BY <1>1, <1>2, <1>3 DEF PianoStep

LEMMA PianoExitKeeps == ASSUME PianoInv, PianoExit PROVE PianoInv' /\ current_freq' = 0
<1>1. /\ at' = "idle" /\ held' = {} /\ pressed' = {} /\ playing_note' = NoNote
      /\ playing' = FALSE /\ octave' = 3 /\ i' = 1 /\ current_freq' = 0
  BY DEF PianoExit, pcspkr_clear
<1>2. 1 \in 1 .. N + 1
  BY Keyboard
<1>3. playing' \in BOOLEAN
  BY <1>1, Zenon
<1>4. 3 \in 1..5
  OBVIOUS
<1> QED
  BY <1>1, <1>2, <1>3, <1>4 DEF PianoInv, PianoTypes, ScanInv, SoundsHeldNote, NoteFreq

LEMMA PianoStays ==
  ASSUME PianoInv, UNCHANGED <<current_freq, gate, pianoVars>>
  PROVE  PianoInv'
BY DEF PianoInv, PianoTypes, ScanInv, SoundsHeldNote, NoteFreq, pianoVars

LEMMA PianoIdleInv == ASSUME PianoIdle, current_freq = 0 PROVE PianoInv
<1>1. 1 \in 1 .. N + 1
  BY Keyboard
<1>2. PianoTypes
  <2>1. /\ held = {} /\ pressed = {} /\ playing = FALSE /\ playing_note = NoNote
        /\ octave = 3 /\ i = 1 /\ current_freq = 0
    BY DEF PianoIdle
  <2>2. playing \in BOOLEAN
    BY <2>1, Zenon
  <2> QED
    BY <1>1, <2>1, <2>2 DEF PianoTypes
<1> QED
  BY <1>2 DEF PianoIdle, PianoInv, ScanInv, SoundsHeldNote

(* Alone, the piano starts with a silent speaker. *)
LEMMA PianoKeeps ==
  ASSUME PianoInv, at = "idle" => current_freq = 0, [PianoNext]_<<speakerVars, pianoVars>>
  PROVE  PianoInv' /\ (at' = "idle" => current_freq' = 0)
<1>1. CASE UNCHANGED <<speakerVars, pianoVars>> \/ (KeyEvent /\ UNCHANGED <<speaker, beeper, pianoVars>>)
  BY <1>1, PianoStays DEF speakerVars, speaker, pianoVars
<1>2. CASE PianoStart
  BY <1>2, PianoStartKeeps DEF PianoStart
<1>3. CASE PianoStep
  <2>1. at' # "idle"
    BY <1>3 DEF PianoStep, PianoLoop, Scan, Choose
  <2> QED BY <1>3, <2>1, PianoStepKeeps
<1>4. CASE PianoExit
  BY <1>4, PianoExitKeeps
<1> QED
  BY <1>1, <1>2, <1>3, <1>4 DEF PianoNext

(* After each round the speaker has the tone of a note held, a new one if  *)
(* there is one, for any number of notes and any tones from 76 Hz up, in   *)
(* each of the five octaves.                                               *)
THEOREM HeldNoteSounds == PianoSpec => []SoundsHeldNote
<1> DEFINE I == PianoInv /\ (at = "idle" => current_freq = 0)
<1>1. PianoInit => I
  BY PianoIdleInv DEF PianoInit
<1>2. I /\ [PianoNext]_<<speakerVars, pianoVars>> => I'
  BY PianoKeeps
<1>3. I => SoundsHeldNote
  BY DEF PianoInv
<1> HIDE DEF I
<1> QED
  BY <1>1, <1>2, <1>3, PTL DEF PianoSpec

-----------------------------------------------------------------------------
(* The game 5x5.                                                           *)
FiveTypes == grid \subseteq Cells /\ cursor \in Cells

LEMMA FiveTypesKept == ASSUME FiveTypes, [FiveNext]_fiveVars PROVE FiveTypes'
<1>1. h \in Nat /\ w \in Nat /\ h >= 5 /\ w >= 5 /\ RandomGrids \subseteq SUBSET Cells
  BY FiveByFiveAssumption
<1>2. \A g, s \in SUBSET Cells : Switched(g, s) \subseteq Cells
  BY DEF Switched
<1>3. <<0, 0>> \in Cells /\ <<h - (h \div 2) - 1, w - (w \div 2) - 1>> \in Cells
  BY <1>1 DEF Cells
<1>4. Plus(cursor) \subseteq Cells
  BY <1>1 DEF Plus, Cells, FiveTypes
<1>5. CASE UNCHANGED fiveVars
  BY <1>5 DEF fiveVars, FiveTypes
<1>6. CASE FiveStart \/ FiveQuit
  BY <1>3, <1>6 DEF FiveStart, FiveQuit, FiveTypes
<1>7. ASSUME NEW y \in Int, NEW x \in Int, MoveTo(y, x) PROVE FiveTypes'
  BY <1>7 DEF MoveTo, FiveTypes
<1>8. CASE Toggle
  BY <1>2, <1>4, <1>8 DEF Toggle, PressAny, FiveTypes
<1>9. CASE Shuffle
  BY <1>1, <1>9 DEF Shuffle, PressAny, FiveTypes
<1>10. CASE Cheat
  <2>1. grid' \subseteq Cells /\ cursor' = cursor
    BY <1>10 DEF Cheat, PressAny
  <2> QED
    BY <2>1 DEF FiveTypes
<1>11. ASSUME NEW c, FiveKey(c) PROVE FiveTypes'
  <2>1. cursor[1] \in Int /\ cursor[2] \in Int
    BY <1>1 DEF FiveTypes, Cells
  <2>2. \/ \E y \in Int, x \in Int : MoveTo(y, x)
        \/ Toggle \/ Shuffle \/ Cheat \/ UNCHANGED <<grid, cursor>>
    <3> DEFINE y == cursor[1] x == cursor[2]
    <3>1. {y - 1, y + 1, y, x - 1, x + 1, x} \subseteq Int
      BY <2>1
    <3> HIDE DEF y, x
    <3>2. \/ MoveTo(y - 1, x) \/ MoveTo(y + 1, x) \/ MoveTo(y, x - 1) \/ MoveTo(y, x + 1)
          \/ Toggle \/ Shuffle \/ Cheat \/ UNCHANGED <<grid, cursor>>
      BY <1>11, Zenon DEF FiveKey, y, x
    <3> QED
      BY <3>1, <3>2, Zenon
  <2> QED
    BY <1>7, <1>8, <1>9, <1>10, <2>2 DEF FiveTypes
<1> QED
  BY <1>5, <1>6, <1>11 DEF FiveNext

LEMMA Distances == \A a, b \in Int : Distance(a, b) \in Nat /\ (Distance(a, b) = 0 <=> a = b)
                                 /\ (Distance(a, b) = 1 <=> b = a - 1 \/ b = a + 1)
BY DEF Distance

LEMMA SumAtMostOne ==
  \A p, q \in Nat : p + q <= 1 <=> (p = 0 /\ q = 0) \/ (p = 1 /\ q = 0) \/ (p = 0 /\ q = 1)
OBVIOUS

LEMMA CellsOfPlus ==
  ASSUME NEW c, NEW d
  PROVE  d \in Plus(c) <=>
           \/ d = <<c[1], c[2]>>
           \/ d = <<c[1] - 1, c[2]>> /\ c[1] > 0
           \/ d = <<c[1] + 1, c[2]>> /\ c[1] < h - 1
           \/ d = <<c[1], c[2] - 1>> /\ c[2] > 0
           \/ d = <<c[1], c[2] + 1>> /\ c[2] < w - 1
BY Zenon DEF Plus

(* toggle_adjacent switches what the rules say, at the edges too.          *)
LEMMA PlusIsNear == ASSUME NEW c \in Cells PROVE Plus(c) = Near(c)
<1>1. h \in Nat /\ w \in Nat
  BY FiveByFiveAssumption
<1>2. PICK y \in 0 .. h - 1, x \in 0 .. w - 1 : c = <<y, x>>
  BY DEF Cells
<1>3. ASSUME NEW a \in 0 .. h - 1, NEW b \in 0 .. w - 1
      PROVE  <<a, b>> \in Plus(c) <=> Distance(y, a) + Distance(x, b) <= 1
  <2>1. <<a, b>> \in Plus(c) <=>
          \/ a = y /\ b = x
          \/ a = y - 1 /\ b = x
          \/ a = y + 1 /\ b = x
          \/ a = y /\ b = x - 1
          \/ a = y /\ b = x + 1
    <3> DEFINE d == <<a, b>>
    <3>1. c[1] = y /\ c[2] = x
      BY <1>2
    <3>2. d \in Plus(c) <=>
            \/ d = <<y, x>>
            \/ d = <<y - 1, x>> /\ y > 0
            \/ d = <<y + 1, x>> /\ y < h - 1
            \/ d = <<y, x - 1>> /\ x > 0
            \/ d = <<y, x + 1>> /\ x < w - 1
      BY <3>1, CellsOfPlus
    <3>3. /\ d = <<y, x>> <=> a = y /\ b = x
          /\ d = <<y - 1, x>> <=> a = y - 1 /\ b = x
          /\ d = <<y + 1, x>> <=> a = y + 1 /\ b = x
          /\ d = <<y, x - 1>> <=> a = y /\ b = x - 1
          /\ d = <<y, x + 1>> <=> a = y /\ b = x + 1
      OBVIOUS
    <3>4. /\ a = y - 1 => y > 0
          /\ a = y + 1 => y < h - 1
          /\ b = x - 1 => x > 0
          /\ b = x + 1 => x < w - 1
      BY <1>1
    <3> QED
      BY <3>2, <3>3, <3>4, Zenon
  <2>2. y \in Int /\ x \in Int /\ a \in Int /\ b \in Int
    BY <1>1
  <2>3. Distance(y, a) + Distance(x, b) <= 1 <=>
          \/ Distance(y, a) = 0 /\ Distance(x, b) = 0
          \/ Distance(y, a) = 1 /\ Distance(x, b) = 0
          \/ Distance(y, a) = 0 /\ Distance(x, b) = 1
    <3> DEFINE p == Distance(y, a) q == Distance(x, b)
    <3>1. p \in Nat /\ q \in Nat
      BY <2>2, Distances
    <3> QED
      BY <3>1, SumAtMostOne
  <2>4. /\ Distance(y, a) = 0 <=> a = y
        /\ Distance(x, b) = 0 <=> b = x
        /\ Distance(y, a) = 1 <=> a = y - 1 \/ a = y + 1
        /\ Distance(x, b) = 1 <=> b = x - 1 \/ b = x + 1
    BY <2>2, Distances
  <2> QED
    BY <2>1, <2>3, <2>4, Zenon
<1>4. Plus(c) \subseteq Cells
  BY <1>1, <1>2 DEF Plus, Cells
<1>5. \A d \in Cells : d \in Plus(c) <=> d \in Near(c)
  BY <1>2, <1>3 DEF Near, Cells
<1> QED
  BY <1>4, <1>5 DEF Near

(* Switching an even number of the cells of q.                             *)
LEMMA ParityOfSwitched ==
  ASSUME NEW q \in SUBSET Cells, NEW g \in SUBSET Cells, NEW s \in SUBSET Cells, IsEven(s \intersect q)
  PROVE  IsEven(Switched(g, s) \intersect q) <=> IsEven(g \intersect q)
<1> DEFINE a == g \intersect q b == s \intersect q
<1>1. IsFiniteSet(Cells)
  <2>1. h - 1 \in Int /\ w - 1 \in Int /\ 0 \in Int
    BY FiveByFiveAssumption
  <2>2. IsFiniteSet(0 .. h - 1) /\ IsFiniteSet(0 .. w - 1)
    BY <2>1, FS_Interval
  <2> QED
    BY <2>2, FS_Product DEF Cells
<1>2. IsFiniteSet(a) /\ IsFiniteSet(b) /\ IsFiniteSet(a \ b) /\ IsFiniteSet(b \ a) /\ IsFiniteSet(a \intersect b)
  BY <1>1, FS_Subset
<1>3. Switched(g, s) \intersect q = (a \ b) \union (b \ a) /\ (a \ b) \intersect (b \ a) = {}
      /\ b \intersect a = a \intersect b
  BY DEF Switched
<1> DEFINE ab == a \ b ba == b \ a
<1>4. Cardinality(ab \union ba) = Cardinality(ab) + Cardinality(ba)
  <2>1. IsFiniteSet(ab) /\ IsFiniteSet(ba) /\ ab \intersect ba = {}
    BY <1>2, <1>3
  <2> HIDE DEF ab, ba
  <2>2. Cardinality(ab \union ba) = Cardinality(ab) + Cardinality(ba) - Cardinality({})
    BY <2>1, FS_Union
  <2>3. Cardinality({}) = 0 /\ Cardinality(ab) \in Nat /\ Cardinality(ba) \in Nat
    BY <2>1, FS_EmptySet, FS_CardinalityType
  <2> QED
    BY <2>2, <2>3
<1>5. /\ Cardinality(ab) = Cardinality(a) - Cardinality(a \intersect b)
      /\ Cardinality(ba) = Cardinality(b) - Cardinality(a \intersect b)
  <2>1. Cardinality(ab) = Cardinality(a) - Cardinality(a \intersect b)
    BY <1>2, FS_Difference
  <2>2. Cardinality(ba) = Cardinality(b) - Cardinality(b \intersect a)
    BY <1>2, FS_Difference
  <2> QED
    BY <1>3, <2>1, <2>2
<1>6. Cardinality(a) \in Nat /\ Cardinality(b) \in Nat /\ Cardinality(a \intersect b) \in Nat
  BY <1>2, FS_CardinalityType
<1>7. Cardinality(b) % 2 = 0
  BY DEF IsEven
<1> HIDE DEF a, b, ab, ba
<1>8. Cardinality(Switched(g, s) \intersect q) = Cardinality(a) + Cardinality(b) - 2 * Cardinality(a \intersect b)
  <2>1. Switched(g, s) \intersect q = ab \union ba
    BY <1>3 DEF ab, ba
  <2>2. Cardinality(ab \union ba) = Cardinality(a) + Cardinality(b) - 2 * Cardinality(a \intersect b)
    BY <1>4, <1>5, <1>6
  <2> QED
    BY <2>1, <2>2
<1>9. Cardinality(Switched(g, s) \intersect q) % 2 = 0 <=> Cardinality(a) % 2 = 0
  BY <1>6, <1>7, <1>8
<1> QED
  BY <1>9 DEF IsEven, a

(* On a board of any size, whatever is pressed, the parity of the lit      *)
(* cells of each quiet pattern stays.                                      *)
THEOREM ParityStays == FiveSpec => ParityKept
<1>1. FiveIdle => FiveTypes
  <2>1. <<0, 0>> \in Cells
    BY FiveByFiveAssumption DEF Cells
  <2> QED
    BY <2>1 DEF FiveIdle, FiveTypes
<1>2. FiveTypes /\ [FiveNext]_fiveVars => FiveTypes'
  BY FiveTypesKept
<1>3. FiveTypes /\ [FiveNext]_fiveVars =>
        [Toggle => \A q \in Patterns : Quiet(q) => (IsEven(grid' \intersect q) <=> IsEven(grid \intersect q))]_fiveVars
  <2> SUFFICES ASSUME FiveTypes, Toggle, NEW q \in Patterns, Quiet(q)
               PROVE  IsEven(grid' \intersect q) <=> IsEven(grid \intersect q)
    OBVIOUS
  <2>1. q \in SUBSET Cells /\ cursor \in Cells /\ grid \in SUBSET Cells
    BY FiveByFiveAssumption DEF FiveTypes
  <2>2. grid' = Switched(grid, Near(cursor)) /\ Near(cursor) \in SUBSET Cells
    BY <2>1, PlusIsNear DEF Toggle, Near
  <2>3. IsEven(Near(cursor) \intersect q)
    BY <2>1 DEF Quiet
  <2> QED
    BY <2>1, <2>2, <2>3, ParityOfSwitched
<1> QED
  BY <1>1, <1>2, <1>3, PTL DEF FiveSpec, ParityKept

-----------------------------------------------------------------------------
(* Booting.                                                                *)
LEMMA Multiples ==
  ASSUME NEW P \in Nat \ {0}, NEW a \in Nat, a % P = 0
  PROVE  a = P * (a \div P) /\ a \div P \in Nat
OBVIOUS

LEMMA Quotient ==
  ASSUME NEW P \in Nat \ {0}, NEW a \in Nat, NEW m \in Nat, NEW n \in Nat
  PROVE  P * m <= a /\ a < P * n <=> a \div P \in m .. n - 1
<1> DEFINE q == a \div P r == a % P
<1>1. q \in Nat /\ r \in 0 .. P - 1 /\ a = P * q + r
  OBVIOUS
<1> HIDE DEF q, r
<1>2. q >= m <=> P * m <= a
  <2>1. CASE q >= m
    <3>1. P * q >= P * m
      BY <1>1, <2>1
    <3> QED
      BY <1>1, <2>1, <3>1
  <2>2. CASE q + 1 <= m
    <3>1. P * (q + 1) <= P * m /\ P * (q + 1) = P * q + P
      BY <1>1, <2>2
    <3> QED
      BY <1>1, <2>2, <3>1
  <2> QED
    BY <1>1, <2>1, <2>2
<1>3. q < n <=> a < P * n
  <2>1. CASE q >= n
    <3>1. P * q >= P * n
      BY <1>1, <2>1
    <3> QED
      BY <1>1, <2>1, <3>1
  <2>2. CASE q + 1 <= n
    <3>1. P * (q + 1) <= P * n /\ P * (q + 1) = P * q + P
      BY <1>1, <2>2
    <3> QED
      BY <1>1, <2>2, <3>1
  <2> QED
    BY <1>1, <2>1, <2>2
<1>4. a \div P \in m .. n - 1 <=> q >= m /\ q < n
  BY <1>1 DEF q
<1> QED
  BY <1>2, <1>3, <1>4

SectionStart(s) == Sections[s][1]
SectionEnd(s)   == Sections[s][2]

LEMMA SectionPages ==
  ASSUME NEW s \in DOMAIN Sections
  PROVE  /\ SectionStart(s) \in Nat /\ SectionEnd(s) \in Nat
         /\ SectionStart(s) \div PAGE_SIZE \in Nat /\ SectionEnd(s) \div PAGE_SIZE \in Nat
         /\ SectionStart(s) = PAGE_SIZE * (SectionStart(s) \div PAGE_SIZE)
         /\ SectionEnd(s) = PAGE_SIZE * (SectionEnd(s) \div PAGE_SIZE)
         /\ PagesOf(s) = SectionStart(s) \div PAGE_SIZE .. SectionEnd(s) \div PAGE_SIZE - 1
<1> DEFINE P == PAGE_SIZE m == SectionStart(s) \div P n == SectionEnd(s) \div P
<1>1. P \in Nat \ {0} /\ SectionStart(s) \in Nat /\ SectionEnd(s) \in Nat /\ SectionStart(s) % P = 0 /\ SectionEnd(s) % P = 0
  BY BootAssumption DEF SectionStart, SectionEnd
<1>2. m \in Nat /\ n \in Nat /\ SectionStart(s) = P * m /\ SectionEnd(s) = P * n
  BY <1>1, Multiples
<1> HIDE DEF P, m, n
<1>3. ASSUME NEW p \in PagesOf(s) PROVE p \in m .. n - 1
  <2>1. PICK a \in SectionStart(s) .. SectionEnd(s) - 1 : p = a \div P
    BY DEF PagesOf, SectionStart, SectionEnd, P
  <2>2. a \in Nat /\ P * m <= a /\ a < P * n
    BY <1>1, <1>2, <2>1
  <2> QED
    BY <1>1, <1>2, <2>1, <2>2, Quotient
<1>4. ASSUME NEW p \in m .. n - 1 PROVE p \in PagesOf(s)
  <2> DEFINE a == P * p
  <2>1. p \in Nat /\ p + 1 \in Nat
    BY <1>2
  <2>2. a \in Nat /\ P * p <= a /\ a < P * (p + 1)
    BY <1>1, <2>1
  <2>3. a \div P \in p .. (p + 1) - 1
    BY <1>1, <2>1, <2>2, Quotient
  <2>4. P * m <= a /\ P * (p + 1) <= P * n
    BY <1>1, <1>2, <2>1
  <2>5. p <= a
    BY <1>1, <2>1
  <2> HIDE DEF a
  <2>6. a \div P = p
    BY <2>1, <2>3
  <2>7. a \in SectionStart(s) .. SectionEnd(s) - 1 /\ p \in 0 .. SectionEnd(s)
    <3>1. P * (p + 1) \in Int /\ P * m \in Int /\ P * n \in Int
      BY <1>1, <1>2, <2>1
    <3>2. a < SectionEnd(s) /\ SectionStart(s) <= a
      BY <1>1, <1>2, <2>2, <2>4, <3>1
    <3> QED
      BY <1>1, <2>1, <2>2, <2>5, <3>2
  <2> QED
    BY <2>6, <2>7 DEF PagesOf, SectionStart, SectionEnd, P
<1>5. PagesOf(s) = m .. n - 1
  BY <1>3, <1>4
<1> QED
  BY <1>1, <1>2, <1>5 DEF P, m, n

LEMMA SectionsApart ==
  ASSUME NEW s \in DOMAIN Sections, NEW t \in DOMAIN Sections, s # t
  PROVE  PagesOf(s) \intersect PagesOf(t) = {}
<1> DEFINE P == PAGE_SIZE
<1>1. ASSUME NEW a \in Nat, NEW b \in Nat, P * a <= P * b PROVE a <= b
  <2>1. P \in Nat \ {0}
    BY BootAssumption
  <2>2. CASE b + 1 <= a
    <3>1. P * (b + 1) <= P * a /\ P * (b + 1) = P * b + P
      BY <2>1, <2>2
    <3> QED
      BY <1>1, <2>1, <3>1
  <2> QED
    BY <2>2
<1>2. SectionEnd(s) <= SectionStart(t) \/ SectionEnd(t) <= SectionStart(s)
  BY BootAssumption DEF SectionStart, SectionEnd
<1>3. \/ SectionEnd(s) \div P <= SectionStart(t) \div P
      \/ SectionEnd(t) \div P <= SectionStart(s) \div P
  BY <1>1, <1>2, SectionPages
<1> HIDE DEF P
<1>4. /\ SectionStart(s) \div P \in Int /\ SectionEnd(s) \div P \in Int /\ PagesOf(s) = SectionStart(s) \div P .. SectionEnd(s) \div P - 1
      /\ SectionStart(t) \div P \in Int /\ SectionEnd(t) \div P \in Int /\ PagesOf(t) = SectionStart(t) \div P .. SectionEnd(t) \div P - 1
  BY SectionPages DEF P
<1> QED
  BY <1>3, <1>4

LEMMA RodataPages ==
  /\ rodata_start_idx .. rodata_end_idx = PagesOf(".rodata")
  /\ \A s \in {".text", ".data", ".bss"} : PagesOf(".rodata") \intersect PagesOf(s) = {}
<1>1. {".text", ".rodata", ".data", ".bss"} \subseteq DOMAIN Sections
  BY BootAssumption
<1>2. rodata_start_idx .. rodata_end_idx = PagesOf(".rodata")
  BY <1>1, SectionPages DEF rodata_start_idx, rodata_end_idx, SectionStart, SectionEnd
<1>3. \A s \in {".text", ".data", ".bss"} : s \in DOMAIN Sections /\ s # ".rodata"
  BY <1>1
<1> QED
  BY <1>1, <1>2, <1>3, SectionsApart

(* How far kernel_main has come. *)
BootInv ==
  /\ step < 0 \/ step \in 1..10
  /\ step > 3 => "heap" \in up
  /\ step > 6 => "fb" \in up
  /\ step > 7 => "fbc" \in up
  /\ step > 5 => machine.rgb
  /\ "paging" \in up => protected = rodata_start_idx .. rodata_end_idx
  /\ NothingTooEarly

LEMMA TheParts ==
  /\ DOMAIN Parts = 1..9
  /\ Parts[1] = "idt" /\ Parts[2] = "paging" /\ Parts[3] = "heap" /\ Parts[4] = "vga" /\ Parts[5] = "mt"
  /\ Parts[6] = "fb" /\ Parts[7] = "fbc" /\ Parts[8] = "pit" /\ Parts[9] = "keyboard"
BY DEF Parts

LEMMA BootKeeps == ASSUME BootInv, [BootNext]_bootVars PROVE BootInv'
<1>1. CASE UNCHANGED bootVars
  BY <1>1 DEF bootVars, BootInv, NothingTooEarly, Aborted
<1>2. CASE InitPart
  <2>1. /\ step \in 1..9 /\ step' = step + 1 /\ machine' = machine
        /\ up' = up \union {Parts[step]} /\ used' = Needs(Parts[step])
        /\ protected' = IF Parts[step] = "paging" THEN rodata_start_idx .. rodata_end_idx ELSE protected
        /\ ~(Parts[step] = "mt" /\ ~machine.rgb)
    BY <1>2, TheParts DEF InitPart, Booting, Refused
  <2>2. step' \in 1..10
    BY <2>1
  <2>3. (step' > 3 => "heap" \in up') /\ (step' > 6 => "fb" \in up') /\ (step' > 7 => "fbc" \in up')
    BY <2>1, TheParts DEF BootInv
  <2>4. step' > 5 => machine'.rgb
    BY <2>1, TheParts DEF BootInv
  <2>5. "paging" \in up' => protected' = rodata_start_idx .. rodata_end_idx
    BY <2>1 DEF BootInv
  <2>6. used' \subseteq up'
    BY <2>1, <2>3, TheParts DEF Needs
  <2> QED
    BY <2>2, <2>3, <2>4, <2>5, <2>6 DEF BootInv, NothingTooEarly, rodata_start_idx, rodata_end_idx
<1>3. CASE EarlyInterrupt
  <2>1. step \in 1..9 /\ Len(Parts) = 9
    BY <1>3, TheParts DEF EarlyInterrupt, Booting, Parts
  <2>2. ~getting_char
    BY <2>1 DEF getting_char, Booted
  <2>3. used' = {"idt"}
    BY <1>3, <2>2 DEF EarlyInterrupt, HandlerUses
  <2> QED
    BY <1>3, <2>3 DEF EarlyInterrupt, BootInv, NothingTooEarly, rodata_start_idx, rodata_end_idx
<1>4. CASE Abort
  <2>1. /\ step \in 1..9 /\ step' = 0 - step /\ used' = {"fbc"} /\ UNCHANGED <<machine, up, protected>>
        /\ (Parts[step] = "mt" /\ ~machine.rgb) \/ Parts[step] = "keyboard"
    BY <1>4, TheParts DEF Abort, Booting, Refused
  <2>2. step' < 0
    BY <2>1
  <2>3. CASE ~machine.rgb
    BY <2>1, <2>2, <2>3 DEF BootInv, NothingTooEarly, Aborted, rodata_start_idx, rodata_end_idx
  <2>4. CASE Parts[step] = "keyboard"
    <3>1. step = 9
      BY <2>1, <2>4, TheParts
    <3> QED
      BY <2>1, <2>2, <3>1 DEF BootInv, NothingTooEarly, rodata_start_idx, rodata_end_idx
  <2> QED
    BY <2>1, <2>3, <2>4
<1> QED
  BY <1>1, <1>2, <1>3, <1>4 DEF BootNext

(* Wherever the linker puts the sections, as long as they do not share a   *)
(* page: the kernel uses nothing that it has not initialised, and protects *)
(* just .rodata.                                                           *)
THEOREM BootIsSafe == BootSpec => []BootsSafely
<1>1. BootInit => BootInv
  BY DEF BootInit, BootInv, NothingTooEarly
<1>2. BootInv /\ [BootNext]_bootVars => BootInv'
  BY BootKeeps
<1>3. BootInv => BootsSafely
  BY RodataPages DEF BootInv, BootsSafely, JustRodataProtected
<1> QED
  BY <1>1, <1>2, <1>3, PTL DEF BootSpec

-----------------------------------------------------------------------------
(* The clock of date, for every moment at which a read begins, whatever    *)
(* the registers show while they change, in both formats of the registers. *)
Times == [Fields -> Nat]

(* The chip's calendar, field by field. *)
LEMMA LaterFields ==
  ASSUME NEW t \in Times
  PROVE  LET n == Later(t) DMY == t[HOUR] = 23 /\ t[MINUTE] = 59 /\ t[SECOND] = 59
             days == DaysIn(t[MONTH], t[YEAR]) IN
    /\ n \in [Fields -> Int]
    /\ n[SECOND] = IF t[SECOND] = 59 THEN 0 ELSE t[SECOND] + 1
    /\ n[MINUTE] = IF t[SECOND] # 59 THEN t[MINUTE] ELSE IF t[MINUTE] = 59 THEN 0 ELSE t[MINUTE] + 1
    /\ n[HOUR] = IF ~(t[MINUTE] = 59 /\ t[SECOND] = 59) THEN t[HOUR] ELSE IF t[HOUR] = 23 THEN 0 ELSE t[HOUR] + 1
    /\ n[DAY] = IF ~DMY THEN t[DAY] ELSE IF t[DAY] = days THEN 1 ELSE t[DAY] + 1
    /\ n[MONTH] = IF ~(DMY /\ t[DAY] = days) THEN t[MONTH] ELSE IF t[MONTH] = 12 THEN 1 ELSE t[MONTH] + 1
    /\ n[YEAR] = IF ~(DMY /\ t[DAY] = days /\ t[MONTH] = 12) THEN t[YEAR] ELSE IF t[YEAR] = 99 THEN 0 ELSE t[YEAR] + 1
<1> DEFINE last  == << DaysIn(t[MONTH], t[YEAR]), 12, 99, 23, 59, 59 >>
           first == << 1, 1, 0, 0, 0, 0 >>
           smaller == << {HOUR, MINUTE, SECOND}, {DAY, HOUR, MINUTE, SECOND},
                         {DAY, MONTH, HOUR, MINUTE, SECOND}, {MINUTE, SECOND}, {SECOND}, {} >>
           carry(f) == \A g \in smaller[f] : t[g] = last[g]
<1>1. Later(t) = [f \in Fields |-> IF ~carry(f) THEN t[f] ELSE IF t[f] = last[f] THEN first[f] ELSE t[f] + 1]
  BY DEF Later
<1>2. /\ last[1] = DaysIn(t[MONTH], t[YEAR]) /\ last[2] = 12 /\ last[3] = 99
      /\ last[4] = 23 /\ last[5] = 59 /\ last[6] = 59
      /\ first[1] = 1 /\ first[2] = 1 /\ first[3] = 0 /\ first[4] = 0 /\ first[5] = 0 /\ first[6] = 0
  OBVIOUS
<1>3. /\ smaller[1] = {HOUR, MINUTE, SECOND} /\ smaller[2] = {DAY, HOUR, MINUTE, SECOND}
      /\ smaller[3] = {DAY, MONTH, HOUR, MINUTE, SECOND} /\ smaller[4] = {MINUTE, SECOND}
      /\ smaller[5] = {SECOND} /\ smaller[6] = {}
  OBVIOUS
<1> HIDE DEF last, first, smaller
<1>4. /\ carry(6)
      /\ carry(5) <=> t[SECOND] = 59
      /\ carry(4) <=> t[MINUTE] = 59 /\ t[SECOND] = 59
      /\ carry(1) <=> t[HOUR] = 23 /\ t[MINUTE] = 59 /\ t[SECOND] = 59
      /\ carry(2) <=> carry(1) /\ t[DAY] = DaysIn(t[MONTH], t[YEAR])
      /\ carry(3) <=> carry(2) /\ t[MONTH] = 12
  BY <1>2, <1>3 DEF DAY, MONTH, YEAR, HOUR, MINUTE, SECOND
<1> HIDE DEF carry
<1>5. Fields = {1, 2, 3, 4, 5, 6}
  BY DEF Fields
<1>6. ASSUME NEW f \in Fields PROVE first[f] \in Int /\ t[f] \in Int
  BY <1>2, <1>5 DEF Times
<1>7. Later(t) \in [Fields -> Int]
  BY <1>1, <1>6
<1> QED
  BY <1>1, <1>2, <1>4, <1>5, <1>7 DEF DAY, MONTH, YEAR, HOUR, MINUTE, SECOND

(* Never the same time again. *)
LEMMA LaterDiffers == ASSUME NEW t \in Times PROVE Later(t) \in Times /\ Later(t) # t
<1>1. t[SECOND] \in Nat /\ \A f \in Fields : t[f] \in Nat
  BY DEF Times, Fields, SECOND
<1>2. Fields = {DAY, MONTH, YEAR, HOUR, MINUTE, SECOND}
  BY DEF Fields, DAY, MONTH, YEAR, HOUR, MINUTE, SECOND
<1>3. Later(t) \in [Fields -> Int] /\ Later(t)[SECOND] # t[SECOND]
  BY <1>1, LaterFields
<1>4. \A f \in {DAY, MONTH, YEAR, HOUR, MINUTE, SECOND} : Later(t)[f] \in Nat
  BY <1>1, <1>2, LaterFields
<1> QED
  BY <1>2, <1>3, <1>4 DEF Times

(* The clock keeps to the calendar. *)
Dated ==
  {t \in Times : /\ t[MONTH] \in 1..12 /\ t[DAY] \in 1..DaysIn(t[MONTH], t[YEAR])
                 /\ t[YEAR] \in 0..99 /\ t[HOUR] \in 0..23 /\ t[MINUTE] \in 0..59 /\ t[SECOND] \in 0..59}

LEMMA MomentsDated == Moments \subseteq Dated
<1> SUFFICES ASSUME NEW t \in Moments PROVE t \in Dated
  OBVIOUS
<1>1. t \in Times /\ {t[YEAR], t[HOUR], t[MINUTE], t[SECOND]} \subseteq Nat
  BY RtcAssumption DEF Times, Fields, YEAR, HOUR, MINUTE, SECOND
<1> QED
  BY <1>1, RtcAssumption DEF Dated

LEMMA DatedRanges ==
  ASSUME NEW t \in Dated
  PROVE  /\ t \in Times /\ t[MONTH] \in 1..12 /\ t[YEAR] \in 0..99
         /\ t[HOUR] \in 0..23 /\ t[MINUTE] \in 0..59 /\ t[SECOND] \in 0..59
         /\ DaysIn(t[MONTH], t[YEAR]) \in 28..31 /\ t[DAY] \in 1..DaysIn(t[MONTH], t[YEAR])
<1>1. DaysIn(t[MONTH], t[YEAR]) \in 28..31
  BY DEF DaysIn
<1> QED
  BY <1>1 DEF Dated

LEMMA LaterDated == ASSUME NEW t \in Dated PROVE Later(t) \in Dated
<1> DEFINE n == Later(t) days == DaysIn(t[MONTH], t[YEAR])
           DMY == t[HOUR] = 23 /\ t[MINUTE] = 59 /\ t[SECOND] = 59
<1>1. /\ t[MONTH] \in 1..12 /\ t[YEAR] \in 0..99
      /\ t[HOUR] \in 0..23 /\ t[MINUTE] \in 0..59 /\ t[SECOND] \in 0..59
      /\ days \in 28..31 /\ t[DAY] \in 1..days /\ t \in Times
  BY DatedRanges
<1>2. n \in Times
  BY <1>1, LaterDiffers
<1>3. /\ n[SECOND] = IF t[SECOND] = 59 THEN 0 ELSE t[SECOND] + 1
      /\ n[MINUTE] = IF t[SECOND] # 59 THEN t[MINUTE] ELSE IF t[MINUTE] = 59 THEN 0 ELSE t[MINUTE] + 1
      /\ n[HOUR] = IF ~(t[MINUTE] = 59 /\ t[SECOND] = 59) THEN t[HOUR] ELSE IF t[HOUR] = 23 THEN 0 ELSE t[HOUR] + 1
      /\ n[DAY] = IF ~DMY THEN t[DAY] ELSE IF t[DAY] = days THEN 1 ELSE t[DAY] + 1
      /\ n[MONTH] = IF ~(DMY /\ t[DAY] = days) THEN t[MONTH] ELSE IF t[MONTH] = 12 THEN 1 ELSE t[MONTH] + 1
      /\ n[YEAR] = IF ~(DMY /\ t[DAY] = days /\ t[MONTH] = 12) THEN t[YEAR] ELSE IF t[YEAR] = 99 THEN 0 ELSE t[YEAR] + 1
  BY <1>1, LaterFields
<1>4. DaysIn(n[MONTH], n[YEAR]) \in 28..31
  BY DEF DaysIn
<1>5. n[DAY] = 1 \/ (n[MONTH] = t[MONTH] /\ n[YEAR] = t[YEAR])
  BY <1>3
<1> DEFINE ndays == DaysIn(n[MONTH], n[YEAR])
<1>6. n[DAY] = 1 \/ ndays = days
  BY <1>5
<1>7. n[DAY] = 1 \/ n[DAY] = t[DAY] \/ (t[DAY] # days /\ n[DAY] = t[DAY] + 1)
  BY <1>3
<1>8. /\ n[MONTH] \in 1..12 /\ n[YEAR] \in 0..99
      /\ n[HOUR] \in 0..23 /\ n[MINUTE] \in 0..59 /\ n[SECOND] \in 0..59
  BY <1>1, <1>3
<1> HIDE DEF n, days, ndays
<1>9. n[DAY] \in 1..ndays
  BY <1>1, <1>4, <1>6, <1>7 DEF ndays
<1> QED
  BY <1>2, <1>8, <1>9 DEF Dated, n, ndays

(* What a register shows is converted back. *)
LEMMA ConvertedBack == ASSUME NEW v \in Nat PROVE Converted(Register(v)) = v /\ Converted(0) = 0
<1>1. ASSUME NEW q \in Nat, NEW r \in 0..9
      PROVE  (q * 16 + r) % 16 = r /\ (q * 16 + r) \div 16 = q
  OBVIOUS
<1>2. v \div 10 \in Nat /\ v % 10 \in 0..9 /\ v = (v \div 10) * 10 + (v % 10)
  OBVIOUS
<1> QED
  BY SMTT(30), <1>1, <1>2 DEF Converted, Register

-----------------------------------------------------------------------------
(* The fields are numbered in the order in which they are read.            *)
Read == 6 - Len(todo)
TodoInv ==
  /\ todo \in Seq(Fields) /\ Len(todo) <= 6
  /\ \A j \in 1..Len(todo) : todo[j] = Read + j

(* The clock has changed once at most since the read began. *)
ClockInv ==
  \/ todo = <<>> /\ clock = <<>> /\ before = <<>> /\ now = Unread
  \/ before \in Dated /\ clock \in {before, Later(before)}

(* An interrupted read leaves a byte behind, but only after the update.    *)
DataInv ==
  /\ todo = <<>> => data = 0
  /\ todo # <<>> /\ clock = before => data \in {0, Register(before[Head(todo)])}

Past(f) == {-1, 0, before[f]}
NowInv ==
  /\ now \in [Fields -> Int]
  /\ \A f \in Fields : f > Read => now[f] = -1
  /\ before # <<>> => \A f \in Fields : now[f] \in Past(f) \union {clock[f]}
  /\ before # <<>> /\ clock = before => \A f \in Fields : now[f] \in Past(f)

(* Once a field is of the new second, so are those read later (or 0).      *)
OrderInv ==
  before # <<>> =>
    \A f, g \in Fields : f < g => now[f] \in Past(f) \/ now[g] \in {-1, 0, clock[g]}

RtcInv == TodoInv /\ ClockInv /\ DataInv /\ NowInv /\ OrderInv

LEMMA TodoStarts == rtc_get_datetime = <<1, 2, 3, 4, 5, 6>>
<1> DEFINE a == <<1, 2, 3>> b == <<4, 5, 6>> c == <<1, 2, 3, 4, 5, 6>>
<1>1. a \in Seq(Nat) /\ b \in Seq(Nat) /\ c \in Seq(Nat) /\ Len(a) = 3 /\ Len(b) = 3 /\ Len(c) = 6
  OBVIOUS
<1>2. \A j \in 1..6 : c[j] = (a \o b)[j]
  OBVIOUS
<1>3. a \o b \in Seq(Nat) /\ Len(a \o b) = 6
  BY <1>1
<1>4. a \o b = c
  BY <1>1, <1>2, <1>3, SeqEqual
<1> QED
  BY <1>4 DEF rtc_get_datetime, rtc_get_date, rtc_get_time, DAY, MONTH, YEAR, HOUR, MINUTE, SECOND

LEMMA NotEmpty == ASSUME NEW t \in Times PROVE t # <<>> /\ \A f \in Fields : t[f] \in Nat
<1>1. DOMAIN t = 1..6 /\ DOMAIN <<>> = 1..0
  BY DEF Times, Fields
<1>2. 1 \in 1..6 /\ 1 \notin 1..0
  OBVIOUS
<1> QED
  BY <1>1, <1>2 DEF Times

LEMMA ClockStarts == RtcIdle => RtcInv
<1> SUFFICES ASSUME RtcIdle PROVE RtcInv
  OBVIOUS
<1>1. TodoInv /\ ClockInv /\ DataInv
  BY DEF RtcIdle, TodoInv, ClockInv, DataInv, Read
<1>2. NowInv /\ OrderInv
  BY DEF RtcIdle, NowInv, OrderInv, Read, Unread
<1> QED
  BY <1>1, <1>2 DEF RtcInv

LEMMA OneToSix == ASSUME NEW k \in Nat, k # 0, k <= 6 PROVE k \in 1..6
OBVIOUS

(* What is known while a field is read. *)
LEMMA Reading ==
  ASSUME RtcInv, todo # <<>>
  PROVE  /\ before \in Dated /\ before \in Times /\ clock \in Times /\ before # <<>>
         /\ Head(todo) = Read + 1 /\ Head(todo) \in Fields /\ Read \in Nat /\ Read < 6
         /\ Tail(todo) \in Seq(Fields) /\ Len(Tail(todo)) = Len(todo) - 1
         /\ \A j \in 1..Len(Tail(todo)) : Tail(todo)[j] = todo[j + 1]
<1>1. before \in Dated /\ before \in Times /\ clock \in Times /\ before # <<>>
  BY DatedRanges, LaterDiffers, NotEmpty DEF RtcInv, ClockInv
<1>2. Len(todo) \in 1..6
  <2>1. todo \in Seq(Fields) /\ todo # <<>>
    BY DEF RtcInv, TodoInv
  <2>2. Len(todo) \in Nat /\ Len(todo) # 0
    BY <2>1, EmptySeq
  <2>3. Len(todo) <= 6
    BY DEF RtcInv, TodoInv
  <2> QED
    BY <2>2, <2>3, OneToSix
<1>3. /\ Tail(todo) \in Seq(Fields) /\ Len(Tail(todo)) = Len(todo) - 1
      /\ \A j \in 1..Len(Tail(todo)) : Tail(todo)[j] = todo[j + 1]
  BY DEF RtcInv, TodoInv
<1>4. Head(todo) = todo[1] /\ todo[1] = Read + 1 /\ todo[1] \in Fields
  BY <1>2 DEF RtcInv, TodoInv
<1> QED
  BY <1>1, <1>2, <1>3, <1>4 DEF Read

(* A read that agrees: field f0 gets the value v. *)
LEMMA Agreed ==
  ASSUME RtcInv, todo # <<>>, before' = before, NEW v \in Int,
         \/ clock' = clock /\ v = clock[Head(todo)]
         \/ clock = before /\ clock' = Later(before) /\ v \in Past(Head(todo)),
         now' = [now EXCEPT ![Head(todo)] = v], todo' = Tail(todo), data' = 0
  PROVE  RtcInv'
<1> DEFINE f0 == Head(todo)
<1>1. f0 = Read + 1 /\ f0 \in Fields /\ Read' = f0 /\ Read \in Nat /\ before # <<>> /\ before \in Dated
  BY Reading DEF Read
<1>2. TodoInv'
  <2>1. \A j \in 1..Len(Tail(todo)) : todo[j + 1] = Read + (j + 1)
    BY Reading DEF RtcInv, TodoInv
  <2> QED
    BY <1>1, <2>1, Reading DEF RtcInv, TodoInv, Read
<1>3. ClockInv' /\ clock \in {before, Later(before)}
  BY <1>1 DEF RtcInv, ClockInv
<1>4. DataInv'
  BY DEF DataInv
<1>5. NowInv'
  <2>1. now' \in [Fields -> Int]
    BY <1>1 DEF RtcInv, NowInv
  <2>2. ASSUME NEW f \in Fields
        PROVE /\ f # f0 => now'[f] = now[f] /\ now[f] \in Past(f) \union {clock[f]}
                          /\ (clock = before => now[f] \in Past(f))
              /\ f = f0 => now'[f] = v
    BY <1>1 DEF RtcInv, NowInv
  <2>3. \A f \in Fields : f > Read' => now'[f] = -1
    BY SMTT(30), <1>1, <2>2 DEF RtcInv, NowInv, Fields
  <2>4. \A f \in Fields : now'[f] \in Past(f) \union {clock'[f]}
    BY <1>1, <2>2 DEF Past
  <2>5. clock' = before => \A f \in Fields : now'[f] \in Past(f)
    BY <1>1, <2>2 DEF Past
  <2> QED
    BY <2>1, <2>3, <2>4, <2>5 DEF NowInv, Past
<1>6. OrderInv'
  <2> SUFFICES ASSUME NEW f \in Fields, NEW g \in Fields, f < g
               PROVE  now'[f] \in Past(f) \/ now'[g] \in {-1, 0, clock'[g]}
    BY DEF OrderInv, Past
  <2>1. ASSUME NEW k \in Fields
        PROVE (k # f0 => now'[k] = now[k]) /\ (k = f0 => now'[k] = v)
    BY <1>1 DEF RtcInv, NowInv
  <2>2. CASE f = f0
    BY SMTT(30), <2>2, <2>1, <1>1 DEF RtcInv, NowInv, Fields
  <2>3. CASE f # f0 /\ clock = before
    BY <2>3, <2>1, <1>1 DEF RtcInv, NowInv
  <2>4. CASE f # f0 /\ clock # before
    BY <2>4, <2>1, <1>1 DEF RtcInv, OrderInv, Past
  <2> QED
    BY <2>2, <2>3, <2>4
<1> QED
  BY <1>2, <1>3, <1>4, <1>5, <1>6 DEF RtcInv

LEMMA ClockKeeps == ASSUME RtcInv, [RtcNext]_rtcVars PROVE RtcInv'
<1>1. CASE UNCHANGED rtcVars
  BY <1>1 DEF rtcVars, RtcInv, TodoInv, Read, ClockInv, DataInv, NowInv, OrderInv, Past
<1>2. CASE RtcStart
  <2>1. Len(todo') = 6 /\ Read' = 0 /\ todo' = <<1, 2, 3, 4, 5, 6>>
    BY <1>2, TodoStarts DEF RtcStart, Read
  <2>2. clock' \in Dated /\ clock' \in Times /\ before' = clock' /\ before' # <<>>
    BY <1>2, MomentsDated, DatedRanges, NotEmpty DEF RtcStart
  <2>3. TodoInv'
    BY <2>1 DEF TodoInv, Fields
  <2>4. ClockInv' /\ DataInv'
    BY <1>2, <2>1, <2>2 DEF RtcInv, ClockInv, DataInv, RtcStart
  <2>5. NowInv' /\ OrderInv'
    BY <1>2, <2>1, <2>2 DEF NowInv, OrderInv, RtcStart, Unread, Past, Fields
  <2> QED
    BY <2>3, <2>4, <2>5 DEF RtcInv
<1>3. CASE GetReg
  <2>1. todo # <<>> /\ before' = before
    BY <1>3 DEF GetReg
  <2>2. /\ before \in Times /\ clock \in Times /\ Head(todo) \in Fields
        /\ before[Head(todo)] \in Nat /\ clock[Head(todo)] \in Nat
    BY <2>1, Reading DEF Times
  <2>3. CASE UNCHANGED clock /\ rtc_get_data(Register(clock[Head(todo)]))
    <3>1. CASE Register(clock[Head(todo)]) = data
      <4>1. now' = [now EXCEPT ![Head(todo)] = clock[Head(todo)]] /\ todo' = Tail(todo) /\ data' = 0
        BY <2>3, <3>1, <2>2, ConvertedBack DEF rtc_get_data
      <4>2. clock[Head(todo)] \in Int
        BY <2>2
      <4> QED
        BY <2>1, <2>3, <4>1, <4>2, Agreed
    <3>2. CASE Register(clock[Head(todo)]) # data
      <4>1. data' = Register(clock[Head(todo)]) /\ UNCHANGED <<now, todo, clock, before>>
        BY <2>1, <2>3, <3>2 DEF rtc_get_data
      <4> QED
        BY <4>1, <2>1 DEF RtcInv, TodoInv, Read, ClockInv, DataInv, NowInv, OrderInv, Past
    <3> QED
      BY <3>1, <3>2
  <2>4. ASSUME Update, NEW byte \in Garbage, rtc_get_data(byte) PROVE RtcInv'
    <3>1. clock = before /\ clock' = Later(before) /\ clock' # before /\ data \in {0, Register(before[Head(todo)])}
      BY <2>1, <2>2, <2>4, LaterDiffers DEF Update, RtcInv, DataInv
    <3>2. CASE byte = data
      <4> DEFINE v == Converted(byte)
      <4>1. v = 0 \/ v = before[Head(todo)]
        BY <3>1, <3>2, <2>2, ConvertedBack
      <4>2. v \in Int /\ v \in Past(Head(todo))
        BY <4>1, <2>2 DEF Past
      <4>3. now' = [now EXCEPT ![Head(todo)] = v] /\ todo' = Tail(todo) /\ data' = 0
        BY <2>4, <3>2 DEF rtc_get_data
      <4> HIDE DEF v
      <4> QED
        BY <2>1, <3>1, <4>2, <4>3, Agreed
    <3>3. CASE byte # data
      <4>1. UNCHANGED <<now, todo, before>>
        BY <2>1, <2>4, <3>3 DEF rtc_get_data
      <4> QED
        BY <4>1, <2>1, <3>1 DEF RtcInv, TodoInv, Read, ClockInv, DataInv, NowInv, OrderInv, Past
    <3> QED
      BY <3>2, <3>3
  <2> QED
    BY <1>3, <2>3, <2>4 DEF GetReg
<1>4. CASE RtcTick
  <2>1. todo # <<>> /\ UNCHANGED <<before, todo, data, now>>
    BY <1>4 DEF RtcTick, Update
  <2>2. clock = before /\ clock' = Later(before) /\ clock' # before
    BY <1>4, <2>1, Reading, LaterDiffers DEF RtcTick, Update
  <2> QED
    BY <2>1, <2>2 DEF RtcInv, TodoInv, Read, ClockInv, DataInv, NowInv, OrderInv, Past
<1>5. CASE RtcAgain
  <2>1. Len(todo') = 6 /\ Read' = 0 /\ todo' = <<1, 2, 3, 4, 5, 6>>
    BY <1>5, TodoStarts DEF RtcAgain, Read
  <2>2. before \in Dated /\ clock \in {before, Later(before)}
    BY <1>5 DEF RtcAgain, RtcInv, ClockInv
  <2>3. clock' \in Dated /\ clock' \in Times /\ before' = clock' /\ before' # <<>>
    BY <1>5, <2>2, LaterDated, DatedRanges, NotEmpty DEF RtcAgain
  <2>4. TodoInv'
    BY <2>1 DEF TodoInv, Fields
  <2>5. ClockInv' /\ DataInv'
    BY <1>5, <2>1, <2>3 DEF RtcInv, ClockInv, DataInv, RtcAgain
  <2>6. NowInv' /\ OrderInv'
    BY <1>5, <2>1, <2>3 DEF NowInv, OrderInv, RtcAgain, Unread, Past, Fields
  <2> QED
    BY <2>4, <2>5, <2>6 DEF RtcInv
<1>6. CASE RtcDone
  <2>1. todo = <<>> /\ clock' = <<>> /\ before' = <<>> /\ now' = Unread /\ UNCHANGED <<todo, data>>
    BY <1>6 DEF RtcDone
  <2>2. TodoInv' /\ ClockInv' /\ DataInv'
    BY <2>1 DEF RtcInv, TodoInv, Read, ClockInv, DataInv
  <2>3. NowInv' /\ OrderInv'
    BY <2>1 DEF NowInv, OrderInv, Unread
  <2> QED
    BY <2>2, <2>3 DEF RtcInv
<1> QED
  BY <1>1, <1>2, <1>3, <1>4, <1>5, <1>6 DEF RtcNext

(* The inductive invariant: how far the read is, what the last byte can be *)
(* and which second each field is of.                                      *)
THEOREM RtcHolds == RtcSpec => []RtcInv
<1>1. RtcIdle => RtcInv
  BY ClockStarts
<1>2. RtcInv /\ [RtcNext]_rtcVars => RtcInv'
  BY ClockKeeps
<1> QED
  BY <1>1, <1>2, PTL DEF RtcSpec

-----------------------------------------------------------------------------
(* Hours, minutes and seconds, compared field by field.                    *)
LEMMA NotAhead ==
  ASSUME NEW bh \in Nat, NEW bm \in Nat, NEW bs \in 0..59, NEW hr \in Int, NEW m \in Int, NEW s \in Int
  PROVE  /\ hr <= bh /\ m <= bm /\ s <= bs + 1 => (hr * 60 + m) * 60 + s <= (bh * 60 + bm) * 60 + (bs + 1)
         /\ hr <= bh /\ m <= bm /\ s <= bs => (hr * 60 + m) * 60 + s <= (bh * 60 + bm) * 60 + bs
         /\ hr <= bh /\ m <= bm + 1 /\ s <= 59 /\ (m <= bm \/ s <= 0)
              => (hr * 60 + m) * 60 + s <= (bh * 60 + (bm + 1)) * 60
         /\ hr <= bh + 1 /\ m <= 59 /\ s <= 59 /\ (hr <= bh \/ (m <= 0 /\ s <= 0))
              => (hr * 60 + m) * 60 + s <= ((bh + 1) * 60) * 60
OBVIOUS

(* The time of a read: of the past, the present or 0, in the order read.   *)
Mixed(b, n, H, M, S) ==
  /\ H = -1 \/ H = 0 \/ H = b[HOUR] \/ H = n[HOUR]
  /\ M = -1 \/ M = 0 \/ M = b[MINUTE] \/ M = n[MINUTE]
  /\ S = -1 \/ S = 0 \/ S = b[SECOND] \/ S = n[SECOND]
  /\ \/ H = -1 \/ H = 0 \/ H = b[HOUR]
     \/ (M = -1 \/ M = 0 \/ M = n[MINUTE]) /\ (S = -1 \/ S = 0 \/ S = n[SECOND])
  /\ \/ M = -1 \/ M = 0 \/ M = b[MINUTE]
     \/ S = -1 \/ S = 0 \/ S = n[SECOND]

LEMMA ReadNotAhead ==
  ASSUME NEW b \in Dated, NEW n \in {b, Later(b)}, n[DAY] = b[DAY],
         NEW H \in Int, NEW M \in Int, NEW S \in Int,
         Mixed(b, n, H, M, S)
  PROVE  (H * 60 + M) * 60 + S <= Seconds(n)
<1>1. /\ b \in Times /\ b[HOUR] \in 0..23 /\ b[MINUTE] \in 0..59 /\ b[SECOND] \in 0..59
      /\ b[HOUR] \in Nat /\ b[MINUTE] \in Nat
  BY DatedRanges
<1>2. CASE n = b
  <2>1. H <= b[HOUR] /\ M <= b[MINUTE] /\ S <= b[SECOND]
    BY <1>1, <1>2 DEF Mixed
  <2>2. (H * 60 + M) * 60 + S <= (b[HOUR] * 60 + b[MINUTE]) * 60 + b[SECOND]
    BY <1>1, <2>1, NotAhead
  <2> QED
    BY <1>2, <2>2 DEF Seconds
<1>3. CASE n = Later(b)
  <2>1. ~(b[HOUR] = 23 /\ b[MINUTE] = 59 /\ b[SECOND] = 59)
    BY <1>1, <1>3, LaterFields, DatedRanges
  <2>2. /\ n[SECOND] = IF b[SECOND] = 59 THEN 0 ELSE b[SECOND] + 1
        /\ n[MINUTE] = IF b[SECOND] # 59 THEN b[MINUTE] ELSE IF b[MINUTE] = 59 THEN 0 ELSE b[MINUTE] + 1
        /\ n[HOUR] = IF ~(b[MINUTE] = 59 /\ b[SECOND] = 59) THEN b[HOUR] ELSE b[HOUR] + 1
    BY <1>1, <1>3, <2>1, LaterFields
  <2>3. CASE b[SECOND] # 59
    <3>1. n[HOUR] = b[HOUR] /\ n[MINUTE] = b[MINUTE] /\ n[SECOND] = b[SECOND] + 1
      BY <2>2, <2>3
    <3>2. H <= b[HOUR] /\ M <= b[MINUTE] /\ S <= b[SECOND] + 1
      BY <1>1, <3>1 DEF Mixed
    <3>3. (H * 60 + M) * 60 + S <= (b[HOUR] * 60 + b[MINUTE]) * 60 + (b[SECOND] + 1)
      BY <1>1, <3>2, NotAhead
    <3> QED
      BY <3>1, <3>3 DEF Seconds
  <2>4. CASE b[SECOND] = 59 /\ b[MINUTE] # 59
    <3>1. n[HOUR] = b[HOUR] /\ n[MINUTE] = b[MINUTE] + 1 /\ n[SECOND] = 0
      BY <2>2, <2>4
    <3>2. H <= b[HOUR] /\ M <= b[MINUTE] + 1 /\ S <= 59 /\ (M <= b[MINUTE] \/ S <= 0)
      BY <1>1, <2>4, <3>1 DEF Mixed
    <3>3. (H * 60 + M) * 60 + S <= (b[HOUR] * 60 + (b[MINUTE] + 1)) * 60
      BY <1>1, <3>2, NotAhead
    <3> QED
      BY <1>1, <3>1, <3>3 DEF Seconds
  <2>5. CASE b[SECOND] = 59 /\ b[MINUTE] = 59
    <3>1. n[HOUR] = b[HOUR] + 1 /\ n[MINUTE] = 0 /\ n[SECOND] = 0
      BY <2>2, <2>5
    <3>2. H <= b[HOUR] + 1 /\ M <= 59 /\ S <= 59 /\ (H <= b[HOUR] \/ (M <= 0 /\ S <= 0))
      BY <1>1, <2>5, <3>1 DEF Mixed
    <3>3. (H * 60 + M) * 60 + S <= ((b[HOUR] + 1) * 60) * 60
      BY <1>1, <3>2, NotAhead
    <3> QED
      BY <1>1, <3>1, <3>3 DEF Seconds
  <2> QED
    BY <2>3, <2>4, <2>5
<1> QED
  BY <1>2, <1>3

(* The time read is never ahead of the clock on the same day.              *)
THEOREM TimeIsNeverAhead == RtcSpec => []TimeNeverAhead
<1>1. RtcInv => TimeNeverAhead
  <2> SUFFICES ASSUME RtcInv, todo = <<>>, clock # <<>>, clock[DAY] = before[DAY]
               PROVE  Seconds(now) <= Seconds(clock)
    BY DEF TimeNeverAhead
  <2>1. before \in Dated /\ clock \in {before, Later(before)} /\ before # <<>>
    BY DatedRanges, NotEmpty DEF RtcInv, ClockInv
  <2>2. now[HOUR] \in Int /\ now[MINUTE] \in Int /\ now[SECOND] \in Int
    BY DEF RtcInv, NowInv, Fields, HOUR, MINUTE, SECOND
  <2>3. Mixed(before, clock, now[HOUR], now[MINUTE], now[SECOND])
    BY <2>1 DEF RtcInv, NowInv, OrderInv, Past, Fields, HOUR, MINUTE, SECOND, Mixed
  <2>4. (now[HOUR] * 60 + now[MINUTE]) * 60 + now[SECOND] <= Seconds(clock)
    BY <2>1, <2>2, <2>3, ReadNotAhead
  <2> QED
    BY <2>4 DEF Seconds
<1> QED
  BY <1>1, RtcHolds, PTL

(* The same of the whole date.  In one month only its day can be a new one,*)
(* and then the time of day is 0 or of the day before.                     *)
AllFields(t) ==
  /\ t[DAY] \in Int /\ t[MONTH] \in Int /\ t[YEAR] \in Int
  /\ t[HOUR] \in Int /\ t[MINUTE] \in Int /\ t[SECOND] \in Int

LEMMA EpochIs ==
  ASSUME NEW t, AllFields(t)
  PROVE  /\ Seconds(t) \in Int
         /\ time(t) = Seconds(t) + t[DAY] * 86400 + t[MONTH] * 2629743 + (t[YEAR] + 30) * 31556926
BY DEF time, Seconds, AllFields

LEMMA SumsOfReads ==
  ASSUME NEW t, NEW u, AllFields(t), AllFields(u),
         \/ Seconds(t) <= Seconds(u) /\ t[DAY] <= u[DAY]
         \/ Seconds(t) <= 86399 /\ Seconds(u) = 0 /\ t[DAY] + 1 <= u[DAY],
         t[MONTH] <= u[MONTH], t[YEAR] <= u[YEAR]
  PROVE  time(t) <= time(u)
<1>1. /\ Seconds(t) \in Int /\ Seconds(u) \in Int
      /\ time(t) = Seconds(t) + t[DAY] * 86400 + t[MONTH] * 2629743 + (t[YEAR] + 30) * 31556926
      /\ time(u) = Seconds(u) + u[DAY] * 86400 + u[MONTH] * 2629743 + (u[YEAR] + 30) * 31556926
  BY EpochIs
<1>2. PICK d \in Int, mo \in Int, y \in Int : d = t[DAY] /\ mo = t[MONTH] /\ y = t[YEAR]
  BY DEF AllFields
<1>3. PICK d2 \in Int, mo2 \in Int, y2 \in Int : d2 = u[DAY] /\ mo2 = u[MONTH] /\ y2 = u[YEAR]
  BY DEF AllFields
<1>4. PICK s \in Int, s2 \in Int : s = Seconds(t) /\ s2 = Seconds(u)
  BY <1>1
<1>5. (s <= s2 /\ d <= d2) \/ (s <= 86399 /\ s2 = 0 /\ d + 1 <= d2)
  BY <1>2, <1>3, <1>4
<1>6. mo <= mo2 /\ y <= y2
  BY <1>2, <1>3
<1>7. time(t) = s + d * 86400 + mo * 2629743 + (y + 30) * 31556926
  BY <1>1, <1>2, <1>4
<1>8. time(u) = s2 + d2 * 86400 + mo2 * 2629743 + (y2 + 30) * 31556926
  BY <1>1, <1>3, <1>4
<1> QED
  BY <1>5, <1>6, <1>7, <1>8

(* The date of a read: as the time, and what is read after a new day is    *)
(* of the new day too.                                                     *)
MixedDate(b, n, t) ==
  /\ \A f \in {DAY, MONTH, YEAR} : t[f] = -1 \/ t[f] = 0 \/ t[f] = b[f] \/ t[f] = n[f]
  /\ Mixed(b, n, t[HOUR], t[MINUTE], t[SECOND])
  /\ \/ t[DAY] = -1 \/ t[DAY] = 0 \/ t[DAY] = b[DAY]
     \/ \A f \in {HOUR, MINUTE, SECOND} : t[f] = -1 \/ t[f] = 0 \/ t[f] = n[f]

LEMMA DateNotAhead ==
  ASSUME NEW b \in Dated, NEW n \in {b, Later(b)}, n[MONTH] = b[MONTH],
         NEW t, AllFields(t), MixedDate(b, n, t)
  PROVE  time(t) <= time(n)
<1> DEFINE DMY == b[HOUR] = 23 /\ b[MINUTE] = 59 /\ b[SECOND] = 59
           days == DaysIn(b[MONTH], b[YEAR])
<1>1. /\ b \in Times /\ b[MONTH] \in 1..12 /\ b[YEAR] \in 0..99
      /\ b[HOUR] \in 0..23 /\ b[MINUTE] \in 0..59 /\ b[SECOND] \in 0..59
      /\ days \in 28..31 /\ b[DAY] \in 1..days
  BY DatedRanges
<1>2. n \in Dated
  BY LaterDated
<1>3. /\ n[MONTH] \in 1..12 /\ n[YEAR] \in 0..99
      /\ n[HOUR] \in 0..23 /\ n[MINUTE] \in 0..59 /\ n[SECOND] \in 0..59
      /\ DaysIn(n[MONTH], n[YEAR]) \in 28..31 /\ n[DAY] \in 1..DaysIn(n[MONTH], n[YEAR])
  BY <1>2, DatedRanges
<1>4. AllFields(n)
  BY <1>3 DEF AllFields
<1>5. /\ t[DAY] \in Int /\ t[MONTH] \in Int /\ t[YEAR] \in Int
      /\ t[HOUR] \in Int /\ t[MINUTE] \in Int /\ t[SECOND] \in Int
  BY DEF AllFields
<1>6. /\ t[DAY] = -1 \/ t[DAY] = 0 \/ t[DAY] = b[DAY] \/ t[DAY] = n[DAY]
      /\ t[MONTH] = -1 \/ t[MONTH] = 0 \/ t[MONTH] = b[MONTH] \/ t[MONTH] = n[MONTH]
      /\ t[YEAR] = -1 \/ t[YEAR] = 0 \/ t[YEAR] = b[YEAR] \/ t[YEAR] = n[YEAR]
      /\ Mixed(b, n, t[HOUR], t[MINUTE], t[SECOND])
  BY Zenon DEF MixedDate
<1>7. t[MONTH] <= n[MONTH]
  BY <1>1, <1>3, <1>5, <1>6
<1>8. ASSUME n[DAY] = b[DAY], n[YEAR] = b[YEAR] PROVE time(t) <= time(n)
  <2>1. (t[HOUR] * 60 + t[MINUTE]) * 60 + t[SECOND] <= Seconds(n)
    BY <1>5, <1>6, <1>8, ReadNotAhead
  <2>2. Seconds(t) <= Seconds(n)
    BY <2>1 DEF Seconds
  <2>3. t[DAY] <= n[DAY] /\ t[YEAR] <= n[YEAR]
    BY <1>1, <1>3, <1>5, <1>6, <1>8
  <2> QED
    BY <1>4, <1>7, <2>2, <2>3, SumsOfReads
<1>9. CASE n = b
  BY <1>8, <1>9
<1>10. CASE n = Later(b)
  <2>1. /\ n[SECOND] = IF b[SECOND] = 59 THEN 0 ELSE b[SECOND] + 1
        /\ n[MINUTE] = IF b[SECOND] # 59 THEN b[MINUTE] ELSE IF b[MINUTE] = 59 THEN 0 ELSE b[MINUTE] + 1
        /\ n[HOUR] = IF ~(b[MINUTE] = 59 /\ b[SECOND] = 59) THEN b[HOUR] ELSE IF b[HOUR] = 23 THEN 0 ELSE b[HOUR] + 1
        /\ n[DAY] = IF ~DMY THEN b[DAY] ELSE IF b[DAY] = days THEN 1 ELSE b[DAY] + 1
        /\ n[MONTH] = IF ~(DMY /\ b[DAY] = days) THEN b[MONTH] ELSE IF b[MONTH] = 12 THEN 1 ELSE b[MONTH] + 1
        /\ n[YEAR] = IF ~(DMY /\ b[DAY] = days /\ b[MONTH] = 12) THEN b[YEAR] ELSE IF b[YEAR] = 99 THEN 0 ELSE b[YEAR] + 1
    BY <1>1, <1>10, LaterFields
  <2>2. ~(DMY /\ b[DAY] = days)
    BY <1>1, <2>1
  <2>3. n[YEAR] = b[YEAR] /\ t[YEAR] <= n[YEAR]
    <3>1. n[YEAR] = b[YEAR]
      BY <2>1, <2>2
    <3> QED
      BY <1>1, <1>3, <1>5, <1>6, <3>1
  <2>4. CASE ~DMY
    <3>1. n[DAY] = b[DAY]
      BY <2>1, <2>4
    <3> QED
      BY <1>8, <2>3, <3>1
  <2>5. CASE DMY
    <3>1. n[HOUR] = 0 /\ n[MINUTE] = 0 /\ n[SECOND] = 0 /\ n[DAY] = b[DAY] + 1
      BY <2>1, <2>2, <2>5
    <3>2. Seconds(n) = 0
      BY <3>1 DEF Seconds
    <3>3. t[HOUR] <= 23 /\ t[MINUTE] <= 59 /\ t[SECOND] <= 59
      BY <1>1, <1>3, <1>5, <1>6 DEF Mixed
    <3>4. CASE t[DAY] = -1 \/ t[DAY] = 0 \/ t[DAY] = b[DAY]
      <4>1. t[DAY] + 1 <= n[DAY]
        BY <1>1, <3>1, <3>4
      <4>2. Seconds(t) <= 86399
        BY <1>5, <3>3 DEF Seconds
      <4> QED
        BY <1>4, <1>7, <2>3, <3>2, <4>1, <4>2, SumsOfReads
    <3>5. CASE \A f \in {HOUR, MINUTE, SECOND} : t[f] = -1 \/ t[f] = 0 \/ t[f] = n[f]
      <4>1. t[DAY] <= n[DAY]
        BY <1>1, <1>3, <1>5, <1>6, <3>1
      <4>2. t[HOUR] <= 0 /\ t[MINUTE] <= 0 /\ t[SECOND] <= 0
        BY <1>5, <3>1, <3>5
      <4>3. Seconds(t) <= 0
        BY <1>5, <4>2 DEF Seconds
      <4>4. Seconds(t) \in Int /\ Seconds(n) \in Int
        BY <1>4, EpochIs
      <4>5. Seconds(t) <= Seconds(n)
        BY <3>2, <4>3, <4>4
      <4> QED
        BY <1>4, <1>7, <2>3, <4>1, <4>5, SumsOfReads
    <3> QED
      BY <3>4, <3>5, Zenon DEF MixedDate
  <2> QED
    BY <2>4, <2>5
<1> QED
  BY <1>9, <1>10

(* What time() makes of a read is never ahead of the clock in one month.   *)
THEOREM EpochIsNeverAhead == RtcSpec => []EpochNeverAhead
<1>1. RtcInv => EpochNeverAhead
  <2> SUFFICES ASSUME RtcInv, todo = <<>>, clock # <<>>, clock[MONTH] = before[MONTH]
               PROVE  time(now) <= time(clock)
    BY DEF EpochNeverAhead
  <2>1. before \in Dated /\ clock \in {before, Later(before)} /\ before # <<>>
    BY DatedRanges, NotEmpty DEF RtcInv, ClockInv
  <2>2. AllFields(now)
    BY DEF RtcInv, NowInv, AllFields, Fields, DAY, MONTH, YEAR, HOUR, MINUTE, SECOND
  <2>3. Mixed(before, clock, now[HOUR], now[MINUTE], now[SECOND])
    BY <2>1 DEF RtcInv, NowInv, OrderInv, Past, Fields, HOUR, MINUTE, SECOND, Mixed
  <2>4. /\ \A f \in {DAY, MONTH, YEAR} : f \in Fields
        /\ \A f \in {HOUR, MINUTE, SECOND} : f \in Fields /\ DAY < f
        /\ DAY \in Fields
    BY DEF Fields, DAY, MONTH, YEAR, HOUR, MINUTE, SECOND
  <2>5. /\ \A f \in Fields : now[f] = -1 \/ now[f] = 0 \/ now[f] = before[f] \/ now[f] = clock[f]
        /\ \A f, g \in Fields : f < g => \/ now[f] = -1 \/ now[f] = 0 \/ now[f] = before[f]
                                         \/ now[g] = -1 \/ now[g] = 0 \/ now[g] = clock[g]
    BY <2>1 DEF RtcInv, NowInv, OrderInv, Past
  <2>6. MixedDate(before, clock, now)
    BY <2>3, <2>4, <2>5, Zenon DEF MixedDate
  <2> QED
    BY <2>1, <2>2, <2>6, DateNotAhead
<1> QED
  BY <1>1, RtcHolds, PTL

-----------------------------------------------------------------------------
(* printf.  The powers of the bases, as far as an int goes, as a table.    *)
UINT_MAX == 4294967295

Powers(base, pw) ==
  /\ pw[0] = 1
  /\ \A k \in 0..9 : pw[k + 1] = base * pw[k]
  /\ \A k \in 0..10 : pw[k] \in Nat \ {0}
  /\ UINT_MAX < pw[10]
  /\ \A k \in 0..9 : base ^ k = pw[k]
  /\ base ^ 10 = pw[10] \/ UINT_MAX < pw[9]

FirstPowers(base, top, f) ==
  /\ f[10] = top /\ \A k \in 0..9 : base ^ k = f[k]
  /\ f[0] = base ^ 0 /\ f[1] = base ^ 1 /\ f[2] = base ^ 2 /\ f[3] = base ^ 3 /\ f[4] = base ^ 4
  /\ f[5] = base ^ 5 /\ f[6] = base ^ 6 /\ f[7] = base ^ 7 /\ f[8] = base ^ 8 /\ f[9] = base ^ 9

LEMMA PowersTable == ASSUME NEW base, NEW top PROVE \E f : FirstPowers(base, top, f)
<1> DEFINE f == [k \in 0..10 |-> IF k = 10 THEN top ELSE base ^ k]
<1>1. 10 \in 0..10 /\ \A k \in 0..9 : k \in 0..10 /\ k # 10
  BY SMT
<1>2. f[10] = top /\ \A k \in 0..9 : base ^ k = f[k]
  BY <1>1, Zenon
<1>3. /\ 0 \in 0..9 /\ 1 \in 0..9 /\ 2 \in 0..9 /\ 3 \in 0..9 /\ 4 \in 0..9
      /\ 5 \in 0..9 /\ 6 \in 0..9 /\ 7 \in 0..9 /\ 8 \in 0..9 /\ 9 \in 0..9
  BY SMT
<1> HIDE DEF f
<1> QED BY <1>2, <1>3, Zenon DEF FirstPowers

LEMMA TenTo ==
  /\ 10 ^ 0 = 1
  /\ 10 ^ 1 = 10
  /\ 10 ^ 2 = 100
  /\ 10 ^ 3 = 1000
  /\ 10 ^ 4 = 10000
  /\ 10 ^ 5 = 100000
  /\ 10 ^ 6 = 1000000
  /\ 10 ^ 7 = 10000000
  /\ 10 ^ 8 = 100000000
  /\ 10 ^ 9 = 1000000000
  /\ 10 ^ 10 = 10000000000
BY SMT

LEMMA Powers10 == \E pw : Powers(10, pw)
<1>1. PICK top : top = 10000000000
  BY SMT
<1>2. PICK f : FirstPowers(10, top, f)
  BY PowersTable, Zenon
<1>3. /\ f[10] = top /\ \A k \in 0..9 : 10 ^ k = f[k]
      /\ f[0] = 10 ^ 0 /\ f[1] = 10 ^ 1 /\ f[2] = 10 ^ 2 /\ f[3] = 10 ^ 3 /\ f[4] = 10 ^ 4
      /\ f[5] = 10 ^ 5 /\ f[6] = 10 ^ 6 /\ f[7] = 10 ^ 7 /\ f[8] = 10 ^ 8 /\ f[9] = 10 ^ 9
  BY <1>2, Zenon DEF FirstPowers
<1>4. /\ f[0] = 1
      /\ f[1] = 10
      /\ f[2] = 100
      /\ f[3] = 1000
      /\ f[4] = 10000
      /\ f[5] = 100000
      /\ f[6] = 1000000
      /\ f[7] = 10000000
      /\ f[8] = 100000000
      /\ f[9] = 1000000000
      /\ f[10] = 10000000000
  BY <1>1, <1>3, TenTo, SMT
<1>5. \A k \in 0..9 : f[k + 1] = 10 * f[k]
  BY SMT, <1>4
<1>6. \A k \in 0..10 : f[k] \in Nat \ {0}
  BY SMT, <1>4
<1>7. UINT_MAX < f[10] /\ f[0] = 1 /\ 10 ^ 10 = f[10]
  BY SMT, <1>4, TenTo DEF UINT_MAX
<1> QED BY <1>3, <1>5, <1>6, <1>7, Zenon DEF Powers

LEMMA SixteenTo ==
  /\ 16 ^ 0 = 1
  /\ 16 ^ 1 = 16
  /\ 16 ^ 2 = 256
  /\ 16 ^ 3 = 4096
  /\ 16 ^ 4 = 65536
  /\ 16 ^ 5 = 1048576
  /\ 16 ^ 6 = 16777216
  /\ 16 ^ 7 = 268435456
  /\ 16 ^ 8 = 4294967296
  /\ 16 ^ 9 = 68719476736
BY SMT

LEMMA Powers16 == \E pw : Powers(16, pw)
<1>1. PICK top : top = 1099511627776
  BY SMT
<1>2. PICK f : FirstPowers(16, top, f)
  BY PowersTable, Zenon
<1>3. /\ f[10] = top /\ \A k \in 0..9 : 16 ^ k = f[k]
      /\ f[0] = 16 ^ 0 /\ f[1] = 16 ^ 1 /\ f[2] = 16 ^ 2 /\ f[3] = 16 ^ 3 /\ f[4] = 16 ^ 4
      /\ f[5] = 16 ^ 5 /\ f[6] = 16 ^ 6 /\ f[7] = 16 ^ 7 /\ f[8] = 16 ^ 8 /\ f[9] = 16 ^ 9
  BY <1>2, Zenon DEF FirstPowers
<1>4. /\ f[0] = 1
      /\ f[1] = 16
      /\ f[2] = 256
      /\ f[3] = 4096
      /\ f[4] = 65536
      /\ f[5] = 1048576
      /\ f[6] = 16777216
      /\ f[7] = 268435456
      /\ f[8] = 4294967296
      /\ f[9] = 68719476736
      /\ f[10] = 1099511627776
  BY <1>1, <1>3, SixteenTo, SMT
<1>5. \A k \in 0..9 : f[k + 1] = 16 * f[k]
  BY SMT, <1>4
<1>6. \A k \in 0..10 : f[k] \in Nat \ {0}
  BY SMT, <1>4
<1>7. UINT_MAX < f[10] /\ f[0] = 1 /\ UINT_MAX < f[9]
  BY SMT, <1>4, SixteenTo DEF UINT_MAX
<1> QED BY <1>3, <1>5, <1>6, <1>7, Zenon DEF Powers

(* Division: the quotient by q, from the one by base * q and a digit.      *)
LEMMA NextMultiple ==
  ASSUME NEW q \in Nat \ {0}, NEW a \in Nat, NEW b \in Nat, a < b
  PROVE  q * a + q <= q * b
<1>1. PICK d \in Nat : b = a + 1 + d
  <2>1. b - a - 1 \in Nat /\ b = a + 1 + (b - a - 1)
    OBVIOUS
  <2> QED BY <2>1
<1>2. q * b = q * a + q + q * d
  BY <1>1
<1>3. q * d >= 0
  OBVIOUS
<1> QED BY <1>2, <1>3

LEMMA DivMod ==
  ASSUME NEW x \in Nat, NEW q \in Nat \ {0}
  PROVE  /\ x \div q \in Nat /\ x % q \in 0..(q - 1)
         /\ x = q * (x \div q) + (x % q)
<1>1. x \div q \in Nat /\ x % q \in 0..(q - 1)
  OBVIOUS
<1>2. x = q * (x \div q) + (x % q)
  OBVIOUS
<1> QED BY <1>1, <1>2

LEMMA QuotientIs ==
  ASSUME NEW x \in Nat, NEW q \in Nat \ {0}, NEW a \in Nat, q * a <= x, x < q * a + q
  PROVE  x \div q = a
<1>1. PICK b \in Nat, r \in 0..(q - 1) : b = x \div q /\ x = q * b + r
  BY DivMod
<1>2. q * a \in Nat /\ q * b \in Nat
  OBVIOUS
<1>3. ~(a < b)
  <2>1. ASSUME a < b PROVE q * a + q <= q * b
    BY <2>1, NextMultiple
  <2> QED BY <1>1, <1>2, <2>1
<1>4. ~(b < a)
  <2>1. ASSUME b < a PROVE q * b + q <= q * a
    BY <2>1, NextMultiple
  <2> QED BY <1>1, <1>2, <2>1
<1> QED BY <1>1, <1>3, <1>4

LEMMA DigitAdded ==
  ASSUME NEW x \in Nat, NEW q \in Nat \ {0}, NEW base \in {10, 16}
  PROVE  x \div q = base * (x \div (base * q)) + ((x \div q) % base)
<1>1. PICK y \in Nat, u \in 0..(q - 1) : y = x \div q /\ x = q * y + u
  BY DivMod
<1>2. PICK a \in Nat, r \in 0..(base - 1) : a = y \div base /\ r = y % base /\ y = base * a + r
  OBVIOUS
<1>3. q * y = (base * q) * a + q * r
  <2>1. q * y = q * (base * a + r)
    BY <1>2
  <2>2. q * (base * a + r) = q * (base * a) + q * r
    BY <1>2
  <2>3. q * (base * a) = (base * q) * a
    BY <1>2
  <2> QED BY <2>1, <2>2, <2>3
<1>4. q * r + q <= q * base /\ q * r \in Nat /\ q * base = base * q
  BY <1>2, NextMultiple
<1>5. base * q \in Nat \ {0} /\ (base * q) * a \in Nat
  OBVIOUS
<1>6. (base * q) * a <= x /\ x < (base * q) * a + base * q
  BY <1>1, <1>3, <1>4, <1>5
<1> DEFINE bq == base * q
<1>7. bq \in Nat \ {0} /\ bq * a <= x /\ x < bq * a + bq
  BY <1>5, <1>6
<1> HIDE DEF bq
<1>8. x \div bq = a
  BY <1>7, QuotientIs
<1> QED BY <1>1, <1>2, <1>8 DEF bq

LEMMA Bits == INT_MAX \in Nat /\ UINT_MAX \in Nat /\ UINT_MAX = 2 * INT_MAX + 1
BY SMT DEF INT_MAX, UINT_MAX

Word == {x \in Int : Abs(x) <= UINT_MAX}

LEMMA WordIs == ASSUME NEW x \in Word PROVE x \in Int /\ Abs(x) \in 0..UINT_MAX
BY Bits DEF Word, Abs

LEMMA ThirtyTwoBits == ASSUME NEW x \in Int, x \div 2 \in (-INT_MAX)..INT_MAX PROVE x \in Word
<1>1. PICK half \in Int, r \in 0..1 : half = x \div 2 /\ x = 2 * half + r
  OBVIOUS
<1>2. -UINT_MAX <= x /\ x <= UINT_MAX
  BY <1>1, Bits
<1> QED BY <1>2, Bits DEF Word, Abs

(* And so has what time() makes of a read.                                 *)
LEMMA EpochIsWord == ASSUME NEW t, AllFields(t),
         -1 <= t[DAY], t[DAY] <= 31, -1 <= t[MONTH], t[MONTH] <= 12, -1 <= t[YEAR], t[YEAR] <= 99,
         -1 <= t[HOUR], t[HOUR] <= 23, -1 <= t[MINUTE], t[MINUTE] <= 59, -1 <= t[SECOND], t[SECOND] <= 59
  PROVE  time(t) \in Word
<1>1. PICK d \in Int, mo \in Int, y \in Int : d = t[DAY] /\ mo = t[MONTH] /\ y = t[YEAR]
  BY DEF AllFields
<1>2. PICK s \in Int : s = Seconds(t)
  BY EpochIs
<1>3. -3661 <= s /\ s <= 86399
  BY <1>2 DEF Seconds, AllFields
<1>r. -1 <= d /\ d <= 31 /\ -1 <= mo /\ mo <= 12 /\ -1 <= y /\ y <= 99
  BY <1>1
<1> DEFINE x == s + d * 86400 + mo * 2629743 + (y + 30) * 31556926
<1>4. 0 <= x /\ x <= UINT_MAX /\ x \in Int
  BY <1>3, <1>r, SMT DEF UINT_MAX
<1>5. time(t) = x
  BY <1>1, <1>2, EpochIs
<1> HIDE DEF x
<1> QED BY <1>4, <1>5, Bits DEF Word, Abs

LEMMA SmallIsWord == \A x \in -1..59 : x \in Word
<1>1. 59 <= UINT_MAX /\ UINT_MAX \in Nat
  BY SMT DEF UINT_MAX
<1> QED BY <1>1 DEF Word, Abs

LEMMA ReadInRanges ==
  ASSUME NEW b \in Dated, NEW n \in {b, Later(b)}, NEW t, AllFields(t),
         \A f \in {DAY, MONTH, YEAR, HOUR, MINUTE, SECOND} : t[f] = -1 \/ t[f] = 0 \/ t[f] = b[f] \/ t[f] = n[f]
  PROVE  /\ -1 <= t[DAY] /\ t[DAY] <= 31 /\ -1 <= t[MONTH] /\ t[MONTH] <= 12
         /\ -1 <= t[YEAR] /\ t[YEAR] <= 99 /\ -1 <= t[HOUR] /\ t[HOUR] <= 23
         /\ -1 <= t[MINUTE] /\ t[MINUTE] <= 59 /\ -1 <= t[SECOND] /\ t[SECOND] <= 59
<1> DEFINE InRanges(m) ==
      /\ m[DAY] \in 1..31 /\ m[MONTH] \in 1..12 /\ m[YEAR] \in 0..99
      /\ m[HOUR] \in 0..23 /\ m[MINUTE] \in 0..59 /\ m[SECOND] \in 0..59
<1>1. ASSUME NEW m \in Dated PROVE InRanges(m)
  BY DatedRanges
<1>2. InRanges(b) /\ InRanges(n)
  BY <1>1, LaterDated
<1>3. \A f \in {DAY, MONTH, YEAR, HOUR, MINUTE, SECOND} : t[f] = -1 \/ t[f] = 0 \/ t[f] = b[f] \/ t[f] = n[f]
  OBVIOUS
<1> QED
  BY <1>2, <1>3 DEF AllFields

LEMMA ReadIsWord == ASSUME RtcInv PROVE now[SECOND] \in Word /\ time(now) \in Word
<1>1. AllFields(now)
  BY DEF RtcInv, NowInv, AllFields, Fields, DAY, MONTH, YEAR, HOUR, MINUTE, SECOND
<1>2. /\ -1 <= now[DAY] /\ now[DAY] <= 31 /\ -1 <= now[MONTH] /\ now[MONTH] <= 12
      /\ -1 <= now[YEAR] /\ now[YEAR] <= 99 /\ -1 <= now[HOUR] /\ now[HOUR] <= 23
      /\ -1 <= now[MINUTE] /\ now[MINUTE] <= 59 /\ -1 <= now[SECOND] /\ now[SECOND] <= 59
  <2>1. CASE before = <<>>
    <3>1. now = Unread
      BY <2>1, DatedRanges, NotEmpty DEF RtcInv, ClockInv
    <3> QED
      BY <3>1 DEF Unread, Fields, DAY, MONTH, YEAR, HOUR, MINUTE, SECOND
  <2>2. CASE before # <<>>
    <3>1. before \in Dated /\ clock \in {before, Later(before)}
      BY <2>2 DEF RtcInv, ClockInv
    <3>2. \A f \in Fields : now[f] = -1 \/ now[f] = 0 \/ now[f] = before[f] \/ now[f] = clock[f]
      BY <2>2 DEF RtcInv, NowInv, Past
    <3>3. /\ DAY \in Fields /\ MONTH \in Fields /\ YEAR \in Fields
          /\ HOUR \in Fields /\ MINUTE \in Fields /\ SECOND \in Fields
      BY DEF Fields, DAY, MONTH, YEAR, HOUR, MINUTE, SECOND
    <3>4. \A f \in {DAY, MONTH, YEAR, HOUR, MINUTE, SECOND} :
            now[f] = -1 \/ now[f] = 0 \/ now[f] = before[f] \/ now[f] = clock[f]
      BY <3>2, <3>3, Zenon
    <3> QED
      BY <1>1, <3>1, <3>4, ReadInRanges
  <2> QED
    BY <2>1, <2>2
<1>3. now[SECOND] \in Word
  BY <1>1, <1>2, SmallIsWord DEF AllFields
<1> QED
  BY <1>1, <1>2, <1>3, EpochIsWord

(* digits is the number of digits.                                         *)
LEMMA QuotientBounds ==
  ASSUME NEW x \in Nat, NEW q \in Nat \ {0}, NEW base \in {10, 16}
  PROVE  /\ x \div q < base <=> x < base * q
         /\ x \div q > 0 <=> q <= x
<1>1. PICK y \in Nat, u \in 0..(q - 1) : y = x \div q /\ x = q * y + u
  BY DivMod
<1>2. base \in Nat /\ q * y \in Nat /\ q * base \in Nat /\ q * base = base * q
  OBVIOUS
<1>3. y < base => q * y + q <= q * base
  BY <1>2, NextMultiple
<1>4. base < y => q * base + q <= q * y
  BY <1>2, NextMultiple
<1>5. y = base => q * y = q * base
  OBVIOUS
<1>6. 0 < y => q * 0 + q <= q * y
  BY NextMultiple
<1>7. y = 0 => q * y = 0
  OBVIOUS
<1>8. x < base * q <=> y < base
  BY <1>1, <1>2, <1>3, <1>4, <1>5
<1>9. q <= x <=> y > 0
  BY <1>1, <1>2, <1>6, <1>7
<1> QED BY <1>1, <1>8, <1>9

LEMMA DigitsIs ==
  ASSUME NEW base \in {10, 16}, NEW pw, Powers(base, pw), NEW x \in 0..UINT_MAX
  PROVE  /\ digits(x, base) \in 1..10 /\ x < pw[digits(x, base)]
         /\ digits(x, base) = 1 \/ pw[digits(x, base) - 1] <= x
<1> DEFINE T == {d \in 1..10 : x < pw[d]}
           P(d) == x \div (base ^ (d - 1)) < base /\ (d = 1 \/ x \div (base ^ (d - 1)) > 0)
<1>1. /\ \A k \in 0..10 : pw[k] \in Nat \ {0}
      /\ \A k \in 0..9 : pw[k + 1] = base * pw[k]
      /\ UINT_MAX < pw[10] /\ UINT_MAX \in Nat
      /\ \A k \in 0..9 : base ^ k = pw[k]
  BY Bits, Zenon DEF Powers
<1>2. T \in SUBSET Nat /\ 10 \in T
  BY <1>1
<1>3. PICK m \in T : \A d \in T : m <= d
  <2> HIDE DEF T
  <2> QED BY <1>2, Least
<1>4. m \in 1..10 /\ x < pw[m]
  BY <1>3
<1>5. m = 1 \/ (m - 1 \in 1..9 /\ pw[m - 1] <= x)
  <2>1. m # 1 => m - 1 \in 1..9 /\ m - 1 \notin T
    BY <1>3, <1>4
  <2> QED BY <1>1, <2>1
<1>6. ASSUME NEW d \in 1..10 PROVE P(d) <=> x < pw[d] /\ (d = 1 \/ pw[d - 1] <= x)
  <2>1. d - 1 \in 0..9 /\ d - 1 \in 0..10 /\ (d - 1) + 1 = d
    OBVIOUS
  <2>2. PICK q \in Nat \ {0} : q = pw[d - 1]
    BY <1>1, <2>1, Zenon
  <2>3. base ^ (d - 1) = q /\ pw[d] = base * q
    BY <1>1, <2>1, <2>2, Zenon
  <2>4. x \in Nat
    BY <1>1
  <2>5. (x \div q < base <=> x < base * q) /\ (x \div q > 0 <=> q <= x)
    BY <2>4, QuotientBounds, Zenon
  <2> QED BY <2>2, <2>3, <2>5, Zenon
<1>7. P(m)
  <2> HIDE DEF P
  <2> QED BY <1>4, <1>5, <1>6, Zenon
<1> DEFINE c == digits(x, base)
<1>8. c = CHOOSE d \in 1..10 : P(d)
  BY Zenon DEF digits
<1>9. c \in 1..10 /\ P(c)
  <2> HIDE DEF P, c
  <2> QED BY <1>4, <1>7, <1>8, Zenon
<1> HIDE DEF P, c
<1> QED BY <1>6, <1>9, Zenon DEF c

(* The sixteen digits are different.                                       *)
LEMMA DigitsDiffer ==
  /\ \A j \in 1..16 : (CHOOSE l \in 1..16 : Digit[l] = Digit[j]) = j
  /\ \A j \in 2..16 : Digit[j] # "0"
<1>1. \A j, l \in 1..16 : Digit[l] = Digit[j] => l = j
  BY SMTT(60) DEF Digit
<1>2. Digit[1] = "0"
  BY DEF Digit
<1>3. \A j \in 1..16 : (CHOOSE l \in 1..16 : Digit[l] = Digit[j]) = j
  BY <1>1, Zenon
<1>4. \A j \in 2..16 : j \in 1..16 /\ 1 \in 1..16 /\ j # 1
  BY SMT
<1>5. \A j \in 2..16 : Digit[j] # "0"
  BY <1>1, <1>2, <1>4, Zenon
<1> QED BY <1>3, <1>5

(* A text has the value of a number if it has its digits: what Value adds  *)
(* up to the k-th of them is the number without the last ones.             *)
Writes(s, n, x, base, pw) ==
  Len(s) = n /\ \A k \in 1..n : s[k] = Digit[1 + ((x \div pw[n - k]) % base)]

LEMMA DigitsAddUp ==
  ASSUME NEW base \in {10, 16}, NEW pw, Powers(base, pw), NEW x \in 0..UINT_MAX,
         NEW s, NEW n \in 1..10, x < pw[n], Writes(s, n, x, base, pw)
  PROVE  Value(s, base) = x
<1> DEFINE g == [k \in 0..n |-> x \div pw[n - k]]
           R(f) == [k \in 0..n |-> IF k = 0 THEN 0
                                   ELSE base * f[k - 1] + (CHOOSE j \in 1..16 : Digit[j] = s[k]) - 1]
           v == CHOOSE f : f = R(f)
<1>1. Value(s, base) = v[n]
  BY Zenon DEF Value, Writes
<1>2. \A k \in 0..n : g[k] = x \div pw[n - k]
  BY Zenon
<1> HIDE DEF g, R, v
<1>3. /\ x \in Nat /\ pw[0] = 1
      /\ \A k \in 0..9 : pw[k + 1] = base * pw[k]
      /\ \A k \in 0..10 : pw[k] \in Nat \ {0}
  BY Bits DEF Powers
<1>4. g[0] = 0 /\ g[n] = x
  <2>0. n \in 0..10
    OBVIOUS
  <2>1. PICK q \in Nat \ {0} : q = pw[n]
    BY <1>3, <2>0, Zenon
  <2>2. q * 0 <= x /\ x < q * 0 + q /\ 0 \in Nat
    <3>1. x < q
      BY <2>1
    <3> QED BY <1>3, <3>1
  <2>3. x \div q = 0
    BY <1>3, <2>2, QuotientIs
  <2>4. 0 \in 0..n /\ n \in 0..n /\ n - 0 = n /\ n - n = 0
    OBVIOUS
  <2>5. g[0] = x \div q /\ g[n] = x \div pw[0]
    BY <1>2, <2>1, <2>4
  <2>6. x \div 1 = x
    BY <1>3
  <2> QED BY <1>3, <2>3, <2>5, <2>6, Zenon
<1>5. \A k \in 1..n : g[k] = base * g[k - 1] + (CHOOSE j \in 1..16 : Digit[j] = s[k]) - 1
  <2> SUFFICES ASSUME NEW k \in 1..n
               PROVE  g[k] = base * g[k - 1] + (CHOOSE j \in 1..16 : Digit[j] = s[k]) - 1
    OBVIOUS
  <2>1. n - k \in 0..9 /\ n - (k - 1) = (n - k) + 1 /\ n - k \in 0..10 /\ k - 1 \in 0..n /\ k \in 0..n
    OBVIOUS
  <2>2. PICK q : q = pw[n - k]
    OBVIOUS
  <2>3. q \in Nat \ {0} /\ pw[n - (k - 1)] = base * q
    BY <1>3, <2>1, <2>2, Zenon
  <2>4. g[k] = x \div q /\ g[k - 1] = x \div (base * q)
    BY <1>2, <2>1, <2>2, <2>3, Zenon
  <2>5. x \div q = base * (x \div (base * q)) + ((x \div q) % base)
    BY <1>3, <2>3, DigitAdded
  <2>6. base * q \in Nat \ {0}
    BY <2>3
  <2>7. PICK a : a = x \div (base * q)
    OBVIOUS
  <2>8. a \in Nat
    BY <1>3, <2>6, <2>7, DivMod
  <2>9. PICK y : y = x \div q
    OBVIOUS
  <2>10. y \in Nat
    BY <1>3, <2>3, <2>9, DivMod
  <2>11. PICK r : r = y % base
    OBVIOUS
  <2>12. r \in 0..(base - 1) /\ 1 + r \in 1..16
    BY <2>10, <2>11
  <2>13. s[k] = Digit[1 + r]
    BY <2>2, <2>9, <2>11, Zenon DEF Writes
  <2>14. (CHOOSE j \in 1..16 : Digit[j] = s[k]) = 1 + r
    <3>1. \A j \in 1..16 : (CHOOSE l \in 1..16 : Digit[l] = Digit[j]) = j
      BY DigitsDiffer, Zenon
    <3>2. (CHOOSE l \in 1..16 : Digit[l] = Digit[1 + r]) = 1 + r
      BY <2>12, <3>1, Zenon
    <3> QED BY <2>13, <3>2, Zenon
  <2>15. y = base * a + r
    BY <2>5, <2>7, <2>9, <2>11, Zenon
  <2>16. base * a + r = base * a + (1 + r) - 1
    BY <2>8, <2>12
  <2> QED BY <2>4, <2>7, <2>9, <2>14, <2>15, <2>16, Zenon
<1>6. g = R(g)
  <2> DEFINE e(k) == IF k = 0 THEN 0 ELSE base * g[k - 1] + (CHOOSE j \in 1..16 : Digit[j] = s[k]) - 1
  <2>1. \A k \in 0..n : k = 0 \/ k \in 1..n
    OBVIOUS
  <2>2. \A k \in 0..n : g[k] = e(k)
    BY <1>4, <1>5, <2>1, Zenon
  <2>3. g = [k \in 0..n |-> g[k]]
    BY <1>2, Zenon DEF g
  <2> HIDE DEF e
  <2>4. g = [k \in 0..n |-> e(k)]
    BY <2>2, <2>3, Zenon
  <2> QED BY <2>4, Zenon DEF R, e
<1>7. v = R(v)
  BY <1>6, Zenon DEF v
<1>8. /\ v[0] = 0
      /\ \A k \in 1..n : v[k] = base * v[k - 1] + (CHOOSE j \in 1..16 : Digit[j] = s[k]) - 1
  <2> DEFINE e(k) == IF k = 0 THEN 0 ELSE base * v[k - 1] + (CHOOSE j \in 1..16 : Digit[j] = s[k]) - 1
  <2>1. 0 \in 0..n /\ \A k \in 1..n : k \in 0..n /\ k # 0
    OBVIOUS
  <2>2. v = [k \in 0..n |-> e(k)]
    BY <1>7, Zenon DEF R
  <2> HIDE DEF e
  <2>3. \A k \in 0..n : v[k] = e(k)
    BY <2>2, Zenon
  <2> QED BY <2>1, <2>3, Zenon DEF e
<1> DEFINE others == {k \in Nat : k \in 0..n /\ v[k] # g[k]}
<1>9. others = {}
  <2> SUFFICES ASSUME others # {} PROVE FALSE
    OBVIOUS
  <2>1. PICK k \in others : \A l \in others : k <= l
    <3>1. others \in SUBSET Nat
      OBVIOUS
    <3> HIDE DEF others
    <3> QED BY <3>1, Least
  <2>2. k \in 0..n /\ v[k] # g[k]
    BY <2>1
  <2>3. k # 0
    BY <1>4, <1>8, <2>2
  <2>4. k \in 1..n /\ k - 1 \in 0..n /\ k - 1 \in Nat /\ ~(k <= k - 1)
    BY <2>2, <2>3
  <2>5. v[k - 1] = g[k - 1]
    BY <2>1, <2>4
  <2>6. PICK c : c = CHOOSE j \in 1..16 : Digit[j] = s[k]
    OBVIOUS
  <2>7. v[k] = base * v[k - 1] + c - 1 /\ g[k] = base * g[k - 1] + c - 1
    BY <1>5, <1>8, <2>4, <2>6, Zenon
  <2> QED BY <2>2, <2>5, <2>7, Zenon
<1>10. n \in Nat /\ n \in 0..n
  OBVIOUS
<1>11. v[n] = g[n]
  BY <1>9, <1>10
<1> QED BY <1>1, <1>4, <1>11

(* So itoa and fmt_x spell a number: in its digits, without zeros before   *)
(* them, and after its sign.                                               *)
Characters == {Digit[j] : j \in 1..16} \union {"-", "."}

LEMMA DigitsSpell ==
  ASSUME NEW base \in {10, 16}, NEW pw, Powers(base, pw), NEW x \in 0..UINT_MAX,
         NEW s, s # << >>, Writes(s, digits(x, base), x, base, pw)
  PROVE  Unsigned(s, x, base)
<1> DEFINE n == digits(x, base)
<1>1. n \in 1..10 /\ x < pw[n] /\ (n = 1 \/ pw[n - 1] <= x)
  BY DigitsIs
<1>2. Writes(s, n, x, base, pw)
  OBVIOUS
<1> HIDE DEF n
<1>3. Value(s, base) = x
  BY <1>1, <1>2, DigitsAddUp
<1>4. /\ x \in Nat
      /\ \A k \in 0..9 : pw[k + 1] = base * pw[k]
      /\ \A k \in 0..10 : pw[k] \in Nat \ {0}
  BY Bits DEF Powers
<1>5. \A k \in 1..n : \E j \in 1..16 : s[k] = Digit[j]
  <2> SUFFICES ASSUME NEW k \in 1..n PROVE \E j \in 1..16 : s[k] = Digit[j]
    OBVIOUS
  <2>1. n - k \in 0..10
    BY <1>1
  <2>2. PICK q \in Nat \ {0} : q = pw[n - k]
    BY <1>4, <2>1, Zenon
  <2>3. PICK y \in Nat : y = x \div q
    BY <1>4, DivMod
  <2>4. 1 + (y % base) \in 1..16
    OBVIOUS
  <2>5. s[k] = Digit[1 + (y % base)]
    BY <1>2, <2>2, <2>3, Zenon DEF Writes
  <2> QED BY <2>4, <2>5, Zenon
<1>6. n > 1 => s[1] # "0"
  <2> SUFFICES ASSUME n > 1 PROVE s[1] # "0"
    OBVIOUS
  <2>1. n - 1 \in 0..9 /\ n - 1 \in 0..10 /\ (n - 1) + 1 = n /\ n # 1 /\ 1 \in 1..n
    BY <1>1
  <2>2. PICK q \in Nat \ {0} : q = pw[n - 1] /\ pw[n] = base * q
    BY <1>4, <2>1, Zenon
  <2>3. q <= x /\ x < base * q
    BY <1>1, <2>1, <2>2, Zenon
  <2>4. PICK y \in Nat, u \in 0..(q - 1) : y = x \div q /\ x = q * y + u
    <3>1. /\ x \div q \in Nat /\ x % q \in 0..(q - 1)
          /\ x = q * (x \div q) + (x % q)
      BY <1>4, DivMod
    <3> QED BY <3>1, Zenon
  <2>5. y # 0
    BY <2>3, <2>4
  <2>6. y < base
    <3>1. ASSUME base < y PROVE FALSE
      <4>1. q * base + q <= q * y
        BY <3>1, NextMultiple
      <4> QED BY <2>3, <2>4, <4>1
    <3>2. y # base
      BY <2>3, <2>4
    <3> QED BY <3>1, <3>2
  <2>7. y % base = y /\ 1 + y \in 2..16
    BY <2>5, <2>6
  <2>8. s[1] = Digit[1 + y]
    BY <1>2, <2>1, <2>2, <2>4, <2>7, Zenon DEF Writes
  <2> QED BY <2>7, <2>8, DigitsDiffer, Zenon
<1>7. Len(s) = n
  BY <1>2 DEF Writes
<1> QED BY <1>3, <1>5, <1>6, <1>7, Zenon DEF Unsigned, AreDigits

LEMMA ItoaSpells ==
  ASSUME NEW x \in Word
  PROVE  /\ itoa(x) \in Seq(Characters) /\ Spells(itoa(x), x, 10)
         /\ Len(itoa(x)) = digits(Abs(x), 10) + (IF x < 0 THEN 1 ELSE 0)
         /\ Len(itoa(x)) > 0
<1> DEFINE a == Abs(x)
           n == digits(a, 10)
           t == [k \in 1..n |-> Digit[1 + ((a \div (10 ^ (n - k))) % 10)]]
<1>1. x \in Int /\ a \in 0..UINT_MAX /\ a \in Nat /\ a = IF x < 0 THEN -x ELSE x
  BY WordIs, Bits, SMT DEF Abs
<1>2. itoa(x) = (IF x < 0 THEN << "-" >> ELSE << >>) \o t
  BY Zenon DEF itoa
<1> HIDE DEF a
<1>3. PICK pw : Powers(10, pw)
  BY Powers10, Zenon
<1>4. 10 \in {10, 16}
  OBVIOUS
<1>5. n \in 1..10
  BY <1>1, <1>3, DigitsIs, Zenon
<1> HIDE DEF n
<1>6. \A k \in 1..n : t[k] = Digit[1 + ((a \div pw[n - k]) % 10)]
  <2> SUFFICES ASSUME NEW k \in 1..n PROVE t[k] = Digit[1 + ((a \div pw[n - k]) % 10)]
    OBVIOUS
  <2>1. n - k \in 0..9
    BY <1>5
  <2>2. 10 ^ (n - k) = pw[n - k]
    BY <1>3, <2>1, Zenon DEF Powers
  <2> QED BY <2>2, Zenon
<1>7. \A k \in 1..n : t[k] \in {Digit[j] : j \in 1..16}
  <2> SUFFICES ASSUME NEW k \in 1..n PROVE t[k] \in {Digit[j] : j \in 1..16}
    OBVIOUS
  <2>1. n - k \in 0..10
    BY <1>5
  <2>2. PICK q \in Nat \ {0} : q = pw[n - k]
    BY <1>3, <2>1, Zenon DEF Powers
  <2>3. PICK y \in Nat : y = a \div q
    BY <1>1, DivMod
  <2>4. 1 + (y % 10) \in 1..16
    OBVIOUS
  <2> QED BY <1>6, <2>2, <2>3, <2>4, Zenon
<1>8. DOMAIN t = 1..n
  BY Zenon
<1>t. PICK tt : tt = t
  OBVIOUS
<1>9. tt \in Seq(Characters) /\ Len(tt) = n
  <2>1. tt \in [1..n -> Characters]
    BY <1>7, <1>t, Zenon DEF Characters
  <2> QED BY <1>5, <2>1
<1>10. \A k \in 1..n : tt[k] = Digit[1 + ((a \div pw[n - k]) % 10)]
  BY <1>6, <1>t, Zenon
<1>11. Writes(tt, n, a, 10, pw)
  BY <1>9, <1>10, Zenon DEF Writes
<1>12. tt # << >>
  BY <1>5, <1>9
<1>13. Unsigned(tt, a, 10)
  BY <1>1, <1>3, <1>4, <1>11, <1>12, DigitsSpell, Zenon DEF n
<1> HIDE DEF t
<1>14. CASE x < 0
  <2>1. PICK m : m = << "-" >>
    OBVIOUS
  <2>2. m \in Seq(Characters) /\ Len(m) = 1 /\ m[1] = "-"
    <3>1. "-" \in Characters
      BY DEF Characters
    <3> HIDE DEF Characters
    <3> QED BY <2>1, <3>1
  <2>3. itoa(x) = m \o tt
    BY <1>2, <1>14, <1>t, <2>1, Zenon
  <2>4. PICK s : s = m \o tt
    OBVIOUS
  <2>5. /\ s \in Seq(Characters) /\ Len(s) = 1 + n
        /\ \A k \in 1..(1 + n) : s[k] = IF k <= 1 THEN m[k] ELSE tt[k - 1]
    <3>1. /\ m \o tt \in Seq(Characters) /\ Len(m \o tt) = Len(m) + Len(tt)
          /\ \A k \in 1..(Len(m) + Len(tt)) : (m \o tt)[k] = IF k <= Len(m) THEN m[k] ELSE tt[k - Len(m)]
      BY <1>9, <2>2, ConcatProperties, Zenon
    <3> QED BY <1>9, <2>2, <2>4, <3>1, Zenon
  <2>6. s[1] = "-" /\ \A k \in 1..n : s[k + 1] = tt[k]
    BY <1>5, <2>2, <2>5
  <2>7. s # << >>
    BY <1>5, <2>5
  <2>8. /\ Tail(s) \in Seq(Characters) /\ Len(Tail(s)) = n
        /\ \A k \in 1..n : Tail(s)[k] = s[k + 1]
    <3>1. /\ Tail(s) \in Seq(Characters) /\ Len(Tail(s)) = Len(s) - 1
          /\ \A k \in 1..Len(Tail(s)) : Tail(s)[k] = s[k + 1]
      BY <2>5, <2>7, HeadTailProperties
    <3>2. Len(s) - 1 = n
      BY <1>5, <2>5
    <3> QED BY <3>1, <3>2, Zenon
  <2>9. Tail(s) = tt
    BY <1>9, <2>6, <2>8, SeqEqual
  <2>10. ~(x >= 0) /\ a = -x
    BY <1>1, <1>14
  <2>11. Spells(s, x, 10)
    BY <1>13, <2>6, <2>9, <2>10, Zenon DEF Spells
  <2>12. 1 + n = n + 1 /\ 1 + n > 0
    BY <1>5
  <2> QED BY <1>14, <2>3, <2>4, <2>5, <2>11, <2>12, Zenon DEF n, a
<1>15. CASE ~(x < 0)
  <2>1. itoa(x) = << >> \o tt
    BY <1>2, <1>15, <1>t, Zenon
  <2>2. itoa(x) = tt
    BY <1>9, <2>1, ConcatEmptySeq
  <2>3. x >= 0 /\ a = x /\ n = n + 0 /\ n > 0
    BY <1>1, <1>5, <1>15
  <2>4. Spells(tt, x, 10)
    BY <1>13, <2>3, Zenon DEF Spells
  <2> QED BY <1>9, <1>15, <2>2, <2>3, <2>4, Zenon DEF n, a
<1> QED BY <1>14, <1>15

LEMMA FmtSpells ==
  ASSUME NEW x \in Word, x \in Nat
  PROVE  /\ fmt_x(x) \in Seq(Characters) /\ Spells(fmt_x(x), x, 16)
         /\ Len(fmt_x(x)) = digits(x, 16) /\ Len(fmt_x(x)) > 0
<1> DEFINE n == digits(x, 16)
           u == [k \in 1..n |-> Digit[1 + ((x \div (16 ^ (k - 1))) % 16)]]
<1>1. x \in 0..UINT_MAX
  BY WordIs, Bits DEF Abs
<1>2. fmt_x(x) = Rev(u)
  BY Zenon DEF fmt_x
<1>3. PICK pw : Powers(16, pw)
  BY Powers16, Zenon
<1>4. 16 \in {10, 16}
  OBVIOUS
<1>5. n \in 1..10
  BY <1>1, <1>3, DigitsIs, Zenon
<1> HIDE DEF n
<1>6. \A k \in 1..n : u[k] = Digit[1 + ((x \div pw[k - 1]) % 16)]
  <2> SUFFICES ASSUME NEW k \in 1..n PROVE u[k] = Digit[1 + ((x \div pw[k - 1]) % 16)]
    OBVIOUS
  <2>1. k - 1 \in 0..9
    BY <1>5
  <2>2. 16 ^ (k - 1) = pw[k - 1]
    BY <1>3, <2>1, Zenon DEF Powers
  <2> QED BY <2>2, Zenon
<1>7. \A k \in 1..n : u[k] \in {Digit[j] : j \in 1..16}
  <2> SUFFICES ASSUME NEW k \in 1..n PROVE u[k] \in {Digit[j] : j \in 1..16}
    OBVIOUS
  <2>1. k - 1 \in 0..10
    BY <1>5
  <2>2. PICK q \in Nat \ {0} : q = pw[k - 1]
    BY <1>3, <2>1, Zenon DEF Powers
  <2>3. PICK y \in Nat : y = x \div q
    BY DivMod
  <2>4. 1 + (y % 16) \in 1..16
    OBVIOUS
  <2> QED BY <1>6, <2>2, <2>3, <2>4, Zenon
<1>8. PICK uu : uu = u
  OBVIOUS
<1>9. uu \in [1..n -> Characters]
  BY <1>7, <1>8, Zenon DEF Characters
<1>10. uu \in Seq(Characters) /\ Len(uu) = n
  BY <1>5, <1>9
<1>11. PICK t : t = [k \in 1..n |-> uu[n + 1 - k]]
  OBVIOUS
<1>12. fmt_x(x) = t
  BY <1>2, <1>8, <1>10, <1>11, Zenon DEF Rev
<1> HIDE DEF u
<1>13. \A k \in 1..n : n + 1 - k \in 1..n /\ (n + 1 - k) - 1 = n - k
  BY <1>5
<1>14. \A k \in 1..n : t[k] = uu[n + 1 - k]
  BY <1>11, Zenon
<1>15. t \in Seq(Characters) /\ Len(t) = n
  <2>1. t \in [1..n -> Characters]
    BY <1>9, <1>11, <1>13
  <2> QED BY <1>5, <2>1
<1>16. \A k \in 1..n : t[k] = Digit[1 + ((x \div pw[n - k]) % 16)]
  BY <1>6, <1>8, <1>13, <1>14, Zenon
<1>17. Writes(t, n, x, 16, pw) /\ t # << >>
  <2>1. t # << >>
    BY <1>5, <1>15
  <2> QED BY <1>15, <1>16, <2>1, Zenon DEF Writes
<1>18. Unsigned(t, x, 16)
  BY <1>1, <1>3, <1>4, <1>17, DigitsSpell, Zenon DEF n
<1>19. x >= 0 /\ n > 0
  BY <1>5
<1>20. Spells(t, x, 16)
  BY <1>18, <1>19, Zenon DEF Spells
<1> QED BY <1>12, <1>15, <1>19, <1>20, Zenon DEF n

LEMMA CopiesAre ==
  ASSUME NEW S, NEW c \in S, NEW m \in Nat
  PROVE  [j \in 1..m |-> c] \in Seq(S)
OBVIOUS

-----------------------------------------------------------------------------
(* The decimals of a double: those of the millionths that are left of it,  *)
(* cut off.                                                                *)
LEMMA DivOfDiv ==
  ASSUME NEW x \in Nat, NEW p \in Nat \ {0}, NEW q \in Nat \ {0}
  PROVE  (x \div p) \div q = x \div (p * q)
<1>1. PICK y \in Nat, u \in 0..(p - 1) : y = x \div p /\ x = p * y + u
  BY DivMod
<1>2. PICK z \in Nat, r \in 0..(q - 1) : z = y \div q /\ y = q * z + r
  BY DivMod
<1>3. p * y = (p * q) * z + p * r
  <2>1. p * y = p * (q * z + r)
    BY <1>2
  <2>2. p * (q * z + r) = p * (q * z) + p * r
    BY <1>2
  <2>3. p * (q * z) = (p * q) * z
    BY <1>2
  <2> QED BY <2>1, <2>2, <2>3
<1>4. p * r + p <= p * q /\ p * r \in Nat
  BY <1>2, NextMultiple
<1>5. p * q \in Nat \ {0} /\ (p * q) * z \in Nat
  OBVIOUS
<1> DEFINE pq == p * q
<1>6. pq \in Nat \ {0} /\ pq * z <= x /\ x < pq * z + pq
  BY <1>1, <1>3, <1>4, <1>5
<1> HIDE DEF pq
<1>7. x \div pq = z
  BY <1>6, QuotientIs
<1> QED BY <1>1, <1>2, <1>7 DEF pq

LEMMA OfTheRest ==
  ASSUME NEW a \in Nat, NEW p \in Nat \ {0}, NEW m \in Nat \ {0}
  PROVE  (a \div p) % 10 = ((a % (p * (10 * m))) \div p) % 10
<1>1. PICK b \in Nat \ {0} : b = p * (10 * m)
  OBVIOUS
<1>2. PICK q, r : q = a \div b /\ r = a % b
  OBVIOUS
<1>3. q \in Nat /\ r \in 0..(b - 1) /\ a = b * q + r
  BY <1>2, DivMod, Zenon
<1>4. r \in Nat
  BY <1>3
<1>5. PICK y, u : y = r \div p /\ u = r % p
  OBVIOUS
<1>6. y \in Nat /\ u \in 0..(p - 1) /\ r = p * y + u
  BY <1>4, <1>5, DivMod, Zenon
<1>7. PICK z \in Nat : z = m * q
  BY <1>3
<1>8. b * q = p * (10 * z)
  <2>1. b * q = (p * (10 * m)) * q
    BY <1>1
  <2>2. (p * (10 * m)) * q = p * ((10 * m) * q)
    BY <1>3
  <2>3. (10 * m) * q = 10 * (m * q)
    BY <1>3
  <2> QED BY <1>7, <2>1, <2>2, <2>3
<1>9. PICK n \in Nat : n = 10 * z + y
  BY <1>6
<1>10. p * n = p * (10 * z) + p * y
  BY <1>6, <1>9
<1>11. p * n \in Nat /\ p * n <= a /\ a < p * n + p
  BY <1>3, <1>6, <1>8, <1>10
<1>12. a \div p = n
  BY <1>11, QuotientIs
<1>13. n % 10 = y % 10
  BY <1>6, <1>9
<1> QED BY <1>1, <1>2, <1>5, <1>12, <1>13, Zenon

LEMMA MillionIs == Million \in Nat \ {0} /\ Million = 10 ^ 6 /\ Million <= UINT_MAX /\ Million <= INT_MAX
<1>1. Million \in Nat \ {0} /\ Million <= UINT_MAX /\ Million <= INT_MAX
  BY SMT DEF Million, UINT_MAX, INT_MAX
<1>2. Million = 10 ^ 6
  BY SMT, TenTo DEF Million
<1> QED BY <1>1, <1>2

LEMMA PowersMultiply ==
  ASSUME NEW pw, Powers(10, pw), NEW n \in 0..6, NEW j \in 0..6, n + j <= 6
  PROVE  pw[n] * pw[j] = pw[n + j]
<1>1. pw[0] = 1 /\ pw[1] = 10 /\ pw[2] = 100 /\ pw[3] = 1000 /\ pw[4] = 10000 /\ pw[5] = 100000 /\ pw[6] = 1000000
  <2>1. pw[0] = 1 /\ \A k \in 0..9 : pw[k + 1] = 10 * pw[k]
    BY Zenon DEF Powers
  <2>2. /\ pw[0 + 1] = 10 * pw[0] /\ pw[1 + 1] = 10 * pw[1] /\ pw[2 + 1] = 10 * pw[2]
        /\ pw[3 + 1] = 10 * pw[3] /\ pw[4 + 1] = 10 * pw[4] /\ pw[5 + 1] = 10 * pw[5]
    BY <2>1
  <2> QED BY <2>1, <2>2
<1>2. CASE j = 0
  BY <1>1, <1>2
<1>3. CASE j = 1
  BY <1>1, <1>3
<1>4. CASE j = 2
  BY <1>1, <1>4
<1>5. CASE j = 3
  BY <1>1, <1>5
<1>6. CASE j = 4
  BY <1>1, <1>6
<1>7. CASE j = 5
  BY <1>1, <1>7
<1>8. CASE j = 6
  BY <1>1, <1>8
<1> QED BY <1>2, <1>3, <1>4, <1>5, <1>6, <1>7, <1>8

LEMMA SmallerQuotient ==
  ASSUME NEW r \in Nat, NEW p \in Nat \ {0}, NEW g \in Nat \ {0}, r < p * g
  PROVE  r \div p \in Nat /\ r \div p < g /\ r \div p <= r
<1>1. PICK y \in Nat, u \in 0..(p - 1) : y = r \div p /\ r = p * y + u
  <2>1. r \div p \in Nat /\ r % p \in 0..(p - 1) /\ r = p * (r \div p) + (r % p)
    BY DivMod, Zenon
  <2> QED BY <2>1, Zenon
<1>2. ASSUME g < y PROVE FALSE
  <2>1. p * g + p <= p * y
    BY <1>2, NextMultiple
  <2> QED BY <1>1, <2>1
<1>3. y # g
  BY <1>1
<1>4. p * y >= y
  <2>1. PICK e \in Nat : p = e + 1
    <3>1. p - 1 \in Nat /\ p = (p - 1) + 1
      OBVIOUS
    <3> QED BY <3>1
  <2>2. p * y = e * y + y /\ e * y \in Nat
    BY <2>1
  <2> QED BY <2>2
<1> QED BY <1>1, <1>2, <1>3, <1>4

(* The k-th decimal is the k-th digit of the first n of them.              *)
LEMMA DecimalIs ==
  ASSUME NEW pw, Powers(10, pw), NEW a \in Nat, NEW n \in 1..6, NEW k \in 1..n
  PROVE  (a \div pw[6 - k]) % 10 = ((((a % Million) \div pw[6 - n]) \div pw[n - k])) % 10
<1>1. /\ \A j \in 0..9 : pw[j + 1] = 10 * pw[j]
      /\ \A j \in 0..10 : pw[j] \in Nat \ {0}
      /\ \A j \in 0..9 : 10 ^ j = pw[j]
  BY Zenon DEF Powers
<1>2. Million = pw[6]
  <2>1. 6 \in 0..9
    OBVIOUS
  <2> QED BY <1>1, <2>1, MillionIs, Zenon
<1>3. /\ 6 - k \in 0..10 /\ n - k \in 0..10 /\ n - k \in 0..6 /\ 6 - k \in 0..6 /\ (6 - n) + (n - k) = 6 - k
      /\ k \in 0..6 /\ (6 - k) + k = 6 /\ k - 1 \in 0..10 /\ k - 1 \in 0..9 /\ (k - 1) + 1 = k
      /\ 6 - n \in 0..6 /\ 6 - n \in 0..10 /\ 6 - k <= 6 /\ 6 <= 6
  OBVIOUS
<1>4. PICK e, f, m, p : e = pw[6 - k] /\ f = pw[n - k] /\ m = pw[k - 1] /\ p = pw[6 - n]
  OBVIOUS
<1>5. e \in Nat \ {0} /\ f \in Nat \ {0} /\ m \in Nat \ {0} /\ p \in Nat \ {0}
  BY <1>1, <1>3, <1>4, Zenon
<1>6. p * f = e
  <2>1. pw[6 - n] * pw[n - k] = pw[(6 - n) + (n - k)]
    BY <1>3, PowersMultiply, Zenon
  <2> QED BY <1>3, <1>4, <2>1, Zenon
<1>7. Million = e * (10 * m)
  <2>1. pw[6 - k] * pw[k] = pw[(6 - k) + k]
    BY <1>3, PowersMultiply, Zenon
  <2>2. pw[k] = 10 * pw[k - 1]
    BY <1>1, <1>3, Zenon
  <2> QED BY <1>2, <1>3, <1>4, <2>1, <2>2, Zenon
<1>8. PICK r : r = a % Million
  OBVIOUS
<1>9. r \in Nat
  BY <1>8, MillionIs
<1>10. (a \div e) % 10 = (r \div e) % 10
  <2>1. (a \div e) % 10 = ((a % (e * (10 * m))) \div e) % 10
    BY <1>5, OfTheRest, Zenon
  <2> QED BY <1>7, <1>8, <2>1, Zenon
<1>11. (r \div p) \div f = r \div e
  BY <1>5, <1>6, <1>9, DivOfDiv, Zenon
<1> QED BY <1>4, <1>8, <1>10, <1>11, Zenon

(* ... and they stay below 32 bits. *)
LEMMA DecimalsAre ==
  ASSUME NEW pw, Powers(10, pw), NEW a \in Nat, NEW n \in 1..6
  PROVE  LET x == (a % Million) \div pw[6 - n]
         IN  x \in 0..UINT_MAX /\ x \in Nat /\ x < pw[n]
<1>1. /\ \A j \in 0..10 : pw[j] \in Nat \ {0}
      /\ \A j \in 0..9 : 10 ^ j = pw[j]
  BY Zenon DEF Powers
<1>2. n \in 0..6 /\ 6 - n \in 0..6 /\ 6 - n \in 0..10 /\ (6 - n) + n = 6 /\ n \in 0..10 /\ 6 \in 0..9 /\ 6 <= 6
  OBVIOUS
<1>3. PICK p, g : p = pw[6 - n] /\ g = pw[n]
  OBVIOUS
<1>4. p \in Nat \ {0} /\ g \in Nat \ {0}
  BY <1>1, <1>2, <1>3, Zenon
<1>5. p * g = Million
  <2>1. pw[6 - n] * pw[n] = pw[(6 - n) + n]
    BY <1>2, PowersMultiply, Zenon
  <2> QED BY <1>1, <1>2, <1>3, <2>1, MillionIs, Zenon
<1>6. PICK r : r = a % Million
  OBVIOUS
<1>7. r \in Nat /\ r < Million
  BY <1>6, MillionIs
<1>8. r \div p \in Nat /\ r \div p < g /\ r \div p <= r
  BY <1>4, <1>5, <1>7, SmallerQuotient, Zenon
<1>9. r \div p \in 0..UINT_MAX
  BY <1>7, <1>8, MillionIs, Bits
<1> QED BY <1>3, <1>6, <1>8, <1>9, Zenon

LEMMA DecimalsAddUp ==
  ASSUME NEW a \in Nat, NEW n \in 1..6
  PROVE  LET s == [k \in 1..n |-> Digit[1 + ((a \div (10 ^ (6 - k))) % 10)]]
         IN  /\ s \in Seq(Characters) /\ Len(s) = n /\ AreDigits(s)
             /\ Value(s, 10) = (a % Million) \div (10 ^ (6 - n))
<1>1. PICK pw : Powers(10, pw)
  BY Powers10, Zenon
<1>2. \A k \in 0..9 : 10 ^ k = pw[k]
  BY <1>1, Zenon DEF Powers
<1>3. 6 - n \in 0..9 /\ n \in 0..10 /\ 10 \in {10, 16} /\ n \in 1..10 /\ \A k \in 1..n : 6 - k \in 0..9
  OBVIOUS
<1>4. PICK x : x = (a % Million) \div pw[6 - n]
  OBVIOUS
<1>5. x \in 0..UINT_MAX /\ x \in Nat /\ x < pw[n]
  BY <1>1, <1>4, DecimalsAre, Zenon
<1>6. x = (a % Million) \div (10 ^ (6 - n))
  BY <1>2, <1>3, <1>4, Zenon
<1> DEFINE s == [k \in 1..n |-> Digit[1 + ((a \div (10 ^ (6 - k))) % 10)]]
<1>7. \A k \in 1..n : s[k] = Digit[1 + ((a \div (10 ^ (6 - k))) % 10)]
  BY Zenon
<1>8. DOMAIN s = 1..n /\ s = [k \in 1..n |-> s[k]]
  BY Zenon
<1> HIDE DEF s
<1>9. ASSUME NEW k \in 1..n PROVE s[k] = Digit[1 + ((x \div pw[n - k]) % 10)]
  <2>1. 10 ^ (6 - k) = pw[6 - k]
    BY <1>2, <1>3, Zenon
  <2>2. (a \div pw[6 - k]) % 10 = ((((a % Million) \div pw[6 - n]) \div pw[n - k])) % 10
    BY <1>1, DecimalIs, Zenon
  <2> QED BY <1>4, <1>7, <2>1, <2>2, Zenon
<1>10. ASSUME NEW k \in 1..n PROVE \E j \in 1..16 : s[k] = Digit[j]
  <2>1. n - k \in 0..10
    OBVIOUS
  <2>2. PICK q \in Nat \ {0} : q = pw[n - k]
    BY <1>1, <2>1, Zenon DEF Powers
  <2>3. x \div q \in Nat
    BY <1>5, <2>2, DivMod, Zenon
  <2>4. PICK y \in Nat : y = x \div q
    BY <2>3, Zenon
  <2>5. 1 + (y % 10) \in 1..16
    OBVIOUS
  <2> QED BY <1>9, <2>2, <2>4, <2>5, Zenon
<1>11. s \in Seq(Characters) /\ Len(s) = n
  <2>1. \A k \in 1..n : s[k] \in Characters
    BY <1>10, Zenon DEF Characters
  <2>2. s \in [1..n -> Characters]
    BY <1>8, <2>1, Zenon
  <2>3. n \in Nat
    OBVIOUS
  <2> QED BY <2>2, <2>3
<1>12. AreDigits(s)
  BY <1>10, <1>11, Zenon DEF AreDigits
<1>13. Writes(s, n, x, 10, pw)
  BY <1>9, <1>11, Zenon DEF Writes
<1>14. Value(s, 10) = x
  BY <1>1, <1>3, <1>5, <1>13, DigitsAddUp, Zenon
<1> QED BY <1>6, <1>11, <1>12, <1>14, Zenon DEF s

(* Four texts in a row, and where each begins.                             *)
LEMMA SubOfConcat ==
  ASSUME NEW S, NEW s \in Seq(S), NEW t \in Seq(S), Len(t) > 0
  PROVE  /\ s \o t \in Seq(S) /\ Len(s \o t) = Len(s) + Len(t)
         /\ SubSeq(s \o t, Len(s) + 1, Len(s) + Len(t)) = t
         /\ \A j \in 1..Len(s) : (s \o t)[j] = s[j]
<1>m. PICK m \in Nat, n \in Nat \ {0} : m = Len(s) /\ n = Len(t)
  OBVIOUS
<1>1. s \o t \in Seq(S) /\ Len(s \o t) = m + n
  BY <1>m, ConcatProperties
<1>2. m + 1 \in m + 1 .. m + n /\ m + n \in m + 1 .. m + n
  OBVIOUS
<1>3. SubSeq(s \o t, m + 1, m + n) = SubSeq(t, m + 1 - m, m + n - m)
  <2>1. m + 1 \in Len(s) + 1 .. Len(s) + Len(t) /\ m + n \in Len(s) + 1 .. Len(s) + Len(t)
    BY <1>m, <1>2, Zenon
  <2>2. SubSeq(s \o t, m + 1, m + n) = SubSeq(t, m + 1 - Len(s), m + n - Len(s))
    BY <2>1, SubSeqOfConcat2
  <2> QED BY <1>m, <2>2, Zenon
<1>4. m + 1 - m = 1 /\ m + n - m = n
  OBVIOUS
<1>5. SubSeq(t, 1, Len(t)) = t
  BY SubSeqFull
<1>6. \A j \in 1..m : (s \o t)[j] = s[j]
  <2>1. \A j \in 1..m : j <= m /\ j \in 1..(m + n)
    OBVIOUS
  <2> QED BY <1>m, <2>1, ConcatProperties
<1> QED BY <1>m, <1>1, <1>3, <1>4, <1>5, <1>6, Zenon

(* So fmt_f spells a double.                                               *)
LEMMA DoubleSpells ==
  ASSUME NEW x \in Int, Abs(x) \div Million <= INT_MAX, NEW n \in 1..6
  PROVE  /\ fmt_f(x, n) \in Seq(Characters) /\ SpellsDouble(fmt_f(x, n), x, n)
         /\ Len(fmt_f(x, n)) = (IF x < 0 THEN 1 ELSE 0) + digits_double(x, n)
         /\ Len(fmt_f(x, n)) > 0
<1> DEFINE sign == IF x < 0 THEN << "-" >> ELSE << >>
           tail == [k \in 1..n |-> Digit[1 + ((Abs(x) \div (10 ^ (6 - k))) % 10)]]
<1>1. Abs(x) \in Nat
  BY DEF Abs
<1>2. PICK a \in Nat : a = Abs(x)
  BY <1>1
<1>3. PICK q : q = a \div Million
  OBVIOUS
<1>4. q \in Nat
  BY <1>3, DivMod, MillionIs, Zenon
<1>5. q <= INT_MAX
  BY <1>2, <1>3, Zenon
<1>6. q \in Word /\ Abs(q) = q /\ ~(q < 0) /\ q >= 0
  <2>1. Abs(q) = q /\ ~(q < 0) /\ q >= 0
    BY <1>4 DEF Abs
  <2>2. q <= UINT_MAX
    BY <1>4, <1>5, Bits
  <2> QED BY <1>4, <2>1, <2>2 DEF Word
<1>7. PICK t : t = itoa(q)
  OBVIOUS
<1>8. t \in Seq(Characters) /\ Len(t) = digits(q, 10) /\ Unsigned(t, q, 10) /\ Len(t) > 0
  <2>1. /\ itoa(q) \in Seq(Characters) /\ Spells(itoa(q), q, 10) /\ Len(itoa(q)) > 0
        /\ Len(itoa(q)) = digits(Abs(q), 10) + (IF q < 0 THEN 1 ELSE 0)
    BY <1>6, ItoaSpells, Zenon
  <2>2. Unsigned(itoa(q), q, 10)
    BY <1>6, <2>1, Zenon DEF Spells
  <2>3. Len(itoa(q)) = digits(q, 10) + 0
    BY <1>6, <2>1, Zenon
  <2>4. digits(q, 10) \in Int
    <3>1. PICK pw : Powers(10, pw)
      BY Powers10, Zenon
    <3>2. 10 \in {10, 16} /\ q \in 0..UINT_MAX
      BY <1>4, <1>5, Bits
    <3>3. digits(q, 10) \in 1..10
      BY <3>1, <3>2, DigitsIs, Zenon
    <3> QED BY <3>3
  <2>5. digits(q, 10) + 0 = digits(q, 10)
    BY <2>4
  <2> QED BY <1>7, <2>1, <2>2, <2>3, <2>5, Zenon
<1>9. PICK u : u = tail
  OBVIOUS
<1>10. /\ u \in Seq(Characters) /\ Len(u) = n /\ AreDigits(u)
       /\ Value(u, 10) = (a % Million) \div (10 ^ (6 - n))
  BY <1>2, <1>9, DecimalsAddUp, Zenon
<1>11. PICK s : s = sign
  OBVIOUS
<1>12. PICK d : d = << "." >>
  OBVIOUS
<1>13. d \in Seq(Characters) /\ Len(d) = 1 /\ d[1] = "."
  <2>1. "." \in Characters
    BY DEF Characters
  <2> HIDE DEF Characters
  <2> QED BY <1>12, <2>1
<1>14. fmt_f(x, n) = ((s \o t) \o d) \o u
  BY <1>2, <1>3, <1>7, <1>9, <1>11, <1>12, Zenon DEF fmt_f
<1>15. PICK l : l = Len(s)
  OBVIOUS
<1>16. /\ s \in Seq(Characters) /\ l \in 0..1 /\ l = (IF x < 0 THEN 1 ELSE 0)
       /\ x < 0 => s[1] = "-"
  <2>1. "-" \in Characters
    BY DEF Characters
  <2> HIDE DEF Characters
  <2>2. CASE x < 0
    BY <1>11, <1>15, <2>1, <2>2
  <2>3. CASE ~(x < 0)
    BY <1>11, <1>15, <2>3
  <2> QED BY <2>2, <2>3
<1> HIDE DEF sign, tail
<1>17. PICK k \in Nat \ {0} : k = Len(t)
  BY <1>8
<1>18. l \in Nat /\ n \in Nat /\ n > 0 /\ k > 0 /\ 1 > 0 /\ k \in Nat /\ 1 \in Nat /\ l + k \in Nat /\ (l + k) + 1 \in Nat
  BY <1>16
<1>19. PICK e : e = s \o t
  OBVIOUS
<1>20. /\ e \in Seq(Characters) /\ Len(e) = l + k
       /\ SubSeq(e, l + 1, l + k) = t
       /\ \A j \in 1..l : e[j] = s[j]
  <2>1. /\ s \o t \in Seq(Characters) /\ Len(s \o t) = Len(s) + Len(t)
        /\ SubSeq(s \o t, Len(s) + 1, Len(s) + Len(t)) = t
        /\ \A j \in 1..Len(s) : (s \o t)[j] = s[j]
    BY <1>8, <1>16, SubOfConcat, Zenon
  <2> QED BY <1>15, <1>17, <1>19, <2>1, Zenon
<1>21. PICK f : f = e \o d
  OBVIOUS
<1>22. /\ f \in Seq(Characters) /\ Len(f) = (l + k) + 1
       /\ SubSeq(f, (l + k) + 1, (l + k) + 1) = d
       /\ \A j \in 1..(l + k) : f[j] = e[j]
  <2>1. /\ e \o d \in Seq(Characters) /\ Len(e \o d) = Len(e) + Len(d)
        /\ SubSeq(e \o d, Len(e) + 1, Len(e) + Len(d)) = d
        /\ \A j \in 1..Len(e) : (e \o d)[j] = e[j]
    BY <1>13, <1>18, <1>20, SubOfConcat, Zenon
  <2> QED BY <1>13, <1>20, <1>21, <2>1, Zenon
<1>23. PICK g : g = f \o u
  OBVIOUS
<1>24. PICK z \in Nat : z = (l + k) + 1
  BY <1>18
<1>25. /\ g \in Seq(Characters) /\ Len(g) = z + n
       /\ SubSeq(g, z + 1, z + n) = u
       /\ \A j \in 1..z : g[j] = f[j]
  <2>1. /\ f \o u \in Seq(Characters) /\ Len(f \o u) = Len(f) + Len(u)
        /\ SubSeq(f \o u, Len(f) + 1, Len(f) + Len(u)) = u
        /\ \A j \in 1..Len(f) : (f \o u)[j] = f[j]
    BY <1>10, <1>18, <1>22, SubOfConcat, Zenon
  <2> QED BY <1>10, <1>22, <1>23, <1>24, <2>1, Zenon
<1>26. g[z] = "."
  <2>1. z \in 1..z /\ z \in 1..Len(f)
    BY <1>18, <1>22, <1>24
  <2>2. f[z] = d[1]
    <3>1. SubSeq(f, z, z) = d
      BY <1>22, <1>24, Zenon
    <3>2. SubSeq(f, z, z)[1] = f[z]
      BY <1>22, <1>24, <2>1
    <3> QED BY <3>1, <3>2, Zenon
  <2> QED BY <1>13, <1>25, <2>1, <2>2, Zenon
<1>27. x < 0 => g[1] = "-"
  <2>1. x < 0 => 1 \in 1..l /\ 1 \in 1..(l + k) /\ 1 \in 1..z
    BY <1>16, <1>18, <1>24
  <2> QED BY <1>16, <1>20, <1>22, <1>25, <2>1, Zenon
<1>28. SubSeq(g, l + 1, l + k) = t
  <2>1. /\ l + 1 \in 1..Len(e) /\ l + k \in 1..Len(e)
        /\ l + 1 \in 1..Len(f) /\ l + k \in 1..Len(f)
    BY <1>18, <1>20, <1>22
  <2>2. SubSeq(f, l + 1, l + k) = SubSeq(e, l + 1, l + k)
    BY <1>13, <1>20, <1>21, <2>1, SubSeqOfConcat1, Zenon
  <2>3. SubSeq(g, l + 1, l + k) = SubSeq(f, l + 1, l + k)
    BY <1>10, <1>22, <1>23, <2>1, SubSeqOfConcat1, Zenon
  <2> QED BY <1>20, <2>2, <2>3, Zenon
<1>29. fmt_f(x, n) = g
  BY <1>14, <1>19, <1>21, <1>23, Zenon
<1>30. /\ Len(g) - n = z /\ z - 1 = l + k /\ Len(g) > 0
       /\ (IF x >= 0 THEN 1 ELSE 2) = l + 1 /\ z > l + 1
       /\ z + 1 = (Len(g) - n) + 1
  BY <1>16, <1>18, <1>24, <1>25
<1>31. SpellsDouble(g, x, n)
  <2>1. SubSeq(g, z + 1, Len(g)) = u
    BY <1>25, Zenon
  <2>2. Value(u, 10) = (Abs(x) % Million) \div (10 ^ (6 - n))
    BY <1>2, <1>10, Zenon
  <2>3. Unsigned(SubSeq(g, l + 1, z - 1), Abs(x) \div Million, 10)
    BY <1>2, <1>3, <1>8, <1>28, <1>30, Zenon
  <2> QED BY <1>10, <1>26, <1>27, <1>30, <2>1, <2>2, <2>3, Zenon DEF SpellsDouble
<1>32. Len(g) = (IF x < 0 THEN 1 ELSE 0) + digits_double(x, n)
  <2>1. digits_double(x, n) = digits(q, 10) + 1 + n
    BY <1>2, <1>3, Zenon DEF digits_double
  <2>2. digits(q, 10) = k
    BY <1>8, <1>17, Zenon
  <2>3. digits_double(x, n) = k + 1 + n
    BY <2>1, <2>2, Zenon
  <2> QED BY <1>16, <1>18, <1>24, <1>25, <2>3
<1> QED BY <1>25, <1>29, <1>30, <1>31, <1>32, Zenon

-----------------------------------------------------------------------------
(* One directive: its text, its padding, and what it leaves in             *)
(* cur_pad_char.                                                           *)
Printable(d, x) ==
  /\ d.conv \in {"d", "x"} => x \in Word
  /\ d.conv = "x" => x \in Nat
  /\ d.conv = "f" => /\ x \in Int /\ Abs(x) \div Million <= INT_MAX
                     /\ d.width # 0 => x >= 0

LEMMA TextSpells ==
  ASSUME NEW d, d.conv \in {"d", "x", "f"}, d.width \in Nat, d.prec \in 0..6, NEW x, Printable(d, x)
  PROVE  /\ Text(d, x) \in Seq(Characters) /\ Len(Text(d, x)) \in Nat \ {0}
         /\ d.width # 0 => Length(d, x) = Len(Text(d, x))
         /\ IsTextOf(Text(d, x), d, x)
<1>1. CASE d.conv = "d"
  <2>1. Text(d, x) = itoa(x) /\ x \in Word
    BY <1>1 DEF Text, Printable
  <2>2. Length(d, x) = digits(Abs(x), 10) + (IF x < 0 THEN 1 ELSE 0)
    BY <1>1 DEF Length
  <2>3. /\ itoa(x) \in Seq(Characters) /\ Len(itoa(x)) > 0 /\ Spells(itoa(x), x, 10)
        /\ Len(itoa(x)) = digits(Abs(x), 10) + (IF x < 0 THEN 1 ELSE 0)
    BY <2>1, ItoaSpells, Zenon
  <2>4. Len(itoa(x)) \in Nat \ {0}
    BY <2>3
  <2>5. IsTextOf(itoa(x), d, x) <=> Spells(itoa(x), x, 10)
    BY <1>1 DEF IsTextOf
  <2> QED BY <2>1, <2>2, <2>3, <2>4, <2>5, Zenon
<1>2. CASE d.conv = "x"
  <2>1. Text(d, x) = fmt_x(x) /\ x \in Word /\ x \in Nat
    BY <1>2 DEF Text, Printable
  <2>2. Length(d, x) = digits(x, 16)
    BY <1>2 DEF Length
  <2>3. /\ fmt_x(x) \in Seq(Characters) /\ Len(fmt_x(x)) > 0 /\ Spells(fmt_x(x), x, 16)
        /\ Len(fmt_x(x)) = digits(x, 16)
    BY <2>1, FmtSpells, Zenon
  <2>4. Len(fmt_x(x)) \in Nat \ {0}
    BY <2>3
  <2>5. IsTextOf(fmt_x(x), d, x) <=> Spells(fmt_x(x), x, 16)
    BY <1>2 DEF IsTextOf
  <2> QED BY <2>1, <2>2, <2>3, <2>4, <2>5, Zenon
<1>3. CASE d.conv = "f"
  <2>1. PICK n \in 1..6 : n = Decimals(d)
    BY DEF Decimals, DEFAULT_DOUBLE_DECIMALS
  <2>2. /\ Text(d, x) = fmt_f(x, n) /\ Length(d, x) = digits_double(x, n)
        /\ x \in Int /\ Abs(x) \div Million <= INT_MAX /\ (d.width # 0 => x >= 0)
    BY <1>3, <2>1 DEF Text, Length, Printable
  <2>3. /\ fmt_f(x, n) \in Seq(Characters) /\ SpellsDouble(fmt_f(x, n), x, n)
        /\ Len(fmt_f(x, n)) = (IF x < 0 THEN 1 ELSE 0) + digits_double(x, n)
        /\ Len(fmt_f(x, n)) > 0
    BY <2>2, DoubleSpells, Zenon
  <2>4. Len(fmt_f(x, n)) \in Nat \ {0}
    BY <2>3
  <2>5. d.width # 0 => digits_double(x, n) = Len(fmt_f(x, n))
    <3> SUFFICES ASSUME d.width # 0 PROVE digits_double(x, n) = Len(fmt_f(x, n))
      OBVIOUS
    <3>1. ~(x < 0)
      BY <2>2
    <3>2. Len(fmt_f(x, n)) = 0 + digits_double(x, n)
      BY <2>3, <3>1, Zenon
    <3>3. digits_double(x, n) \in Int
      <4>1. PICK pw : Powers(10, pw)
        BY Powers10, Zenon
      <4>2. PICK q \in Nat : q = Abs(x) \div Million
        <5>1. Abs(x) \in Nat
          BY <2>2 DEF Abs
        <5> QED BY <5>1, DivMod, MillionIs, Zenon
      <4>3. 10 \in {10, 16} /\ q \in 0..UINT_MAX
        BY <2>2, <4>2, Bits
      <4>4. digits(q, 10) \in 1..10
        BY <4>1, <4>3, DigitsIs, Zenon
      <4>5. digits_double(x, n) = digits(q, 10) + 1 + n
        BY <4>2, Zenon DEF digits_double
      <4> QED BY <4>4, <4>5
    <3> QED BY <3>2, <3>3
  <2>6. IsTextOf(fmt_f(x, n), d, x) <=> SpellsDouble(fmt_f(x, n), x, n)
    BY <1>3, <2>1 DEF IsTextOf
  <2> QED BY <2>2, <2>3, <2>4, <2>5, <2>6, Zenon
<1> QED BY <1>1, <1>2, <1>3

PadInv == cur_pad_char \in {" ", "0"} /\ PrintedInFull

(* A text, and before it its padding.                                      *)
LEMMA BeforeTheEnd == ASSUME NEW m \in Nat, NEW n \in Nat \ {0}
                      PROVE  n > 0 /\ m \in 0..(m + n - 1)
OBVIOUS

IsField(out, k, d, x, P) ==
  LET text == SubSeq(out, k + 1, Len(out)) IN
  /\ IsTextOf(text, d, x)
  /\ k = 0 \/ Len(out) = d.width
  /\ Len(out) >= d.width
  /\ \E c \in P : \A j \in 1..k : out[j] = c

LEMMA PadsBefore ==
  ASSUME NEW c, NEW m \in Nat, NEW t \in Seq(Characters), Len(t) \in Nat \ {0}
  PROVE  \E out : /\ out = Copies(c, m) \o t
                  /\ m \in 0..(Len(out) - 1) /\ Len(out) = m + Len(t)
                  /\ SubSeq(out, m + 1, Len(out)) = t
                  /\ \A j \in 1..m : out[j] = c
<1>1. PICK S : S = {c} \union Characters
  OBVIOUS
<1>2. c \in S /\ Characters \subseteq S
  BY <1>1, Zenon
<1>3. t \in Seq(S)
  BY <1>2, SeqMonotonic, Zenon
<1>4. Len(t) > 0 /\ m \in 0..(m + Len(t) - 1)
  BY BeforeTheEnd, Zenon
<1>5. PICK s : s = [j \in 1..m |-> c]
  OBVIOUS
<1>6. s \in Seq(S) /\ Len(s) = m /\ \A j \in 1..m : s[j] = c
  <2>1. s \in Seq(S)
    BY <1>2, <1>5, CopiesAre
  <2>2. DOMAIN s = 1..m /\ \A j \in 1..m : s[j] = c
    BY <1>5, Zenon
  <2>3. Len(s) = m
    BY <2>1, <2>2
  <2> QED BY <2>1, <2>2, <2>3, Zenon
<1>7. /\ s \o t \in Seq(S) /\ Len(s \o t) = Len(s) + Len(t)
      /\ SubSeq(s \o t, Len(s) + 1, Len(s) + Len(t)) = t
      /\ \A j \in 1..Len(s) : (s \o t)[j] = s[j]
  BY <1>3, <1>4, <1>6, SubOfConcat, Zenon
<1>8. PICK out : out = s \o t
  OBVIOUS
<1>9. /\ Len(out) = m + Len(t)
      /\ SubSeq(out, m + 1, Len(out)) = t
      /\ \A j \in 1..m : out[j] = c
  BY <1>6, <1>7, <1>8, Zenon
<1>10. out = Copies(c, m) \o t
  BY <1>5, <1>8, Zenon DEF Copies
<1>11. m \in 0..(Len(out) - 1)
  BY <1>4, <1>9
<1> QED BY <1>9, <1>10, <1>11, Zenon

LEMMA FieldIs ==
  ASSUME NEW d, NEW x, NEW P, NEW pad \in P,
         NEW t \in Seq(Characters), Len(t) \in Nat \ {0}, IsTextOf(t, d, x),
         NEW m \in Nat, m = 0 \/ m + Len(t) = d.width, m + Len(t) >= d.width
  PROVE  \E k \in 0..(Len(Copies(pad, m) \o t) - 1) : IsField(Copies(pad, m) \o t, k, d, x, P)
<1>1. PICK out : /\ out = Copies(pad, m) \o t
                 /\ m \in 0..(Len(out) - 1) /\ Len(out) = m + Len(t)
                 /\ SubSeq(out, m + 1, Len(out)) = t
                 /\ \A j \in 1..m : out[j] = pad
  BY PadsBefore, Zenon
<1>2. IsField(out, m, d, x, P)
  BY <1>1, Zenon DEF IsField
<1> QED BY <1>1, <1>2, Zenon

LEMMA DirectivePrints ==
  ASSUME NEW d, d.conv \in {"d", "x", "f"}, d.zero \in BOOLEAN, d.width \in Nat, d.prec \in 0..6,
         NEW x, Printable(d, x), PadInv, directive(d, x)
  PROVE  PadInv'
<1> DEFINE pad  == IF d.zero THEN "0" ELSE cur_pad_char
           room == d.width - Length(d, x)
           pads == d.width # 0 /\ room > 0
           text == Text(d, x)
           fill == IF pads THEN Copies(pad, room) ELSE << >>
           out  == fill \o text
<1>1. /\ cur_pad_char' = IF pads THEN " " ELSE pad
      /\ printed' = [conv |-> d.conv, dir |-> d, arg |-> x, out |-> out]
  BY DEF directive
<1>2. cur_pad_char \in {" ", "0"} /\ pad \in {" ", "0"} /\ cur_pad_char' \in {" ", "0"} /\ (d.zero => pad = "0")
  BY <1>1 DEF PadInv
<1>3. /\ text \in Seq(Characters) /\ Len(text) \in Nat \ {0}
      /\ d.width # 0 => Length(d, x) = Len(text)
      /\ IsTextOf(text, d, x)
  BY TextSpells
<1> DEFINE m == IF pads THEN room ELSE 0
<1> HIDE DEF text
<1>4. m \in Nat /\ (m = 0 \/ m + Len(text) = d.width) /\ m + Len(text) >= d.width
  BY <1>3
<1>5. fill = Copies(pad, m)
  <2>1. CASE pads
    BY <2>1, Zenon
  <2>2. CASE ~pads
    <3>1. << >> = [j \in 1..0 |-> pad]
      OBVIOUS
    <3> QED BY <2>2, <3>1, Zenon DEF Copies
  <2> QED BY <2>1, <2>2
<1> HIDE DEF pad, room, pads, fill, m
<1>6. PICK P : P = (IF d.zero THEN {"0"} ELSE {" ", "0"})
  OBVIOUS
<1>7. \E k \in 0..(Len(out) - 1) : IsField(out, k, d, x, P)
  <2>1. pad \in P
    BY <1>2, <1>6
  <2>2. \E k \in 0..(Len(Copies(pad, m) \o text) - 1) : IsField(Copies(pad, m) \o text, k, d, x, P)
    BY <1>3, <1>4, <2>1, FieldIs, Zenon
  <2> QED BY <1>5, <2>2, Zenon
<1> HIDE DEF out
<1>8. /\ printed'.conv = d.conv /\ printed'.arg = x /\ printed'.out = out /\ printed'.dir = d
  BY <1>1
<1>9. PrintedInFull'
  BY <1>6, <1>8, <1>7, Zenon DEF PrintedInFull, IsField
<1> QED BY <1>2, <1>9 DEF PadInv

LEMMA NothingIsPrinted == ASSUME printed = NothingPrinted PROVE PrintedInFull
BY DEF NothingPrinted, PrintedInFull
=============================================================================
