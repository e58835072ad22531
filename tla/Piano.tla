------------------------------- MODULE Piano -------------------------------
(***************************************************************************)
(* main_piano of src/apps/piano/piano.c: a loop that asks kb_held for each *)
(* note in turn and gives the speaker one of those held, the newest first. *)
(* Keys go down and up between any two of its questions.                   *)
(***************************************************************************)
EXTENDS Speaker

CONSTANT NoNote   \* NULL
ASSUME PianoAssumption == NoNote \notin Notes

VARIABLES
  at,            \* "idle", "loop", "scan" or "exit"
  held,          \* the notes whose held is true
  pressed,       \* the notes whose pressed is true
  playing_note,
  playing,
  octave,        \* of the frequencies in piano_notes
  i              \* the note that the scan asks for next

pianoVars == <<at, held, pressed, playing_note, playing, octave, i>>

N == CHOOSE n \in Notes : \A m \in Notes : m <= n

PianoIdle ==
  /\ at = "idle" /\ held = {} /\ pressed = {}
  /\ playing_note = NoNote /\ playing = FALSE /\ octave = 3 /\ i = 1

NoteFreq(n) == get_octave_notes(octave, Freq[n])

(* Keys may be down already. *)
PianoStart ==
  /\ at = "idle"
  /\ at' = "loop" /\ octave' \in Octaves
  /\ down' \in SUBSET PianoKeys
  /\ UNCHANGED <<held, pressed, playing_note, playing, i, speaker, beeper>>

PianoLoop ==
  /\ at = "loop"
  /\ at' = IF kb_held(EXIT) THEN "exit" ELSE "scan"
  /\ playing' = FALSE /\ i' = 1
  /\ UNCHANGED <<held, pressed, playing_note, octave, speakerVars>>

(* One note: newly pressed, held on, or not held. *)
Scan ==
  /\ at = "scan" /\ i <= N
  /\ LET new == kb_held(i) /\ i \notin held IN
     /\ pressed' = IF new THEN pressed \union {i} ELSE pressed \ {i}
     /\ held' = IF kb_held(i) THEN held \union {i} ELSE held \ {i}
     /\ playing_note' = IF new THEN i ELSE playing_note
     /\ playing' = (playing \/ new)
  /\ i' = i + 1
  /\ UNCHANGED <<at, octave, speakerVars>>

(* The note that is to sound: the one just pressed or still held, else the *)
(* last in the array that is held.                                         *)
LastHeld == CHOOSE n \in held : \A m \in held : m <= n
SoundingStale ==
  IF playing \/ playing_note # NoNote THEN playing_note
  ELSE IF held # {} THEN LastHeld ELSE NoNote
Sounding ==
  IF playing \/ playing_note \in held THEN playing_note
  ELSE IF held # {} THEN LastHeld ELSE NoNote

Choose ==
  /\ at = "scan" /\ i > N
  /\ playing_note' = IF Sounding = NoNote THEN playing_note ELSE Sounding
  /\ IF Sounding = NoNote
     THEN IF pcspkr_get_freq # 0 THEN pcspkr_clear ELSE UNCHANGED speaker
     ELSE IF pcspkr_get_freq # NoteFreq(Sounding) THEN pcspkr_play(NoteFreq(Sounding))
          ELSE UNCHANGED speaker
  /\ at' = "loop"
  /\ UNCHANGED <<held, pressed, playing, octave, i, down, beeper>>

(* The end of main_piano; its variables are gone. *)
PianoExit ==
  /\ at = "exit"
  /\ pcspkr_clear
  /\ at' = "idle" /\ held' = {} /\ pressed' = {}
  /\ playing_note' = NoNote /\ playing' = FALSE /\ octave' = 3 /\ i' = 1
  /\ UNCHANGED beeper

PianoStep == PianoLoop \/ Scan \/ Choose

PianoInit ==
  /\ down = {} /\ current_freq = 0 /\ gate = FALSE /\ beeper = NoBeeper
  /\ PianoIdle
PianoNext ==
  \/ KeyEvent /\ UNCHANGED <<speaker, beeper, pianoVars>>
  \/ PianoStart \/ PianoStep
  \/ PianoExit /\ UNCHANGED down
PianoSpec == PianoInit /\ [][PianoNext]_<<speakerVars, pianoVars>>

-----------------------------------------------------------------------------
(* Each time round (lines 164 to 208), the speaker has the tone of a note  *)
(* that the program saw held, whatever went down and up meanwhile, and is  *)
(* silent only if it saw none.  "If we just pressed a key, give that note  *)
(* priority" (line 164).  The 16 bits of channel 2 are enough for the tone *)
(* in each octave.                                                         *)
SoundsHeldNote ==
  at = "loop" =>
    IF held = {} THEN current_freq = 0
    ELSE gate /\ \E n \in IF pressed # {} THEN pressed ELSE held :
                   current_freq = NoteFreq(n) /\ InTune(NoteFreq(n))
=============================================================================
