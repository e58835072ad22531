------------------------------ MODULE Speaker ------------------------------
(***************************************************************************)
(* The PC speaker of src/kernel/pcspkr.c: channel 2 of the timer makes the *)
(* tone and two bits of a port let it out.  With it the programs that only *)
(* beep: the shell's beep, metronome and play, and piano_random.  They are *)
(* one loop, round after round of a tone and a pause, that a count or the  *)
(* key EXIT ends.                                                          *)
(*                                                                         *)
(* The keys are the keyboard's flags, which an interrupt may change        *)
(* between any two steps.                                                  *)
(*                                                                         *)
(* A definition that stands just before another, with its parameters, and  *)
(* that nothing uses, is what a bug would make of it: PROJECT.json names   *)
(* the property that would notice.                                         *)
(***************************************************************************)
EXTENDS Integers

CONSTANTS
  EXIT,      \* the key 'q'
  Notes,     \* the keys of the piano, in the order of piano_notes
  Freq,      \* the frequency of each, in octave 3
  Octaves,   \* those that users ask for
  Beeps,     \* the frequencies that "beep" and "metronome" are given
  MaxRounds  \* bound: the tones of the longest song, the largest count

ASSUME SpeakerAssumption ==
  /\ \E k \in Notes : k \in Nat /\ Notes = 1..k
  /\ EXIT \notin Notes
  /\ Freq \in [Notes -> Nat] /\ \A n \in Notes : Freq[n] >= 76   \* F has 174
  /\ Octaves \subseteq 1..5 /\ Beeps \subseteq Nat \ {0}
  /\ MaxRounds \in Nat

VARIABLES
  down,          \* the keys that kb_held finds held
  current_freq,  \* pcspkr.c; 0 means disabled
  gate,          \* the two bits of PCSPKR_PORT
  beeper         \* the program: its place, the rounds left, may EXIT end it

speaker == <<current_freq, gate>>
speakerVars == <<down, speaker, beeper>>

PIT_BASE_FREQ == 1193182

-----------------------------------------------------------------------------
(* IRQ 1 *)
PianoKeys == Notes \union {EXIT}
KeyDown == \E k \in PianoKeys : down' = down \union {k}
KeyUp   == \E k \in down : down' = down \ {k}

KeyEvent == (KeyDown \/ KeyUp) /\ down' # down

kb_held(k) == k \in down

-----------------------------------------------------------------------------
(* What channel 2 counts down from, of 16 bits, for the frequency that was *)
(* asked for.  It stays when the gate closes, but is set before it opens.  *)
ReloadByte(f) == (PIT_BASE_FREQ \div f) % 256
Reload(f) == (PIT_BASE_FREQ \div f) % 65536

(* The tone is the one asked for: no other count is nearer from below.     *)
InTune(f) == Reload(f) * f <= PIT_BASE_FREQ /\ PIT_BASE_FREQ < (Reload(f) + 1) * f

pcspkr_play(f) ==
  /\ current_freq' = f
  /\ gate' = TRUE

pcspkr_clearGateOnly ==
  /\ gate' = FALSE
  /\ UNCHANGED current_freq
pcspkr_clear ==
  /\ gate' = FALSE
  /\ current_freq' = 0

pcspkr_get_freq == current_freq

get_octave_notes(octave, f) == CASE octave = 1 -> f \div 4
                                 [] octave = 2 -> f \div 2
                                 [] octave = 3 -> f
                                 [] octave = 4 -> f * 2
                                 [] octave = 5 -> f * 4

-----------------------------------------------------------------------------
NoBeeper == [at |-> "idle", left |-> 0, exits |-> FALSE]

(* What the arguments of the four commands amount to: one beep; a          *)
(* metronome or a piano_random without -n, which only EXIT ends; a song;   *)
(* and piano_random -n k, whose loop condition is note_count <= note_limit.*)
cmd_beep          == beeper' = [at |-> "play", left |-> 1, exits |-> FALSE]
cmd_metronome     == beeper' = [at |-> "loop", left |-> MaxRounds + 2, exits |-> TRUE]
cmd_play          == beeper' = [at |-> "loop", left |-> MaxRounds, exits |-> TRUE]
main_piano_random ==
  \/ cmd_metronome
  \/ \E k \in 1..MaxRounds : beeper' = [at |-> "loop", left |-> k + 1, exits |-> TRUE]

Endless == MaxRounds + 2

BeepLoopCounts ==
  /\ beeper.at = "loop"
  /\ beeper' = [beeper EXCEPT !.at = IF beeper.left = 0 THEN "done" ELSE "play"]
  /\ UNCHANGED <<down, speaker>>
(* The loop condition. *)
BeepLoop ==
  /\ beeper.at = "loop"
  /\ beeper' = [beeper EXCEPT !.at = IF beeper.left = 0 \/ kb_held(EXIT) THEN "done" ELSE "play"]
  /\ UNCHANGED <<down, speaker>>

(* pcspkr_beep_custom: the tone, sleep_ms, silence; then the pause. *)
BeepOn ==
  /\ beeper.at = "play"
  /\ \E f \in Beeps \union {get_octave_notes(o, Freq[n]) : o \in Octaves, n \in Notes} : pcspkr_play(f)
  /\ beeper' = [beeper EXCEPT !.at = "clear"]
  /\ UNCHANGED down

BeepOff ==
  /\ beeper.at = "clear"
  /\ pcspkr_clear
  /\ beeper' = [beeper EXCEPT !.at = IF beeper.exits THEN "loop" ELSE "done",
                              !.left = IF @ = Endless THEN @ ELSE @ - 1]
  /\ UNCHANGED down

BeeperStep == BeepLoop \/ BeepOn \/ BeepOff
=============================================================================
