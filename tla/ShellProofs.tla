---------------------------- MODULE ShellProofs ----------------------------
(***************************************************************************)
(* Proofs about the machine as a whole: whatever lines are typed, in       *)
(* whatever order, their words are split, each program of the shell        *)
(* behaves as its module says, prints numbers as C has them, and leaves    *)
(* the keyboard, the console and the speaker as it found them.             *)
(***************************************************************************)
EXTENDS Shell, ProgramProofs

(* What a step of the machine is, program by program. *)
LEMMA MachineSteps ==
  ASSUME [ShellNext]_allVars
  PROVE  \/ UNCHANGED allVars
         \/ BootUp \/ ReadLine \/ RunUnknown \/ RunRefused \/ RunQuick \/ RunLast \/ RunQuit
         \/ StartBeeper \/ StartPiano \/ StartGame \/ StartMandelbrot \/ StartDate \/ StartTest
         \/ KeysMove \/ Sound \/ EndBeeper \/ EndPiano \/ PlayGame \/ EndGame
         \/ ReadClock \/ ClockGoesOn \/ PrintDate \/ EndDate \/ Prints \/ TestSwitches \/ EndTest
BY DEF ShellNext, Execute, Start

-----------------------------------------------------------------------------
(* Each component's part of the machine takes only its own steps.          *)
LEMMA BootsOwnSteps == [ShellNext]_allVars => [BootNext]_bootVars
<1> USE DEF bootVars
<1> SUFFICES ASSUME [ShellNext]_allVars PROVE [BootNext]_bootVars
  OBVIOUS
<1>1. CASE UNCHANGED allVars
  BY <1>1 DEF allVars
<1>2. CASE BootUp
  BY <1>2 DEF BootUp
<1>3. CASE ReadLine \/ RunUnknown \/ RunRefused \/ RunQuick \/ RunLast \/ RunQuit
  BY <1>3 DEF ReadLine, RunUnknown, RunRefused, RunQuick, RunLast, RunQuit, Runs, Called
<1>4. CASE StartBeeper \/ StartPiano \/ StartGame \/ StartMandelbrot \/ StartDate \/ StartTest
  BY <1>4 DEF StartBeeper, StartPiano, StartGame, StartMandelbrot, StartDate, StartTest, StartsAs, Runs, Called
<1>5. CASE KeysMove \/ Sound \/ EndBeeper \/ EndPiano \/ PlayGame \/ EndGame
  BY <1>5 DEF KeysMove, Sound, EndBeeper, EndPiano, PlayGame, EndGame, Ends
<1>6. CASE ReadClock \/ ClockGoesOn \/ PrintDate \/ EndDate \/ Prints \/ TestSwitches \/ EndTest
  BY <1>6 DEF ReadClock, ClockGoesOn, PrintDate, EndDate, Prints, TestSwitches, EndTest, Ends
<1> QED BY <1>1, <1>2, <1>3, <1>4, <1>5, <1>6, MachineSteps

LEMMA ClocksOwnSteps == [ShellNext]_allVars => [RtcNext]_rtcVars
<1> USE DEF toolVars
<1> SUFFICES ASSUME [ShellNext]_allVars PROVE [RtcNext]_rtcVars
  OBVIOUS
<1>1. CASE UNCHANGED allVars
  BY <1>1 DEF allVars
<1>2. CASE StartDate
  BY <1>2 DEF StartDate, RtcNext
<1>3. CASE ReadClock \/ ClockGoesOn
  BY <1>3 DEF ReadClock, ClockGoesOn, RtcNext
<1>4. CASE PrintDate \/ EndDate
  BY <1>4 DEF PrintDate, EndDate, RtcNext
<1>5. CASE BootUp \/ ReadLine \/ RunUnknown \/ RunRefused \/ RunQuick \/ RunLast \/ RunQuit
  BY <1>5 DEF BootUp, ReadLine, RunUnknown, RunRefused, RunQuick, RunLast, RunQuit, AtPrompt
<1>6. CASE StartBeeper \/ StartPiano \/ StartGame \/ StartMandelbrot \/ StartTest
  BY <1>6 DEF StartBeeper, StartPiano, StartGame, StartMandelbrot, StartTest
<1>7. CASE KeysMove \/ Sound \/ EndBeeper \/ EndPiano \/ PlayGame \/ EndGame
  BY <1>7 DEF KeysMove, Sound, EndBeeper, EndPiano, PlayGame, EndGame
<1>8. CASE Prints \/ TestSwitches \/ EndTest
  BY <1>8 DEF Prints, TestSwitches, EndTest
<1> QED BY <1>1, <1>2, <1>3, <1>4, <1>5, <1>6, <1>7, <1>8, MachineSteps

LEMMA GamesOwnSteps == [ShellNext]_allVars => [FiveNext]_fiveVars
<1> USE DEF toolVars
<1> SUFFICES ASSUME [ShellNext]_allVars PROVE [FiveNext]_fiveVars
  OBVIOUS
<1>1. CASE UNCHANGED allVars
  BY <1>1 DEF allVars
<1>2. CASE StartGame
  BY <1>2 DEF StartGame, FiveNext
<1>3. CASE PlayGame
  <2>1. ASSUME NEW c, FiveKey(c) PROVE FiveNext
    <3>1. CASE c \in {"h", "j", "k", "l", "space", "r", "c"}
      BY <2>1, <3>1 DEF FiveNext
    <3>2. CASE c \notin {"h", "j", "k", "l", "space", "r", "c"}
      <4>1. FiveKey("")
        BY <2>1, <3>2 DEF FiveKey
      <4> QED BY <4>1 DEF FiveNext
    <3> QED BY <3>1, <3>2
  <2>2. (\E c : FiveKey(c)) \/ UNCHANGED fiveVars
    BY <1>3 DEF PlayGame
  <2> QED BY <2>1, <2>2
<1>4. CASE EndGame
  BY <1>4 DEF EndGame, FiveNext
<1>5. CASE BootUp \/ ReadLine \/ RunUnknown \/ RunRefused \/ RunQuick \/ RunLast \/ RunQuit
  BY <1>5 DEF BootUp, ReadLine, RunUnknown, RunRefused, RunQuick, RunLast, RunQuit, AtPrompt
<1>6. CASE StartBeeper \/ StartPiano \/ StartMandelbrot \/ StartDate \/ StartTest
  BY <1>6 DEF StartBeeper, StartPiano, StartMandelbrot, StartDate, StartTest
<1>7. CASE KeysMove \/ Sound \/ EndBeeper \/ EndPiano
  BY <1>7 DEF KeysMove, Sound, EndBeeper, EndPiano
<1>8. CASE ReadClock \/ ClockGoesOn \/ PrintDate \/ EndDate \/ Prints \/ TestSwitches \/ EndTest
  BY <1>8 DEF ReadClock, ClockGoesOn, PrintDate, EndDate, Prints, TestSwitches, EndTest
<1> QED BY <1>1, <1>2, <1>3, <1>4, <1>5, <1>6, <1>7, <1>8, MachineSteps

(* So the machine is one that boots, ... *)
LEMMA IsBoot == ShellSpec => BootSpec
<1>1. ShellInit => BootInit
  BY DEF ShellInit
<1> QED BY <1>1, BootsOwnSteps, PTL DEF ShellSpec, BootSpec

LEMMA IsClock == ShellSpec => RtcSpec
<1>1. ShellInit => RtcIdle
  BY DEF ShellInit, ToolsIdle
<1> QED BY <1>1, ClocksOwnSteps, PTL DEF ShellSpec, RtcSpec

LEMMA IsGame == ShellSpec => FiveSpec
<1>1. ShellInit => FiveIdle
  BY DEF ShellInit, ToolsIdle
<1> QED BY <1>1, GamesOwnSteps, PTL DEF ShellSpec, FiveSpec

(* ... whose clock, game and page tables keep what their modules promise,  *)
(* whatever else was run before and is run after.                          *)
(* The kernel uses nothing before it is initialised, and protects .rodata. *)
THEOREM MachineBootsSafely == ShellSpec => []BootsSafely
BY IsBoot, BootIsSafe, PTL

(* date's time of day is never ahead of the clock's on the same day. *)
THEOREM DateNeverAhead == ShellSpec => []TimeNeverAhead
BY IsClock, TimeIsNeverAhead, PTL

(* Nor is the epoch that it prints, unless a month begins meanwhile. *)
THEOREM DateEpochNeverAhead == ShellSpec => []EpochNeverAhead
BY IsClock, EpochIsNeverAhead, PTL

(* In every game of 5x5 the parity of a quiet pattern stays. *)
THEOREM GamesKeepParity == ShellSpec => ParityKept
BY IsGame, ParityStays, PTL

-----------------------------------------------------------------------------
(* The modes.                                                              *)
Normal == print_chars = TRUE /\ raw_mode = FALSE /\ console = "shell"
Silent == current_freq = 0 /\ gate = FALSE
BeeperFields == {"at", "left", "exits"}
Others == {"boot", "prompt", "execute", "date", "date_epoch", "page_map", "heap_headers", "test_libk", "test_multitask"}

(* What each program may have changed: the speaker only sounds where its   *)
(* owner is about to clear it, and what a program will restore is what the *)
(* shell had.  Raw mode and the window are only where they are put back    *)
(* without looking at what was saved, or where what was saved is right.    *)
ModesInv ==
  /\ prog \in Others \union Games \union Beepers \union {"mandelbrot", "piano", "halt"}
  /\ prog \in Others => Normal
  /\ prog \in Others \union Games \union {"mandelbrot"} => Silent
  /\ prog \in Beepers \union {"piano", "mandelbrot"} => was = <<TRUE, FALSE>> /\ console = "shell"
  /\ prog \in Beepers \union {"piano"} => raw_mode = FALSE
  /\ prog \in Beepers /\ beeper.at # "clear" => Silent
  /\ DOMAIN beeper = BeeperFields

(* The programs are idle while they do not run. *)
IdleInv == prog # "piano" => at = "idle"

ShellInv == ModesInv /\ IdleInv /\ PianoInv

LEMMA ShellStarts == ShellInit => ShellInv
<1> SUFFICES ASSUME ShellInit PROVE ShellInv
  OBVIOUS
<1>1. PianoIdle /\ current_freq = 0 /\ beeper = NoBeeper
  BY DEF ShellInit, ToolsIdle
<1>2. DOMAIN beeper = BeeperFields
  BY <1>1 DEF NoBeeper, BeeperFields
<1>3. ModesInv
  BY <1>2 DEF ShellInit, ModesInv, Others, Normal, Silent, Beepers
<1> QED
  BY <1>1, <1>3, PianoIdleInv DEF ShellInv, IdleInv, PianoIdle

(* Steps that leave the speaker and the piano alone. *)
LEMMA QuietSteps ==
  ASSUME ShellInv, UNCHANGED <<speaker, beeper, pianoVars>>
  PROVE  /\ PianoInv' /\ UNCHANGED <<at, current_freq, gate>>
         /\ DOMAIN beeper' = BeeperFields
BY PianoStays DEF ShellInv, ModesInv, speaker, pianoVars

LEMMA CommandsKeep ==
  ASSUME ShellInv, BootUp \/ ReadLine \/ RunUnknown \/ RunRefused \/ RunQuick \/ RunLast \/ RunQuit
  PROVE  ShellInv'
<1>1. UNCHANGED <<modes, was, toolVars>>
  BY DEF BootUp, ReadLine, RunUnknown, RunRefused, RunQuick, RunLast, RunQuit, AtPrompt
<1>2. PianoInv' /\ UNCHANGED <<at, current_freq, gate>> /\ beeper' = beeper
  BY <1>1, QuietSteps DEF toolVars, speakerVars
<1>3. prog \in {"boot", "prompt", "execute"} /\ prog' \in {"boot", "prompt", "execute", "halt"}
  BY DEF BootUp, ReadLine, RunUnknown, RunRefused, RunQuick, RunLast, RunQuit, AtPrompt, Runs, Called, Others
<1>4. UNCHANGED <<print_chars, raw_mode, console, was>>
  BY <1>1 DEF modes
<1>5. ModesInv'
  BY <1>2, <1>3, <1>4 DEF ShellInv, ModesInv, Others, Normal, Silent, Beepers, Games
<1> QED
  BY <1>2, <1>3, <1>5 DEF ShellInv, IdleInv, Others

LEMMA StartBeeperKeeps == ASSUME ShellInv, StartBeeper PROVE ShellInv'
<1>1. prog = "execute" /\ prog' \in Beepers
  BY DEF StartBeeper, StartsAs, Runs, Called
<1>2. Normal /\ Silent
  BY <1>1 DEF ShellInv, ModesInv, Others
<1>3. UNCHANGED <<raw_mode, console, speaker, pianoVars>> /\ was' = saved
  BY DEF StartBeeper
<1>4. DOMAIN beeper' = BeeperFields
  <2>1. cmd_beep \/ cmd_metronome \/ cmd_play \/ main_piano_random
    <3>1. PICK name \in Beepers :
            CASE name = "beep" -> cmd_beep
              [] name = "metronome" -> cmd_metronome
              [] name = "play" -> cmd_play
              [] name = "piano_random" -> main_piano_random
      BY DEF StartBeeper
    <3>2. name \in {"beep", "metronome", "play", "piano_random"}
      BY DEF Beepers
    <3> QED BY <3>1, <3>2
  <2> QED
    BY <2>1 DEF cmd_beep, cmd_metronome, cmd_play, main_piano_random, BeeperFields
<1>5. Silent' /\ raw_mode' = FALSE /\ console' = "shell" /\ was' = <<TRUE, FALSE>>
  BY <1>2, <1>3 DEF Silent, Normal, saved, speaker
<1>6. prog' \notin Others \union Games \union {"mandelbrot", "piano"}
  BY <1>1 DEF Beepers, Others, Games
<1>7. ModesInv'
  BY <1>1, <1>4, <1>5, <1>6 DEF ModesInv, Silent
<1>8. PianoInv' /\ at' = at /\ at = "idle"
  BY <1>1, <1>3, PianoStays DEF ShellInv, speaker, pianoVars, IdleInv
<1> QED
  BY <1>7, <1>8 DEF ShellInv, IdleInv

LEMMA EndBeeperKeeps == ASSUME ShellInv, EndBeeper PROVE ShellInv'
<1>1. prog \in Beepers /\ beeper.at = "done" /\ prog' = "prompt" /\ beeper' = NoBeeper /\ prog # "piano"
      /\ UNCHANGED <<speaker, pianoVars>> /\ Restore
  BY DEF EndBeeper, Ends, Beepers
<1>2. Silent /\ was = <<TRUE, FALSE>> /\ console = "shell" /\ raw_mode = FALSE
  BY <1>1 DEF ShellInv, ModesInv
<1>3. Normal' /\ Silent'
  <2>1. console' = console /\ raw_mode' = (raw_mode /\ was[2]) /\ print_chars' = (print_chars \/ was[1])
    BY <1>1 DEF Restore
  <2>2. raw_mode' = FALSE /\ print_chars' = TRUE
    BY <1>2, <2>1
  <2> QED BY <1>1, <1>2, <2>1, <2>2 DEF Normal, Silent, speaker
<1>4. DOMAIN beeper' = BeeperFields
  BY <1>1 DEF NoBeeper, BeeperFields
<1>5. PianoInv' /\ at' = "idle"
  BY <1>1, PianoStays DEF ShellInv, speaker, pianoVars, IdleInv
<1> QED
  BY <1>1, <1>3, <1>4, <1>5 DEF ShellInv, ModesInv, IdleInv, Others, Beepers, Normal, Silent

LEMMA StartPianoKeeps == ASSUME ShellInv, StartPiano PROVE ShellInv'
<1>1. prog = "execute" /\ prog' = "piano" /\ PianoStart /\ was' = saved /\ UNCHANGED <<raw_mode, console>>
  BY DEF StartPiano, StartsAs, Runs, Called
<1>2. Normal /\ Silent
  BY <1>1 DEF ShellInv, ModesInv, Others
<1>3. PianoInv'
  BY <1>1, <1>2, PianoStartKeeps DEF ShellInv, Silent
<1>4. beeper' = beeper
  BY <1>1 DEF PianoStart
<1>5. raw_mode' = FALSE /\ console' = "shell" /\ was' = <<TRUE, FALSE>>
  BY <1>1, <1>2 DEF Normal, saved
<1> QED
  BY <1>1, <1>3, <1>4, <1>5 DEF ShellInv, ModesInv, IdleInv, Others, Beepers, Games

LEMMA EndPianoKeeps == ASSUME ShellInv, EndPiano PROVE ShellInv'
<1>1. prog = "piano" /\ prog' = "prompt" /\ PianoExit /\ Restore
  BY DEF EndPiano, Ends
<1>2. was = <<TRUE, FALSE>> /\ console = "shell" /\ raw_mode = FALSE
  BY <1>1 DEF ShellInv, ModesInv
<1>3. PianoInv' /\ Silent' /\ at' = "idle" /\ beeper' = beeper
  BY <1>1, PianoExitKeeps DEF ShellInv, PianoExit, pcspkr_clear, Silent
<1>4. Normal'
  <2>1. console' = console /\ raw_mode' = (raw_mode /\ was[2]) /\ print_chars' = (print_chars \/ was[1])
    BY <1>1 DEF Restore
  <2>2. raw_mode' = FALSE /\ print_chars' = TRUE
    BY <1>2, <2>1
  <2> QED BY <1>2, <2>1, <2>2 DEF Normal
<1> QED
  BY <1>1, <1>3, <1>4 DEF ShellInv, ModesInv, IdleInv, Others, Beepers, Normal, Silent

(* A tone sounds only between its start and the pcspkr_clear after it.     *)
LEMMA SoundKeeps == ASSUME ShellInv, Sound PROVE ShellInv'
<1>1. UNCHANGED <<prog, print_chars, raw_mode, console, was>>
  BY DEF Sound, shellVars
<1>2. CASE prog = "piano" /\ PianoStep
  <2>1. PianoInv'
    BY <1>2, PianoStepKeeps DEF ShellInv
  <2>2. beeper' = beeper
    BY <1>2 DEF PianoStep, PianoLoop, Scan, Choose, speakerVars
  <2> QED
    BY <1>1, <1>2, <2>1, <2>2 DEF ShellInv, ModesInv, IdleInv, Others, Beepers, Games
<1>3. CASE prog \in Beepers /\ BeeperStep /\ UNCHANGED pianoVars
  <2>1. prog \notin Others \union Games \union {"mandelbrot", "piano"} /\ at = "idle"
    BY <1>3 DEF Beepers, Others, Games, ShellInv, IdleInv
  <2>2. DOMAIN beeper = BeeperFields
    BY DEF ShellInv, ModesInv
  <2>3. (current_freq # 0 => gate) /\ (beeper.at # "clear" => Silent)
    BY <1>3 DEF ShellInv, ModesInv, PianoInv, PianoTypes
  <2>4. /\ DOMAIN beeper' = BeeperFields
        /\ current_freq' # 0 => gate'
        /\ beeper'.at # "clear" => Silent'
    <3>1. CASE BeepLoop
      <4>1. beeper'.at \in {"done", "play"} /\ UNCHANGED <<current_freq, gate>> /\ beeper.at = "loop"
            /\ beeper' = [beeper EXCEPT !.at = beeper'.at]
        BY <3>1, <2>2 DEF BeepLoop, speaker
      <4> QED BY <4>1, <2>2, <2>3 DEF BeeperFields, Silent
    <3>2. CASE BeepOn
      <4>1. gate' = TRUE /\ beeper' = [beeper EXCEPT !.at = "clear"]
        BY <3>2 DEF BeepOn, pcspkr_play
      <4> QED BY <4>1, <2>2 DEF BeeperFields
    <3>3. CASE BeepOff
      <4>1. Silent'
        BY <3>3 DEF BeepOff, pcspkr_clear, Silent
      <4>2. DOMAIN beeper' = BeeperFields
        BY <3>3, <2>2 DEF BeepOff
      <4> QED BY <4>1, <4>2 DEF Silent
    <3> QED BY <1>3, <3>1, <3>2, <3>3 DEF BeeperStep
  <2>5. ModesInv'
    BY <1>1, <1>3, <2>1, <2>4 DEF ShellInv, ModesInv
  <2>6. PianoInv' /\ at' = "idle"
    BY <1>3, <2>1, <2>4 DEF ShellInv, PianoInv, PianoTypes, ScanInv, SoundsHeldNote, pianoVars
  <2> QED
    BY <2>5, <2>6 DEF ShellInv, IdleInv
<1> QED
  BY <1>2, <1>3 DEF Sound

LEMMA GamesKeep == ASSUME ShellInv, StartGame \/ StartMandelbrot \/ PlayGame \/ EndGame PROVE ShellInv'
<1>1. UNCHANGED <<speakerVars, pianoVars>>
  BY DEF StartGame, StartMandelbrot, PlayGame, EndGame, toolVars
<1>2. PianoInv' /\ UNCHANGED <<at, current_freq, gate>> /\ beeper' = beeper
  BY <1>1, QuietSteps DEF speakerVars
<1>3. prog \in {"execute", "mandelbrot"} \union Games
  BY DEF StartGame, StartMandelbrot, PlayGame, EndGame, StartsAs, Runs, Called
<1>4. at = "idle" /\ Silent
  BY <1>3 DEF ShellInv, IdleInv, ModesInv, Others, Games
<1>5. CASE StartGame
  <2>1. prog' \in Games
    BY <1>5 DEF StartGame, StartsAs, Games
  <2> QED BY <1>2, <1>4, <2>1 DEF ShellInv, IdleInv, ModesInv, Others, Beepers, Games, Silent
<1>6. CASE StartMandelbrot
  <2>1. prog = "execute" /\ prog' = "mandelbrot" /\ was' = saved /\ console' = console
    BY <1>6 DEF StartMandelbrot, StartsAs, Runs, Called
  <2>2. was' = <<TRUE, FALSE>> /\ console' = "shell"
    BY <2>1 DEF ShellInv, ModesInv, Others, Normal, saved
  <2> QED BY <1>2, <1>4, <2>1, <2>2 DEF ShellInv, IdleInv, ModesInv, Others, Beepers, Games, Silent
<1>7. CASE PlayGame
  <2>1. UNCHANGED <<prog, print_chars, raw_mode, console, was>>
    BY <1>7 DEF PlayGame, modes
  <2> QED BY <1>2, <1>4, <2>1 DEF ShellInv, IdleInv, ModesInv, Normal, Silent
<1>8. CASE EndGame
  <2>1. prog' = "prompt" /\ was' = was /\ prog # "execute" /\ IF prog = "mandelbrot" THEN Restore ELSE endwin
    BY <1>8 DEF EndGame, Games
  <2>2. Normal'
    <3>1. CASE prog = "mandelbrot"
      <4>1. was = <<TRUE, FALSE>> /\ console = "shell"
        BY <3>1 DEF ShellInv, ModesInv
      <4>2. console' = console /\ raw_mode' = (raw_mode /\ was[2]) /\ print_chars' = (print_chars \/ was[1])
        BY <2>1, <3>1 DEF Restore
      <4>3. raw_mode' = FALSE /\ print_chars' = TRUE
        BY <4>1, <4>2
      <4> QED BY <4>1, <4>2, <4>3 DEF Normal
    <3>2. CASE prog # "mandelbrot"
      BY <2>1, <3>2 DEF endwin, Normal
    <3> QED BY <3>1, <3>2
  <2> QED BY <1>2, <1>4, <2>1, <2>2 DEF ShellInv, IdleInv, ModesInv, Others, Beepers, Games, Normal, Silent
<1> QED
  BY <1>5, <1>6, <1>7, <1>8

LEMMA RestKeeps ==
  ASSUME ShellInv,
         StartDate \/ StartTest \/ KeysMove \/ ReadClock \/ ClockGoesOn \/ PrintDate \/ EndDate
           \/ Prints \/ TestSwitches \/ EndTest
  PROVE  ShellInv'
<1>1. UNCHANGED <<speaker, beeper, pianoVars>>
  BY DEF StartDate, StartTest, KeysMove, ReadClock, ClockGoesOn, PrintDate, EndDate, Prints, TestSwitches, EndTest,
         toolVars, speakerVars
<1>2. PianoInv' /\ UNCHANGED <<at, current_freq, gate>> /\ beeper' = beeper
  BY <1>1, QuietSteps
<1>3. UNCHANGED <<print_chars, raw_mode, console, was>>
  BY DEF StartDate, StartTest, KeysMove, ReadClock, ClockGoesOn, PrintDate, EndDate, Prints, TestSwitches, EndTest,
         modes, shellVars, Ends
<1>4. prog' = prog \/ (prog \in Others /\ prog' \in Others)
  BY DEF StartDate, StartTest, KeysMove, ReadClock, ClockGoesOn, PrintDate, EndDate, Prints, TestSwitches, EndTest,
         shellVars, Ends, StartsAs, Runs, Called, Others, Tables
<1>5. CASE prog' = prog
  BY <1>2, <1>3, <1>5 DEF ShellInv, IdleInv, ModesInv, Normal, Silent
<1>6. CASE prog \in Others /\ prog' \in Others
  BY <1>2, <1>3, <1>6 DEF ShellInv, IdleInv, ModesInv, Normal, Silent, Others, Games, Beepers
<1> QED
  BY <1>4, <1>5, <1>6

LEMMA ShellKeeps == ShellInv /\ [ShellNext]_allVars => ShellInv'
<1> SUFFICES ASSUME ShellInv, [ShellNext]_allVars PROVE ShellInv'
  OBVIOUS
<1>1. CASE UNCHANGED allVars
  <2>1. UNCHANGED <<speaker, beeper, pianoVars, prog, print_chars, raw_mode, console, was>>
    BY <1>1 DEF allVars, shellVars, toolVars, speakerVars
  <2>2. PianoInv' /\ UNCHANGED <<at, current_freq, gate>>
    BY <2>1, QuietSteps
  <2> QED BY <2>1, <2>2 DEF ShellInv, IdleInv, ModesInv, Normal, Silent
<1> QED
  BY <1>1, MachineSteps, CommandsKeep, StartBeeperKeeps, EndBeeperKeeps, StartPianoKeeps, EndPianoKeeps,
     SoundKeeps, GamesKeep, RestKeeps

LEMMA ShellHolds == ShellSpec => []ShellInv
BY ShellStarts, ShellKeeps, PTL DEF ShellSpec

(* Whatever was run, the prompt finds echo on, raw mode off, the shell's   *)
(* console and a silent speaker.                                           *)
THEOREM ModesAreRestored == ShellSpec => []ModesRestored
<1>1. ShellInv => ModesRestored
  BY DEF ShellInv, ModesInv, Others, Normal, Silent, ModesRestored
<1> QED
  BY <1>1, ShellHolds, PTL

(* The piano sounds a note it saw held, also after other programs that     *)
(* beeped.                                                                 *)
THEOREM MachineSoundsHeld == ShellSpec => []SoundsHeldNote
<1>1. ShellInv => SoundsHeldNote
  BY DEF ShellInv, PianoInv
<1> QED
  BY <1>1, ShellHolds, PTL

-----------------------------------------------------------------------------
(* test_multitask, in the machine.                                         *)
Tasks == INSTANCE MultitaskProofs WITH
  Regs <- {0}, Fpu <- {0}, held <- blocks,
  pc <- test_pc, n <- test_n, task <- test_task, i <- test_i

LEMMA TasksAssumption == Tasks!MultitaskAssumption
BY BlocksAssumption DEF Test!MultitaskAssumption, Tasks!MultitaskAssumption

LEMMA SameTestInit == Test!TestInit => Tasks!TestInit
BY DEF Test!TestInit, Tasks!TestInit, Test!Init, Tasks!Init, Test!AllCtxs, Tasks!AllCtxs

LEMMA SameTestNext == Test!TestNext => Tasks!TestNext
<1> USE DEF Test!AllCtxs, Tasks!AllCtxs, Test!vars, Tasks!vars, Test!mem, Tasks!mem
<1>1. ASSUME NEW c \in Ctxs, NEW s \in Stacks, NEW f \in FxAreas, Test!Create(c, s, f)
      PROVE  Tasks!Create(c, s, f)
  BY <1>1 DEF Test!Create, Tasks!Create, Test!NewTask, Tasks!NewTask, Test!Link, Tasks!Link
<1>2. Test!TakeTurn => Tasks!TakeTurn
  BY DEF Test!TakeTurn, Tasks!TakeTurn, Test!LoopsOn, Tasks!LoopsOn, Test!Switch, Tasks!Switch
<1>3. Test!LeaveLoop => Tasks!LeaveLoop
  BY DEF Test!LeaveLoop, Tasks!LeaveLoop, Test!LoopsOn, Tasks!LoopsOn
<1>4. Test!End => Tasks!End
  BY DEF Test!End, Tasks!End, Test!EndTask, Tasks!EndTask, Test!Unlink, Tasks!Unlink, Test!Freed, Tasks!Freed
<1> QED
  BY <1>1, <1>2, <1>3, <1>4 DEF Test!TestNext, Tasks!TestNext

(* The command starts and ends where it began.                             *)
TestRuns ==
  /\ Tasks!TestInv
  /\ prog # "test_multitask" => test_pc = "create"

LEMMA TestInitRuns == (Tasks!TestInit => Tasks!TestInv) /\ (Tasks!TestInit' => Tasks!TestInv')
<1>1. Tasks!TestInit => Tasks!TestInv
  <2>1. MaxIters \in Nat
    BY ShellAssumption
  <2> QED
    BY <2>1, TasksAssumption, Tasks!TestStarts
<1> QED
  BY <1>1, PTL

LEMMA TestRunsFirst == ShellInit => TestRuns
<1> SUFFICES ASSUME ShellInit PROVE TestRuns
  OBVIOUS
<1>1. Tasks!TestInit
  BY SameTestInit DEF ShellInit, ToolsIdle, TestIdle
<1> QED
  BY <1>1, TestInitRuns DEF TestRuns, Tasks!TestInit

(* EndTest leaves what mt_init made, whatever ran. *)
LEMMA TestEndsAsBegun ==
  ASSUME TestRuns, EndTest, test_pc = "done"
  PROVE  TestRuns'
<1>1. Tasks!TestInv
  BY DEF TestRuns
<1>2. Tasks!AllTidy
  BY <1>1, TasksAssumption, Tasks!TestSafe
<1>3. /\ blocks = {} /\ ctx[First].next = First /\ ctx[First].prev = First
  BY <1>2 DEF Tasks!AllTidy
<1>4. /\ mt_current_task = First /\ cpu \in [regs : {0}, fpu : {0}]
      /\ DOMAIN ctx = Ctxs \union {First} /\ DOMAIN stk = Stacks \union {FirstStack}
      /\ DOMAIN fx = FxAreas \union {FirstFx} /\ DOMAIN test_i = DOMAIN ctx
      /\ ctx[First] \in Tasks!Ctx /\ ctx[First].stack = FirstStack /\ ctx[First].fxdata = FirstFx
  BY <1>1 DEF Tasks!TestInv, Tasks!Inv, Tasks!TypeOK, Tasks!BlocksOwned, Tasks!AllCtxs
<1>5. ctx[First] = [next |-> First, prev |-> First, stack |-> FirstStack, fxdata |-> FirstFx]
  BY <1>3, <1>4 DEF Tasks!Ctx
<1>6. prog = "test_multitask"
  BY DEF EndTest, TestRuns
<1>7. /\ ctx' = [c \in DOMAIN ctx |-> ctx[First]] /\ stk' = [s \in DOMAIN stk |-> 0] /\ fx' = [f \in DOMAIN fx |-> 0]
      /\ test_pc' = "create" /\ test_n' = 0 /\ MT_TEST_ITERS' = 0
      /\ test_task' = [k \in 0..2 |-> First] /\ test_i' = [c \in DOMAIN ctx |-> 0]
      /\ UNCHANGED <<blocks, mt_current_task, cpu>>
  BY <1>6 DEF EndTest, Tables
<1>8. MaxIters \in Nat /\ 0 \in 0..MaxIters
  BY ShellAssumption
<1>9. Tasks!TestInit'
  BY <1>3, <1>4, <1>5, <1>7, <1>8 DEF Tasks!TestInit, Tasks!Init, Tasks!AllCtxs
<1> QED
  BY <1>7, <1>9, TestInitRuns DEF TestRuns

LEMMA TestRunsKept == TestRuns /\ [ShellNext]_allVars => TestRuns'
<1> SUFFICES ASSUME TestRuns, [ShellNext]_allVars PROVE TestRuns'
  OBVIOUS
<1> USE DEF toolVars
<1>1. Tasks!TestInv /\ MT_TEST_ITERS \in Nat
  BY DEF TestRuns, Tasks!TestInv
<1>2. ASSUME UNCHANGED testVars PROVE Tasks!TestInv' /\ UNCHANGED test_pc
  <2>1. UNCHANGED <<blocks, ctx, stk, fx, mt_current_task, cpu, test_pc, test_n, test_task, test_i, MT_TEST_ITERS>>
    BY <1>2 DEF testVars
  <2> QED
    BY <1>1, <2>1, TasksAssumption, Tasks!TestUnchanged DEF Tasks!mem
<1>3. CASE UNCHANGED allVars
  BY <1>2, <1>3 DEF allVars, shellVars, TestRuns
<1>4. CASE BootUp \/ ReadLine \/ RunUnknown \/ RunRefused \/ RunQuick \/ RunLast \/ RunQuit
  <2>1. prog # "test_multitask"
    BY <1>4 DEF BootUp, ReadLine, RunUnknown, RunRefused, RunQuick, RunLast, RunQuit, Runs, Called
  <2>2. UNCHANGED testVars
    BY <1>4 DEF BootUp, ReadLine, RunUnknown, RunRefused, RunQuick, RunLast, RunQuit, AtPrompt
  <2> QED BY <1>2, <2>1, <2>2 DEF TestRuns
<1>5. CASE StartBeeper \/ StartPiano \/ StartGame \/ StartMandelbrot \/ StartDate
  <2>1. prog # "test_multitask"
    BY <1>5 DEF StartBeeper, StartPiano, StartGame, StartMandelbrot, StartDate, StartsAs, Runs, Called
  <2>2. UNCHANGED testVars
    BY <1>5 DEF StartBeeper, StartPiano, StartGame, StartMandelbrot, StartDate
  <2> QED BY <1>2, <2>1, <2>2 DEF TestRuns
<1>6. CASE KeysMove \/ Sound \/ EndBeeper \/ EndPiano \/ PlayGame \/ EndGame \/ ReadClock \/ ClockGoesOn \/ PrintDate \/ EndDate \/ Prints
  <2>1. prog # "test_multitask"
    <3>1. CASE KeysMove \/ Sound \/ EndBeeper \/ EndPiano \/ PlayGame \/ EndGame
      BY <3>1 DEF KeysMove, Sound, EndBeeper, EndPiano, PlayGame, EndGame, Beepers, Games
    <3>2. CASE ReadClock \/ ClockGoesOn \/ PrintDate \/ EndDate
      BY <3>2 DEF ReadClock, ClockGoesOn, PrintDate, EndDate, Dates
    <3>3. CASE Prints
      BY <3>3 DEF Prints, Tables
    <3> QED BY <1>6, <3>1, <3>2, <3>3
  <2>2. UNCHANGED testVars
    BY <1>6 DEF KeysMove, Sound, EndBeeper, EndPiano, PlayGame, EndGame, ReadClock, ClockGoesOn, PrintDate, EndDate, Prints
  <2> QED BY <1>2, <2>1, <2>2 DEF TestRuns
<1>7. CASE StartTest
  <2>1. prog # "test_multitask" /\ test_pc = "create"
    BY <1>7 DEF StartTest, StartsAs, Runs, Called, TestRuns
  <2>2. UNCHANGED <<blocks, ctx, stk, fx, mt_current_task, cpu, test_pc, test_n, test_task, test_i>> /\ MT_TEST_ITERS' \in Nat
    BY <1>1, <1>7, ShellAssumption DEF StartTest, testVars
  <2>3. Tasks!TestInv'
    BY <1>1, <2>1, <2>2, TasksAssumption, Tasks!TestUnchanged DEF Tasks!mem
  <2> QED BY <2>1, <2>2, <2>3 DEF TestRuns
<1>8. CASE TestSwitches
  <2>1. Tasks!TestNext /\ prog = "test_multitask" /\ UNCHANGED prog
    BY <1>8, SameTestNext DEF TestSwitches, shellVars
  <2>2. Tasks!TestInv'
    BY <1>1, <2>1, TasksAssumption, Tasks!TestKeeps
  <2> QED BY <2>1, <2>2 DEF TestRuns
<1>9. CASE EndTest
  <2>1. CASE test_pc = "done"
    BY <1>9, <2>1, TestEndsAsBegun
  <2>2. CASE test_pc # "done"
    <3>1. UNCHANGED testVars /\ prog # "test_multitask"
      BY <1>9, <2>2 DEF EndTest, Tables
    <3> QED BY <1>2, <3>1 DEF TestRuns
  <2> QED BY <2>1, <2>2
<1> QED
  BY <1>3, <1>4, <1>5, <1>6, <1>7, <1>8, <1>9, MachineSteps

LEMMA TestAlwaysRuns == ShellSpec => []TestRuns
BY TestRunsFirst, TestRunsKept, PTL DEF ShellSpec

LEMMA TestIsSafe == TestRuns => NoTaskReturns /\ InTurns
<1>1. TestRuns => Tasks!NoTaskReturns /\ Tasks!InTurns
  BY TasksAssumption, Tasks!TestSafe DEF TestRuns
<1>2. Tasks!NoTaskReturns => NoTaskReturns
  BY DEF NoTaskReturns, Test!NoTaskReturns, Tasks!NoTaskReturns, Test!Live, Tasks!Live
<1>3. Tasks!InTurns => InTurns
  BY DEF InTurns, Test!InTurns, Tasks!InTurns
<1> QED
  BY <1>1, <1>2, <1>3

(* However often and with whatever number of iterations the command is     *)
(* run: no task returns from its entry point, nobody is switched to once   *)
(* its context is freed, ...                                               *)
THEOREM TasksNeverReturn == ShellSpec => []NoTaskReturns
BY TestAlwaysRuns, TestIsSafe, PTL

(* ... and the four print in turns. *)
THEOREM TasksTakeTurns == ShellSpec => []InTurns
BY TestAlwaysRuns, TestIsSafe, PTL

(* When the command is done all is as before it: every turn was taken,     *)
(* kernel_main is alone in the ring and the heap has its blocks back.  That*)
(* it gets there is EndsClean, which needs fairness.                       *)
THEOREM TestTidiesUp == ShellSpec => [](prog = "test_multitask" /\ test_pc = "done" => Test!AllTidy)
<1>1. TestRuns => (test_pc = "done" => Tasks!AllTidy)
  BY TasksAssumption, Tasks!TestSafe DEF TestRuns
<1>2. Tasks!AllTidy => Test!AllTidy
  BY DEF Test!AllTidy, Tasks!AllTidy, Test!AllCtxs, Tasks!AllCtxs, Test!Range, Tasks!Range
<1>3. TestRuns => (prog = "test_multitask" /\ test_pc = "done" => Test!AllTidy)
  BY <1>1, <1>2
<1> QED
  BY <1>3, TestAlwaysRuns, PTL

-----------------------------------------------------------------------------
(* The words of a command line.  Where they begin, and which one begins    *)
(* where.                                                                  *)
Inside(s)    == {j \in 1..Len(s) : s[j] # SP}
Begins(s)    == {j \in Inside(s) : j - 1 \notin Inside(s)}
BeginsTo(s, k) == {l \in Begins(s) : l <= k}
Nth(s, m)    == CHOOSE j \in Begins(s) : Cardinality(BeginsTo(s, j)) = m
WordEnd(s, j) == CHOOSE k \in Inside(s) : k >= j /\ k + 1 \notin Inside(s) /\ j..k \subseteq Inside(s)

LEMMA WordsAre ==
  ASSUME NEW s
  PROVE  Words(s) = [m \in 1..Cardinality(Begins(s)) |-> SubSeq(s, Nth(s, m), WordEnd(s, Nth(s, m)))]
BY DEF Words, Inside, Begins, BeginsTo, Nth, WordEnd

(* Sets of beginnings are finite, and one further on is one more.          *)
LEMMA BeginsFinite ==
  ASSUME NEW s, Len(s) \in Nat, NEW k \in Int
  PROVE  /\ IsFiniteSet(Begins(s)) /\ IsFiniteSet(BeginsTo(s, k))
         /\ Cardinality(BeginsTo(s, k)) \in Nat /\ Cardinality(Begins(s)) \in Nat
         /\ Cardinality(BeginsTo(s, k)) <= Cardinality(Begins(s))
<1>1. IsFiniteSet(1..Len(s))
  BY FS_Interval
<1>2. Begins(s) \subseteq 1..Len(s) /\ BeginsTo(s, k) \subseteq Begins(s)
  BY DEF Begins, Inside, BeginsTo
<1>3. IsFiniteSet(Begins(s))
  BY <1>1, <1>2, FS_Subset
<1>4. IsFiniteSet(BeginsTo(s, k)) /\ Cardinality(BeginsTo(s, k)) <= Cardinality(Begins(s))
  BY <1>2, <1>3, FS_Subset
<1> QED BY <1>3, <1>4, FS_CardinalityType

(* No two words have the same rank, and the ranks follow the line.         *)
LEMMA RanksGrow ==
  ASSUME NEW s, Len(s) \in Nat, NEW j \in Begins(s), NEW l \in Begins(s), j < l
  PROVE  Cardinality(BeginsTo(s, j)) < Cardinality(BeginsTo(s, l))
<1>1. j \in Int /\ l \in Int
  BY DEF Begins, Inside
<1>2. BeginsTo(s, j) \subseteq BeginsTo(s, l) /\ l \in BeginsTo(s, l) /\ l \notin BeginsTo(s, j)
  BY <1>1 DEF BeginsTo, Begins, Inside
<1>3. /\ IsFiniteSet(BeginsTo(s, l)) /\ Cardinality(BeginsTo(s, l)) \in Nat
      /\ Cardinality(BeginsTo(s, j)) \in Nat
  BY <1>1, BeginsFinite
<1>4. /\ Cardinality(BeginsTo(s, j)) <= Cardinality(BeginsTo(s, l))
      /\ Cardinality(BeginsTo(s, l)) = Cardinality(BeginsTo(s, j)) => BeginsTo(s, l) = BeginsTo(s, j)
  BY <1>2, <1>3, FS_Subset
<1> QED BY <1>2, <1>3, <1>4

LEMMA NthIs ==
  ASSUME NEW s, Len(s) \in Nat, NEW j \in Begins(s)
  PROVE  Nth(s, Cardinality(BeginsTo(s, j))) = j
<1>1. ASSUME NEW l \in Begins(s), Cardinality(BeginsTo(s, l)) = Cardinality(BeginsTo(s, j)) PROVE l = j
  <2>1. j \in Int /\ l \in Int
    BY DEF Begins, Inside
  <2>2. Cardinality(BeginsTo(s, j)) \in Nat
    BY <2>1, BeginsFinite
  <2>3. ~(j < l)
    BY <1>1, <2>2, RanksGrow
  <2>4. ~(l < j)
    BY <1>1, <2>2, RanksGrow
  <2> QED BY <2>1, <2>3, <2>4
<1> QED BY <1>1 DEF Nth

(* A word goes on to the next space or the end of the line. *)
LEMMA WordEnds ==
  ASSUME NEW s, Len(s) \in Nat, NEW j \in Begins(s)
  PROVE  /\ WordEnd(s, j) \in Inside(s) /\ WordEnd(s, j) \in j..Len(s)
         /\ WordEnd(s, j) + 1 \notin Inside(s) /\ j..WordEnd(s, j) \subseteq Inside(s)
<1> DEFINE n == Len(s)
           T == {k \in j..n : k + 1 \notin Inside(s)}
<1>1. j \in 1..n /\ j \in Inside(s)
  BY DEF Begins, Inside
<1>2. T \in SUBSET Nat /\ n \in T
  BY <1>1 DEF Inside
<1>3. PICK k \in T : \A l \in T : k <= l
  <2> HIDE DEF T
  <2> QED BY <1>2, Least
<1>4. k \in j..n /\ k + 1 \notin Inside(s)
  BY <1>3
<1> DEFINE gaps == {l \in Nat : l \in j..k /\ l \notin Inside(s)}
<1>5. gaps = {}
  <2> SUFFICES ASSUME gaps # {} PROVE FALSE
    OBVIOUS
  <2>1. PICK g \in gaps : \A l \in gaps : g <= l
    <3>1. gaps \in SUBSET Nat
      OBVIOUS
    <3> HIDE DEF gaps
    <3> QED BY <3>1, Least
  <2>2. g \in j..k /\ g \notin Inside(s) /\ g # j
    BY <1>1, <2>1
  <2>3. g - 1 \in j..n /\ (g - 1) + 1 = g /\ g - 1 < k
    BY <1>1, <1>4, <2>2
  <2>4. g - 1 \in T
    BY <2>2, <2>3
  <2> HIDE DEF T
  <2>5. k <= g - 1
    BY <1>3, <2>4
  <2> QED BY <1>1, <1>4, <2>3, <2>5
<1>6. j..k \subseteq Inside(s)
  BY <1>1, <1>4, <1>5
<1>7. k \in Inside(s) /\ k >= j
  BY <1>1, <1>4, <1>6
<1>8. /\ WordEnd(s, j) \in Inside(s) /\ WordEnd(s, j) >= j
      /\ WordEnd(s, j) + 1 \notin Inside(s) /\ j..WordEnd(s, j) \subseteq Inside(s)
  BY <1>4, <1>6, <1>7 DEF WordEnd
<1> QED BY <1>1, <1>8 DEF Inside

-----------------------------------------------------------------------------
(* The loop that fills argv.  After k characters:                          *)
NothingSplit == [pos |-> 0, was_space |-> TRUE, ends |-> {}, starts |-> <<>>]

Cuts(s) == {e \in 2..Len(s) : s[e] = SP /\ s[e - 1] # SP}

SplitInv(s, k, st) ==
  LET words == Len(st.starts) IN
  /\ st.pos \in 0..k
  /\ st.was_space <=> (st.pos = 0 \/ s[st.pos] = SP)
  /\ st.ends = {e \in Cuts(s) : e <= st.pos}
  /\ st.starts \in Seq(Nat)
  /\ words = Cardinality(BeginsTo(s, st.pos))
  /\ \A m \in 1..words : /\ st.starts[m] \in BeginsTo(s, st.pos)
                         /\ Cardinality(BeginsTo(s, st.starts[m])) = m
  /\ words <= MAX_ARGC - 1
  /\ IF words < MAX_ARGC - 1 THEN st.pos = k ELSE st.pos = st.starts[MAX_ARGC - 1]

LEMMA SplitStarts ==
  ASSUME NEW s, Len(s) \in Nat
  PROVE  SplitInv(s, 0, NothingSplit)
<1>1. BeginsTo(s, 0) = {} /\ {e \in Cuts(s) : e <= 0} = {}
  BY DEF BeginsTo, Begins, Inside, Cuts
<1>2. PICK e : e = <<>>
  OBVIOUS
<1>3. e \in Seq(Nat) /\ Len(e) = 0
  BY <1>2
<1>4. Cardinality({}) = 0
  BY FS_EmptySet
<1>5. /\ NothingSplit.pos = 0 /\ NothingSplit.was_space = TRUE /\ NothingSplit.ends = {}
      /\ NothingSplit.starts = e
  BY <1>2 DEF NothingSplit
<1>6. 0 <= MAX_ARGC - 1 /\ 0 < MAX_ARGC - 1 /\ 0 \in 0..0 /\ 1..0 = {}
  BY ShellAssumption
<1> QED BY <1>1, <1>3, <1>4, <1>5, <1>6 DEF SplitInv

LEMMA SplitGoesOn ==
  ASSUME NEW s, Len(s) \in Nat, NEW k \in 0..(Len(s) - 1), NEW st, SplitInv(s, k, st)
  PROVE  SplitInv(s, k + 1, SplitStep(st, s[k + 1]))
<1> DEFINE q == k + 1
           words == Len(st.starts)
           full == MAX_ARGC - 1
           c == s[q]
<1>1. /\ st.pos \in 0..k /\ words \in Nat /\ words <= full /\ full \in Nat \ {0}
      /\ st.starts \in Seq(Nat) /\ k \in Nat /\ q \in 1..Len(s)
  BY ShellAssumption DEF SplitInv
<1>2. CASE words >= full
  <2>1. SplitStep(st, c) = st /\ ~(words < full) /\ st.pos \in 0..q
    BY <1>1, <1>2 DEF SplitStep
  <2> QED BY <2>1 DEF SplitInv
<1>3. CASE words < full
  <2> DEFINE ns == SplitStep(st, c)
  <2>1. /\ st.pos = k
        /\ st.was_space <=> (k = 0 \/ s[k] = SP)
        /\ st.ends = {e \in Cuts(s) : e <= k}
        /\ words = Cardinality(BeginsTo(s, k))
        /\ \A m \in 1..words : /\ st.starts[m] \in BeginsTo(s, k)
                               /\ Cardinality(BeginsTo(s, st.starts[m])) = m
    BY <1>3 DEF SplitInv
  <2>2. /\ ns.pos = q /\ ns.was_space = (c = SP)
        /\ ns.ends = IF c = SP /\ ~st.was_space THEN st.ends \union {q} ELSE st.ends
        /\ ns.starts = IF c # SP /\ st.was_space THEN Append(st.starts, q) ELSE st.starts
    BY <1>1, <1>3, <2>1 DEF SplitStep
  <2>3. q \in Cuts(s) <=> c = SP /\ ~st.was_space
    BY <1>1, <2>1 DEF Cuts
  <2>4. q \in Begins(s) <=> c # SP /\ st.was_space
    BY <1>1, <2>1 DEF Begins, Inside
  <2>5. ns.ends = {e \in Cuts(s) : e <= q}
    <3>1. \A e \in Cuts(s) : e <= q <=> e <= k \/ e = q
      BY <1>1 DEF Cuts
    <3> HIDE DEF ns
    <3> QED BY <2>1, <2>2, <2>3, <3>1
  <2>6. BeginsTo(s, q) = IF q \in Begins(s) THEN BeginsTo(s, k) \union {q} ELSE BeginsTo(s, k)
    <3>1. \A e \in Begins(s) : e <= q <=> e <= k \/ e = q
      BY <1>1 DEF Begins, Inside
    <3> QED BY <3>1 DEF BeginsTo
  <2>7. q \notin BeginsTo(s, k) /\ IsFiniteSet(BeginsTo(s, k))
    BY <1>1, BeginsFinite DEF BeginsTo
  <2> HIDE DEF ns, full
  <2>8. CASE q \in Begins(s)
    <3>1. ns.starts = Append(st.starts, q) /\ c # SP
      BY <2>2, <2>4, <2>8
    <3>2. ns.starts \in Seq(Nat) /\ Len(ns.starts) = words + 1
          /\ ns.starts[words + 1] = q /\ \A m \in 1..words : ns.starts[m] = st.starts[m]
      BY <1>1, <3>1, AppendProperties
    <3>3. Cardinality(BeginsTo(s, q)) = words + 1
      <4>1. Cardinality(BeginsTo(s, k) \union {q}) = Cardinality(BeginsTo(s, k)) + 1
        BY <2>7, FS_AddElement
      <4> QED BY <2>1, <2>6, <2>8, <4>1
    <3>4. ASSUME NEW m \in 1..(words + 1)
          PROVE  ns.starts[m] \in BeginsTo(s, q) /\ Cardinality(BeginsTo(s, ns.starts[m])) = m
      <4>1. CASE m = words + 1
        BY <2>6, <2>8, <3>2, <3>3, <4>1
      <4>2. CASE m \in 1..words
        BY <2>1, <2>6, <3>2, <4>2
      <4> QED BY <1>1, <4>1, <4>2
    <3>5. words + 1 <= full /\ (~(words + 1 < full) => full = words + 1) /\ q \in 0..q
      BY <1>1, <1>3 DEF full
    <3>6. q # 0
      BY <1>1
    <3> HIDE DEF q, words, c
    <3>7. SplitInv(s, q, ns)
      BY <2>2, <2>5, <3>1, <3>2, <3>3, <3>4, <3>5, <3>6 DEF SplitInv, full, c
    <3> QED BY <3>7 DEF q, ns, c
  <2>9. CASE q \notin Begins(s)
    <3>1. ns.starts = st.starts
      BY <2>2, <2>4, <2>9
    <3>2. BeginsTo(s, q) = BeginsTo(s, k) /\ q \in 0..q /\ q # 0
      BY <1>1, <2>6, <2>9
    <3> HIDE DEF q, words, c
    <3>3. SplitInv(s, q, ns)
      BY <1>1, <1>3, <2>1, <2>2, <2>5, <3>1, <3>2 DEF SplitInv, full, c, words
    <3> QED BY <3>3 DEF q, ns, c
  <2> QED BY <2>8, <2>9
<1> QED BY <1>1, <1>2, <1>3

(* There are such states after 0, 1, ... characters, ...                   *)
LEMMA StatesExist ==
  ASSUME NEW s, NEW n0 \in Nat
  PROVE  \E g : g = [k \in 0..n0 |-> IF k = 0 THEN NothingSplit ELSE SplitStep(g[k - 1], s[k])]
<1> DEFINE Has(m) == \E g : g = [k \in 0..m |-> IF k = 0 THEN NothingSplit ELSE SplitStep(g[k - 1], s[k])]
           B == {m \in Nat : ~Has(m)}
<1>1. Has(0)
  <2> DEFINE f == [k \in 0..0 |-> NothingSplit]
  <2>1. \A k \in 0..0 : k = 0
    OBVIOUS
  <2>2. f = [k \in 0..0 |-> IF k = 0 THEN NothingSplit ELSE SplitStep(f[k - 1], s[k])]
    BY <2>1
  <2> QED BY <2>2
<1>2. ASSUME NEW m \in Nat, Has(m) PROVE Has(m + 1)
  <2>1. PICK g : g = [k \in 0..m |-> IF k = 0 THEN NothingSplit ELSE SplitStep(g[k - 1], s[k])]
    BY <1>2
  <2> DEFINE f == [k \in 0..(m + 1) |-> IF k <= m THEN g[k] ELSE SplitStep(g[m], s[m + 1])]
  <2>2. \A k \in 0..m : g[k] = IF k = 0 THEN NothingSplit ELSE SplitStep(g[k - 1], s[k])
    BY <2>1
  <2>3. ASSUME NEW k \in 0..(m + 1)
        PROVE  f[k] = IF k = 0 THEN NothingSplit ELSE SplitStep(f[k - 1], s[k])
    <3>1. CASE k = 0
      <4>1. k \in 0..m /\ k <= m
        BY <3>1
      <4> QED BY <2>2, <3>1, <4>1
    <3>2. CASE k # 0 /\ k <= m
      <4>1. k \in 0..m /\ k - 1 \in 0..(m + 1) /\ k - 1 <= m
        BY <3>2
      <4>2. f[k] = g[k] /\ f[k - 1] = g[k - 1]
        BY <3>2, <4>1
      <4> HIDE DEF f
      <4>3. g[k] = SplitStep(g[k - 1], s[k])
        BY <2>2, <3>2, <4>1
      <4> QED BY <3>2, <4>2, <4>3
    <3>3. CASE k = m + 1
      <4>1. m \in 0..(m + 1) /\ m <= m /\ ~(k <= m) /\ k - 1 = m /\ k # 0
        BY <3>3
      <4>2. f[k] = SplitStep(g[m], s[m + 1]) /\ f[m] = g[m]
        BY <4>1
      <4> HIDE DEF f
      <4> QED BY <3>3, <4>1, <4>2
    <3>4. k <= m \/ k = m + 1
      OBVIOUS
    <3> QED BY <3>1, <3>2, <3>3, <3>4
  <2>4. f = [k \in 0..(m + 1) |-> f[k]]
    OBVIOUS
  <2> HIDE DEF f
  <2>5. f = [k \in 0..(m + 1) |-> IF k = 0 THEN NothingSplit ELSE SplitStep(f[k - 1], s[k])]
    BY <2>3, <2>4
  <2> QED BY <2>5
<1>3. B = {}
  <2> SUFFICES ASSUME B # {} PROVE FALSE
    OBVIOUS
  <2>1. B \in SUBSET Nat /\ \A m \in Nat : m \in B <=> ~Has(m)
    OBVIOUS
  <2> HIDE DEF B, Has
  <2>2. PICK m \in B : \A k \in B : m <= k
    BY <2>1, Least
  <2>3. m \in Nat /\ m # 0 /\ ~Has(m)
    BY <1>1, <2>1
  <2>4. m - 1 \in Nat /\ m - 1 \notin B /\ (m - 1) + 1 = m
    BY <2>2, <2>3
  <2>5. Has(m - 1)
    BY <2>1, <2>4
  <2>6. Has((m - 1) + 1)
    BY <1>2, <2>4, <2>5
  <2> QED BY <2>3, <2>4, <2>6
<1>4. n0 \notin B
  BY <1>3
<1>5. Has(n0)
  BY <1>4
<1> QED BY <1>5

(* ... and the last one gives argv.                                        *)
CutOff(s, st, j) == CHOOSE e \in j .. Len(s) + 1 :
                      /\ e \in st.ends \union {Len(s) + 1}
                      /\ \A d \in st.ends : d >= j => e <= d

LEMMA SplitOf ==
  ASSUME NEW s, Len(s) \in Nat
  PROVE  \E st : /\ SplitInv(s, Len(s), st)
                 /\ Split(s) = [m \in 1..Len(st.starts) |->
                                  SubSeq(s, st.starts[m], CutOff(s, st, st.starts[m]) - 1)]
<1> DEFINE after == CHOOSE g : g = [k \in 0..Len(s) |-> IF k = 0 THEN NothingSplit ELSE SplitStep(g[k - 1], s[k])]
           last == after[Len(s)]
<1>1. Split(s) = [m \in 1..Len(last.starts) |->
                    SubSeq(s, last.starts[m], CutOff(s, last, last.starts[m]) - 1)]
  BY DEF Split, CutOff, NothingSplit
<1>2. after = [k \in 0..Len(s) |-> IF k = 0 THEN NothingSplit ELSE SplitStep(after[k - 1], s[k])]
  BY StatesExist, Zenon
<1> HIDE DEF after
<1>3. \A k \in 0..Len(s) : after[k] = IF k = 0 THEN NothingSplit ELSE SplitStep(after[k - 1], s[k])
  BY <1>2
<1> DEFINE B == {k \in 0..Len(s) : ~SplitInv(s, k, after[k])}
<1>4. B = {}
  <2> SUFFICES ASSUME B # {} PROVE FALSE
    OBVIOUS
  <2>1. B \in SUBSET Nat /\ (\A k \in B : k \in 0..Len(s) /\ ~SplitInv(s, k, after[k]))
        /\ \A k \in 0..Len(s) : k \notin B => SplitInv(s, k, after[k])
    OBVIOUS
  <2> HIDE DEF B
  <2>2. PICK m \in B : \A k \in B : m <= k
    BY <2>1, Least
  <2>3. m # 0
    <3>1. 0 \in 0..Len(s) /\ after[0] = NothingSplit
      BY <1>3
    <3>2. SplitInv(s, 0, after[0])
      BY <3>1, SplitStarts
    <3> QED BY <2>1, <3>2
  <2>4. m \in 0..Len(s) /\ m - 1 \in 0..(Len(s) - 1) /\ m - 1 \in 0..Len(s) /\ m - 1 \notin B /\ (m - 1) + 1 = m
    BY <2>1, <2>2, <2>3
  <2>5. SplitInv(s, m - 1, after[m - 1])
    BY <2>1, <2>4
  <2>6. SplitInv(s, (m - 1) + 1, SplitStep(after[m - 1], s[(m - 1) + 1]))
    BY <2>4, <2>5, SplitGoesOn
  <2>7. after[m] = SplitStep(after[m - 1], s[m])
    BY <1>3, <2>3, <2>4
  <2>8. SplitInv(s, m, after[m])
    BY <2>4, <2>6, <2>7
  <2> QED BY <2>1, <2>8
<1>5. SplitInv(s, Len(s), last)
  BY <1>4
<1> QED BY <1>1, <1>5

(* A word that is cut off ends where the line's word ends; ...             *)
LEMMA CutIsWordEnd ==
  ASSUME NEW s, Len(s) \in Nat, NEW st, NEW j \in Begins(s), st.ends \subseteq Cuts(s),
         WordEnd(s, j) = Len(s) \/ WordEnd(s, j) + 1 \in st.ends
  PROVE  CutOff(s, st, j) = WordEnd(s, j) + 1
<1> DEFINE n0 == Len(s)
           z == WordEnd(s, j)
           Is(e) == /\ e \in st.ends \union {n0 + 1}
                    /\ \A d \in st.ends : d >= j => e <= d
<1>1. j \in 1..n0 /\ z \in j..n0 /\ j..z \subseteq Inside(s)
  BY WordEnds DEF Begins, Inside
<1>2. \A d \in st.ends : d \in 2..n0 /\ d \notin Inside(s)
  BY DEF Cuts, Inside
<1> HIDE DEF z
<1>3. \A d \in st.ends : d >= j => z + 1 <= d
  BY <1>1, <1>2
<1>4. z + 1 \in j..(n0 + 1) /\ Is(z + 1)
  BY <1>1, <1>3 DEF z
<1>5. ASSUME NEW e \in j..(n0 + 1), Is(e) PROVE e = z + 1
  <2>1. CASE e \in st.ends
    <3>1. z + 1 <= e /\ e <= n0
      BY <1>2, <1>3, <2>1
    <3>2. z + 1 \in st.ends
      BY <1>1, <3>1 DEF z
    <3>3. e <= z + 1
      BY <1>1, <1>5, <3>2
    <3> QED BY <1>1, <3>1, <3>3
  <2>2. CASE e = n0 + 1
    <3>1. CASE z + 1 \in st.ends
      <4>1. e <= z + 1 /\ z + 1 <= n0
        BY <1>1, <1>2, <1>5, <3>1
      <4> QED BY <1>1, <2>2, <4>1
    <3>2. CASE z = n0
      BY <2>2, <3>2
    <3> QED BY <3>1, <3>2 DEF z
  <2> QED BY <1>5, <2>1, <2>2
<1>6. CutOff(s, st, j) = CHOOSE e \in j..(n0 + 1) : Is(e)
  BY DEF CutOff
<1> HIDE DEF Is, n0
<1> QED BY <1>4, <1>5, <1>6 DEF z

(* ... one behind which nothing was cut goes on to the end of the line.    *)
LEMMA NoCut ==
  ASSUME NEW s, Len(s) \in Nat, NEW st, NEW j \in 1..Len(s), st.ends \subseteq Cuts(s),
         \A d \in st.ends : ~(d >= j)
  PROVE  CutOff(s, st, j) = Len(s) + 1
<1> DEFINE Is(e) == /\ e \in st.ends \union {Len(s) + 1}
                    /\ \A d \in st.ends : d >= j => e <= d
<1>1. Len(s) + 1 \in j..(Len(s) + 1) /\ Is(Len(s) + 1)
  OBVIOUS
<1>2. ASSUME NEW e \in j..(Len(s) + 1), Is(e) PROVE e = Len(s) + 1
  BY <1>2
<1>3. CutOff(s, st, j) = CHOOSE e \in j..(Len(s) + 1) : Is(e)
  BY DEF CutOff
<1> HIDE DEF Is
<1> QED BY <1>1, <1>2, <1>3

LEMMA SplitIsWords ==
  ASSUME NEW S, NEW s \in Seq(S)
  PROVE  LET words == Words(s) full == MAX_ARGC - 1 IN
         IF Len(words) < full THEN Split(s) = words
         ELSE /\ Len(Split(s)) = full /\ SubSeq(Split(s), 1, full - 1) = SubSeq(words, 1, full - 1)
              /\ \E j \in 1..Len(s) : Split(s)[full] = SubSeq(s, j, Len(s))
              /\ words[full] = SubSeq(Split(s)[full], 1, Len(words[full]))
<1> DEFINE n0 == Len(s)
           full == MAX_ARGC - 1
           number == Cardinality(Begins(s))
           words == Words(s)
<1>0. n0 \in Nat /\ full \in Nat \ {0} /\ number \in Nat /\ IsFiniteSet(Begins(s))
  BY BeginsFinite, ShellAssumption
<1>1. PICK st : /\ SplitInv(s, n0, st)
                /\ Split(s) = [m \in 1..Len(st.starts) |->
                                 SubSeq(s, st.starts[m], CutOff(s, st, st.starts[m]) - 1)]
  BY <1>0, SplitOf
<1> DEFINE got == Len(st.starts)
           z(m) == WordEnd(s, st.starts[m])
<1>2. /\ got \in Nat /\ st.pos \in 0..n0 /\ got <= full
      /\ got = Cardinality(BeginsTo(s, st.pos))
      /\ \A m \in 1..got : /\ st.starts[m] \in BeginsTo(s, st.pos)
                           /\ Cardinality(BeginsTo(s, st.starts[m])) = m
      /\ IF got < full THEN st.pos = n0 ELSE st.pos = st.starts[full]
      /\ st.ends = {e \in Cuts(s) : e <= st.pos}
  BY <1>1 DEF SplitInv
<1>3. got <= number /\ (got < full => got = number)
  <2>1. got <= number
    <3>1. st.pos \in Int
      BY <1>2
    <3> QED BY <1>0, <1>2, <3>1, BeginsFinite
  <2>2. BeginsTo(s, n0) = Begins(s)
    BY <1>0 DEF BeginsTo, Begins, Inside
  <2> QED BY <1>2, <2>1, <2>2
<1>4. ASSUME NEW m \in 1..got
      PROVE  /\ st.starts[m] \in Begins(s) /\ st.starts[m] <= st.pos /\ st.starts[m] \in 1..n0
             /\ z(m) \in st.starts[m]..n0 /\ z(m) + 1 \notin Inside(s)
             /\ z(m) \in Inside(s) /\ st.starts[m]..z(m) \subseteq Inside(s)
             /\ Nth(s, m) = st.starts[m]
  <2>1. st.starts[m] \in Begins(s) /\ st.starts[m] <= st.pos /\ Cardinality(BeginsTo(s, st.starts[m])) = m
    BY <1>2 DEF BeginsTo
  <2>2. Nth(s, m) = st.starts[m]
    BY <1>0, <2>1, NthIs
  <2>3. st.starts[m] \in 1..n0
    BY <2>1 DEF Begins, Inside
  <2> QED BY <1>0, <2>1, <2>2, <2>3, WordEnds
<1>5. words = [m \in 1..number |-> SubSeq(s, Nth(s, m), WordEnd(s, Nth(s, m)))]
  BY WordsAre
<1> HIDE DEF words, number
<1>6. Len(words) = number /\ \A m \in 1..got : words[m] = SubSeq(s, st.starts[m], z(m))
  <2>1. Len(words) = number
    BY <1>0, <1>5
  <2>2. \A m \in 1..got : m \in 1..number
    BY <1>0, <1>2, <1>3
  <2> HIDE DEF got, z
  <2>3. ASSUME NEW m \in 1..got PROVE words[m] = SubSeq(s, st.starts[m], z(m))
    BY <1>4, <1>5, <2>2, <2>3 DEF z
  <2> QED BY <2>1, <2>3
<1>7. \A m \in 1..got : Split(s)[m] = SubSeq(s, st.starts[m], CutOff(s, st, st.starts[m]) - 1)
  BY <1>1
<1>8. ASSUME NEW m \in 1..got, got < full \/ m < full PROVE Split(s)[m] = words[m]
  <2> DEFINE j == st.starts[m]
             y == z(m)
  <2>1. j \in Begins(s) /\ j \in 1..n0 /\ y \in j..n0 /\ y + 1 \notin Inside(s) /\ y \in Inside(s)
        /\ j..y \subseteq Inside(s)
    BY <1>4
  <2>2. y = n0 \/ y + 1 \in Cuts(s)
    BY <1>0, <2>1 DEF Cuts, Inside
  <2>3. y = n0 \/ y + 1 <= st.pos
    <3>1. CASE got < full
      <4>1. st.pos = n0
        BY <1>2, <3>1
      <4> HIDE DEF y, j
      <4> QED BY <1>0, <2>1, <4>1
    <3>2. CASE ~(got < full)
      <4>1. got = full /\ m < full /\ m + 1 \in 1..got
        BY <1>0, <1>2, <1>8, <3>2
      <4> DEFINE l == st.starts[m + 1]
      <4>2. l \in Begins(s) /\ l <= st.pos /\ l \in 1..n0
        BY <1>4, <4>1
      <4>3. Cardinality(BeginsTo(s, l)) = m + 1 /\ Cardinality(BeginsTo(s, j)) = m
        BY <1>2, <4>1
      <4> HIDE DEF l, j, y
      <4>4. j < l
        <5>1. ~(l < j)
          BY <1>0, <2>1, <4>2, <4>3, RanksGrow
        <5>2. l # j
          BY <4>3
        <5> QED BY <2>1, <4>2, <5>1, <5>2
      <4>5. ~(l <= y)
        <5> SUFFICES ASSUME l <= y PROVE FALSE
          OBVIOUS
        <5>1. l - 1 \in j..y
          BY <2>1, <4>2, <4>4
        <5> QED BY <2>1, <4>2, <5>1 DEF Begins
      <4> QED BY <1>2, <2>1, <4>2, <4>5
    <3> QED BY <3>1, <3>2
  <2>4. y = n0 \/ y + 1 \in st.ends
    BY <1>2, <2>2, <2>3
  <2>5. CutOff(s, st, j) = y + 1
    BY <1>0, <1>2, <2>1, <2>4, CutIsWordEnd
  <2>6. (y + 1) - 1 = y
    BY <1>0, <2>1
  <2> HIDE DEF y, j
  <2>7. Split(s)[m] = SubSeq(s, j, CutOff(s, st, j) - 1)
    BY <1>7 DEF j
  <2>8. words[m] = SubSeq(s, j, y)
    BY <1>6 DEF j, y
  <2> QED BY <2>5, <2>6, <2>7, <2>8
<1>9. Split(s) = [m \in 1..got |-> Split(s)[m]] /\ Len(Split(s)) = got
  <2>1. Split(s) = [m \in 1..got |-> SubSeq(s, st.starts[m], CutOff(s, st, st.starts[m]) - 1)]
    BY <1>1
  <2>2. got \in Nat
    BY <1>2
  <2> HIDE DEF got
  <2>3. PICK q : q = Split(s)
    OBVIOUS
  <2> DEFINE e(m) == SubSeq(s, st.starts[m], CutOff(s, st, st.starts[m]) - 1)
  <2>4. q = [m \in 1..got |-> e(m)]
    BY <2>1, <2>3
  <2> HIDE DEF e
  <2>5. q = [m \in 1..got |-> q[m]] /\ Len(q) = got
    BY <2>2, <2>4
  <2> QED BY <2>3, <2>5
<1>10. CASE got < full
  <2>1. got = number /\ Len(words) < full
    BY <1>3, <1>6, <1>10
  <2>2. words = [m \in 1..number |-> words[m]]
    BY <1>5
  <2>3. \A m \in 1..got : Split(s)[m] = words[m]
    BY <1>8, <1>10
  <2> HIDE DEF got, full
  <2>4. Split(s) = words
    BY <1>9, <2>1, <2>2, <2>3
  <2> QED BY <2>1, <2>4 DEF words, full
<1>11. CASE ~(got < full)
  <2>1. got = full /\ ~(Len(words) < full) /\ Len(Split(s)) = full /\ full \in 1..got
    <3>1. got \in Nat /\ got <= full /\ got <= number
      BY <1>2, <1>3
    <3>2. Len(words) = number /\ Len(Split(s)) = got
      BY <1>6, <1>9
    <3> HIDE DEF got, full
    <3>3. got = full /\ ~(number < full)
      BY <1>0, <1>11, <3>1
    <3> QED BY <1>0, <3>2, <3>3
  <2>2. SubSeq(Split(s), 1, full - 1) = SubSeq(words, 1, full - 1)
    <3>1. \A m \in 1..(full - 1) : Split(s)[m] = words[m]
      BY <1>0, <1>8, <2>1
    <3>2. PICK a, b : a = Split(s) /\ b = words
      OBVIOUS
    <3> HIDE DEF full
    <3>3. \A m \in 1..(full - 1) : a[m] = b[m]
      BY <3>1, <3>2
    <3>4. SubSeq(a, 1, full - 1) = SubSeq(b, 1, full - 1)
      BY <1>0, <3>3
    <3> QED BY <3>2, <3>4
  <2> DEFINE j == st.starts[full]
             y == z(full)
  <2>3. j \in Begins(s) /\ j \in 1..n0 /\ y \in j..n0 /\ st.pos = j
    BY <1>2, <1>4, <1>11, <2>1
  <2>4. \A d \in st.ends : ~(d >= j)
    <3>1. \A d \in st.ends : d \in Cuts(s) /\ d <= j
      BY <1>2, <2>3
    <3>2. j \notin Cuts(s)
      BY <2>3 DEF Begins, Inside, Cuts
    <3> HIDE DEF j
    <3> QED BY <2>3, <3>1, <3>2 DEF Cuts
  <2>5. CutOff(s, st, j) = n0 + 1
    BY <1>0, <1>2, <2>3, <2>4, NoCut
  <2> HIDE DEF j, y
  <2>6. Split(s)[full] = SubSeq(s, j, n0)
    <3>1. Split(s)[full] = SubSeq(s, j, CutOff(s, st, j) - 1)
      BY <1>7, <2>1 DEF j
    <3>2. (n0 + 1) - 1 = n0
      BY <1>0
    <3> QED BY <2>5, <3>1, <3>2
  <2>7. words[full] = SubSeq(s, j, y)
    BY <1>6, <2>1 DEF j, y
  <2>8. Len(SubSeq(s, j, y)) = y - j + 1 /\ y - j + 1 \in 1..(n0 - j + 1)
    BY <1>0, <2>3
  <2>9. SubSeq(SubSeq(s, j, n0), 1, y - j + 1) = SubSeq(s, j, y)
    <3>1. n0 \in 1..n0 /\ 1 \in 1..(n0 - j + 1)
      BY <1>0, <2>3
    <3>2. SubSeq(SubSeq(s, j, n0), 1, y - j + 1) = SubSeq(s, j + 1 - 1, j + (y - j + 1) - 1)
      BY <2>3, <2>8, <3>1, SubSeqOfSubSeq
    <3>3. j + 1 - 1 = j /\ j + (y - j + 1) - 1 = y
      BY <2>3
    <3> QED BY <3>2, <3>3
  <2>10. words[full] = SubSeq(Split(s)[full], 1, Len(words[full]))
    BY <2>6, <2>7, <2>8, <2>9
  <2>11. \E k \in 1..n0 : Split(s)[full] = SubSeq(s, k, n0)
    BY <2>3, <2>6
  <2> QED BY <2>1, <2>2, <2>10, <2>11 DEF words
<1> QED BY <1>10, <1>11

-----------------------------------------------------------------------------
(* What is left of a line ends with its newline, so the loop of sh_main    *)
(* finds one, and leaves room for the '\0'.                                *)
Typed == (UNION {{line[j] : j \in DOMAIN line} : line \in Lines}) \union {NL}

Ended(s) == s \in Seq(Typed) /\ (s # <<>> => s[Len(s)] = NL)

LEMMA TypedEnds == ASSUME NEW l \in Lines PROVE Ended(Append(l, NL)) /\ Append(l, NL) # <<>>
<1>1. l \in Seq(Typed)
  <2> DEFINE T == UNION {{line[j] : j \in DOMAIN line} : line \in Lines}
  <2>1. l \in Seq(T)
    BY ShellAssumption
  <2>2. T \subseteq Typed
    BY DEF Typed
  <2> HIDE DEF T
  <2> QED BY <2>1, <2>2, SeqMonotonic
<1>2. NL \in Typed
  BY DEF Typed
<1>3. /\ Append(l, NL) \in Seq(Typed) /\ Len(Append(l, NL)) = Len(l) + 1
      /\ Append(l, NL)[Len(l) + 1] = NL
  BY <1>1, <1>2, AppendProperties
<1>4. Len(l) \in Nat
  BY <1>1
<1> QED BY <1>1, <1>3, <1>4 DEF Ended

LEMMA TakenFits ==
  ASSUME NEW s, Ended(s), s # <<>>
  PROVE  Taken(s) \in 0..(Len(s) - 1) /\ Taken(s) < MAX_CMD_SZ
<1>1. s \in Seq(Typed) /\ Len(s) \in Nat \ {0} /\ s[Len(s)] = NL
  BY DEF Ended
<1> DEFINE T == {j \in 1..Len(s) : s[j] = NL}
<1>2. PICK j \in T : \A l \in T : j <= l
  <2>1. T \in SUBSET Nat /\ Len(s) \in T
    BY <1>1
  <2> HIDE DEF T
  <2> QED BY <2>1, Least
<1>3. j \in 1..Len(s) /\ s[j] = NL /\ \A l \in 1..(j - 1) : s[l] # NL
  <2>1. \A l \in 1..(j - 1) : l \in 1..Len(s) /\ l < j
    BY <1>2
  <2> QED BY <1>2, <2>1
<1>4. PosOf(NL, s) \in 1..Len(s)
  BY <1>3 DEF PosOf
<1> QED BY <1>1, <1>4, ShellAssumption DEF Taken

WordsInv == Ended(rest) /\ ArgvIsWords

LEMMA WordsStart == ShellInit => WordsInv
<1> SUFFICES ASSUME ShellInit PROVE WordsInv
  OBVIOUS
<1>1. <<>> \in Seq(Typed)
  OBVIOUS
<1> QED BY <1>1 DEF ShellInit, WordsInv, Ended, ArgvIsWords

LEMMA ReadLineSplits == ASSUME WordsInv, ReadLine PROVE WordsInv'
<1>1. PICK s : /\ Ended(s) /\ s # <<>>
               /\ cur_cmd' = SubSeq(s, 1, Taken(s)) /\ argv' = Split(cur_cmd')
               /\ rest' = SubSeq(s, Taken(s) + 2, Len(s))
  BY TypedEnds DEF ReadLine, WordsInv
<1> DEFINE t == Taken(s)
<1>2. t \in 0..(Len(s) - 1) /\ t < MAX_CMD_SZ /\ s \in Seq(Typed) /\ Len(s) \in Nat /\ s[Len(s)] = NL
  BY <1>1, TakenFits DEF Ended
<1> HIDE DEF t
<1>3. \A k \in 1..Len(s) : s[k] \in Typed
  BY <1>2, ElementOfSeq
<1>4. PICK cmd : cmd = SubSeq(s, 1, t)
  OBVIOUS
<1>5. cmd \in Seq(Typed) /\ Len(cmd) < MAX_CMD_SZ
  <2>1. \A k \in 1..t : s[k] \in Typed
    BY <1>2, <1>3
  <2>2. t \in Int
    BY <1>2
  <2>3. SubSeq(s, 1, t) \in Seq(Typed) /\ Len(SubSeq(s, 1, t)) = IF 1 <= t THEN t - 1 + 1 ELSE 0
    BY <2>1, <2>2, SubSeqProperties
  <2> QED BY <1>2, <1>4, <2>3, ShellAssumption
<1>6. Ended(rest')
  <2> DEFINE r == SubSeq(s, t + 2, Len(s))
  <2>1. \A k \in (t + 2)..Len(s) : s[k] \in Typed
    BY <1>2, <1>3
  <2>2. t + 2 \in Int /\ Len(s) \in Int
    BY <1>2
  <2>3. /\ r \in Seq(Typed) /\ Len(r) = IF t + 2 <= Len(s) THEN Len(s) - (t + 2) + 1 ELSE 0
        /\ \A k \in 1..(Len(s) - (t + 2) + 1) : r[k] = s[(t + 2) + k - 1]
    BY <2>1, <2>2, SubSeqProperties
  <2> HIDE DEF r
  <2>4. r # <<>> => r[Len(r)] = NL
    <3> SUFFICES ASSUME r # <<>> PROVE r[Len(r)] = NL
      OBVIOUS
    <3>1. Len(r) # 0
      BY <2>3
    <3>2. Len(r) = Len(s) - (t + 2) + 1 /\ Len(r) \in 1..(Len(s) - (t + 2) + 1)
      BY <1>2, <2>3, <3>1
    <3>3. (t + 2) + Len(r) - 1 = Len(s)
      BY <1>2, <3>2
    <3> QED BY <1>2, <2>3, <3>2, <3>3
  <2> QED BY <1>1, <2>3, <2>4 DEF Ended, r, t
<1>7. cur_cmd' = cmd /\ argv' = Split(cmd)
  BY <1>1, <1>4 DEF t
<1>8. ArgvIsWords'
  <2>1. LET words == Words(cmd) full == MAX_ARGC - 1 IN
        IF Len(words) < full THEN Split(cmd) = words
        ELSE /\ Len(Split(cmd)) = full /\ SubSeq(Split(cmd), 1, full - 1) = SubSeq(words, 1, full - 1)
             /\ \E j \in 1..Len(cmd) : Split(cmd)[full] = SubSeq(cmd, j, Len(cmd))
             /\ words[full] = SubSeq(Split(cmd)[full], 1, Len(words[full]))
    BY <1>5, SplitIsWords
  <2> QED BY <1>5, <1>7, <2>1 DEF ArgvIsWords
<1> QED BY <1>6, <1>8 DEF WordsInv

LEMMA KeyIsRead == ASSUME NEW c, Ended(rest), GetKey(c) PROVE Ended(rest')
<1>1. CASE rest # <<>>
  <2>1. rest' = Tail(rest) /\ rest \in Seq(Typed) /\ rest[Len(rest)] = NL /\ Len(rest) \in Nat \ {0}
    BY <1>1 DEF GetKey, Ended
  <2>2. /\ Tail(rest) \in Seq(Typed) /\ Len(Tail(rest)) = Len(rest) - 1
        /\ \A k \in 1..Len(Tail(rest)) : Tail(rest)[k] = rest[k + 1]
    BY <1>1, <2>1, HeadTailProperties
  <2>3. PICK r : r = Tail(rest)
    OBVIOUS
  <2>4. r # <<>> => r[Len(r)] = NL
    <3> SUFFICES ASSUME r # <<>> PROVE r[Len(r)] = NL
      OBVIOUS
    <3>1. Len(r) \in 1..Len(r) /\ Len(r) + 1 = Len(rest)
      BY <2>1, <2>2, <2>3
    <3> QED BY <2>1, <2>2, <2>3, <3>1
  <2> QED BY <2>1, <2>2, <2>3, <2>4 DEF Ended
<1>2. CASE rest = <<>>
  BY <1>2 DEF GetKey
<1> QED BY <1>1, <1>2

LEMMA WordsKept == WordsInv /\ [ShellNext]_allVars => WordsInv'
<1> SUFFICES ASSUME WordsInv, [ShellNext]_allVars PROVE WordsInv'
  OBVIOUS
<1>1. CASE ReadLine
  BY <1>1, ReadLineSplits
<1>2. ASSUME UNCHANGED rest, prog' # "execute" PROVE WordsInv'
  BY <1>2 DEF WordsInv, ArgvIsWords
<1>3. ASSUME UNCHANGED <<rest, prog, cur_cmd, argv>> PROVE WordsInv'
  BY <1>3 DEF WordsInv, ArgvIsWords
<1>4. CASE BootUp
  BY <1>2, <1>4 DEF BootUp
<1>5. CASE UNCHANGED shellVars
  BY <1>3, <1>5 DEF shellVars
<1>6. CASE RunUnknown \/ RunRefused \/ RunQuick \/ RunLast \/ RunQuit
  <2>1. UNCHANGED rest
    BY <1>6 DEF RunUnknown, RunRefused, RunQuick, RunLast, RunQuit, Runs, Called
  <2>2. CASE RunQuit
    BY <1>2, <2>1, <2>2 DEF RunQuit
  <2>3. CASE RunUnknown \/ RunRefused \/ RunQuick \/ RunLast
    <3>1. prog' = "prompt"
      BY <2>3 DEF RunUnknown, RunRefused, RunQuick, RunLast, AtPrompt
    <3> QED BY <1>2, <2>1, <3>1
  <2> QED BY <1>6, <2>2, <2>3
<1>7. CASE StartBeeper \/ StartPiano \/ StartGame \/ StartMandelbrot \/ StartDate \/ StartTest
  <2>1. PICK name \in Beepers \union Games \union Tables \union {"piano", "mandelbrot", "date", "test_multitask"} : StartsAs(name)
    BY <1>7 DEF StartBeeper, StartPiano, StartGame, StartMandelbrot, StartDate, StartTest, Games
  <2>2. UNCHANGED rest /\ prog' = name /\ name # "execute"
    BY <2>1 DEF StartsAs, Runs, Called, Beepers, Games, Tables
  <2> QED BY <1>2, <2>2
<1>8. CASE EndBeeper \/ EndPiano \/ PrintDate \/ EndDate \/ EndTest
  BY <1>2, <1>8 DEF EndBeeper, EndPiano, PrintDate, EndDate, EndTest, Ends
<1>9. CASE PlayGame \/ EndGame
  <2>1. Ended(rest') /\ prog' # "execute"
    BY <1>9, KeyIsRead DEF PlayGame, EndGame, WordsInv, Games
  <2> QED BY <2>1 DEF WordsInv, ArgvIsWords
<1>10. CASE KeysMove \/ Sound \/ ReadClock \/ ClockGoesOn \/ Prints \/ TestSwitches
  BY <1>3, <1>5, <1>10 DEF KeysMove, Sound, ReadClock, ClockGoesOn, Prints, TestSwitches, shellVars
<1> QED BY <1>1, <1>4, <1>5, <1>6, <1>7, <1>8, <1>9, <1>10, MachineSteps DEF allVars

(* argv has the words of the line, of any length, in any order of          *)
(* commands; with too many, all but the last of those there is room for.   *)
THEOREM WordsAreSplit == ShellSpec => []ArgvIsWords
<1>1. WordsInv => ArgvIsWords
  BY DEF WordsInv
<1> QED BY <1>1, WordsStart, WordsKept, PTL DEF ShellSpec

-----------------------------------------------------------------------------
(* What the programs print: of a song how many of its tones are over.      *)
BeeperInv ==
  /\ beeper \in [at : {"idle", "loop", "play", "clear", "done"}, left : 0..(MaxRounds + 2), exits : BOOLEAN]
  /\ beeper.at \in {"play", "clear"} => beeper.left # 0

LEMMA BeeperStarts == ASSUME NEW new, \/ new = NoBeeper
                                     \/ new = [at |-> "play", left |-> 1, exits |-> FALSE]
                                     \/ \E k \in 0..(MaxRounds + 2) : new = [at |-> "loop", left |-> k, exits |-> TRUE],
                      beeper' = new
                      PROVE  BeeperInv'
<1> DEFINE Kinds == [at : {"idle", "loop", "play", "clear", "done"}, left : 0..(MaxRounds + 2), exits : BOOLEAN]
<1>1. MaxRounds \in Nat /\ 0 \in 0..(MaxRounds + 2) /\ 1 \in 0..(MaxRounds + 2)
  BY SpeakerAssumption
<1>2. CASE new = NoBeeper
  <2>1. new \in Kinds /\ new.at = "idle"
    BY <1>1, <1>2 DEF NoBeeper
  <2> QED BY <2>1 DEF BeeperInv
<1>3. CASE new = [at |-> "play", left |-> 1, exits |-> FALSE]
  <2>1. new \in Kinds /\ new.at = "play" /\ new.left # 0
    BY <1>1, <1>3
  <2> QED BY <2>1 DEF BeeperInv
<1>4. CASE \E k \in 0..(MaxRounds + 2) : new = [at |-> "loop", left |-> k, exits |-> TRUE]
  <2>1. new \in Kinds /\ new.at = "loop"
    BY <1>4
  <2> QED BY <2>1 DEF BeeperInv
<1> QED BY <1>2, <1>3, <1>4

LEMMA BeeperGoesOn == ASSUME BeeperInv, BeeperStep PROVE BeeperInv'
<1>1. CASE BeepLoop
  BY <1>1 DEF BeepLoop, BeeperInv
<1>2. CASE BeepOn
  BY <1>2 DEF BeepOn, BeeperInv
<1>3. CASE BeepOff
  <2>1. MaxRounds \in Nat /\ beeper.left \in 0..(MaxRounds + 2) /\ beeper.left # 0
    BY <1>3, SpeakerAssumption DEF BeepOff, BeeperInv
  <2>2. PICK k \in Int : k = IF beeper.left = Endless THEN beeper.left ELSE beeper.left - 1
    BY <2>1
  <2>3. k \in 0..(MaxRounds + 2)
    BY <2>1, <2>2
  <2>4. beeper' = [beeper EXCEPT !.at = IF beeper.exits THEN "loop" ELSE "done", !.left = k]
    BY <1>3, <2>2, Zenon DEF BeepOff
  <2> QED BY <2>3, <2>4 DEF BeeperInv
<1> QED BY <1>1, <1>2, <1>3 DEF BeeperStep

LEMMA BeepersKept == BeeperInv /\ [ShellNext]_allVars => BeeperInv'
<1> SUFFICES ASSUME BeeperInv, [ShellNext]_allVars PROVE BeeperInv'
  OBVIOUS
<1>1. ASSUME beeper' = beeper PROVE BeeperInv'
  BY <1>1 DEF BeeperInv
<1>2. CASE UNCHANGED allVars
  BY <1>1, <1>2 DEF allVars, toolVars, speakerVars
<1>3. CASE BootUp \/ ReadLine \/ RunUnknown \/ RunRefused \/ RunQuick \/ RunLast \/ RunQuit
  BY <1>1, <1>3 DEF BootUp, ReadLine, RunUnknown, RunRefused, RunQuick, RunLast, RunQuit, AtPrompt, toolVars, speakerVars
<1>4. CASE StartPiano
  BY <1>1, <1>4 DEF StartPiano, PianoStart
<1>5. CASE StartGame \/ StartMandelbrot \/ StartDate \/ StartTest
  BY <1>1, <1>5 DEF StartGame, StartMandelbrot, StartDate, StartTest, toolVars, speakerVars
<1>6. CASE KeysMove \/ PlayGame \/ EndGame
  BY <1>1, <1>6 DEF KeysMove, PlayGame, EndGame, speakerVars
<1>7. CASE EndPiano
  BY <1>1, <1>7 DEF EndPiano, PianoExit
<1>8. CASE ReadClock \/ ClockGoesOn \/ PrintDate \/ EndDate
  BY <1>1, <1>8 DEF ReadClock, ClockGoesOn, PrintDate, EndDate, speakerVars
<1>9. CASE Prints \/ TestSwitches \/ EndTest
  BY <1>1, <1>9 DEF Prints, TestSwitches, EndTest, toolVars, speakerVars
<1>10. CASE EndBeeper
  BY <1>10, BeeperStarts, Zenon DEF EndBeeper
<1>11. CASE Sound
  <2>1. CASE PianoStep
    BY <1>1, <2>1 DEF PianoStep, PianoLoop, Scan, Choose, speakerVars
  <2> QED BY <1>11, <2>1, BeeperGoesOn DEF Sound
<1>12. CASE StartBeeper
  <2>1. cmd_beep \/ cmd_metronome \/ cmd_play \/ main_piano_random
    <3>1. PICK name \in Beepers :
            CASE name = "beep" -> cmd_beep
              [] name = "metronome" -> cmd_metronome
              [] name = "play" -> cmd_play
              [] name = "piano_random" -> main_piano_random
      BY <1>12 DEF StartBeeper
    <3>2. name \in {"beep", "metronome", "play", "piano_random"}
      BY DEF Beepers
    <3> QED BY <3>1, <3>2
  <2>2. \/ beeper' = [at |-> "play", left |-> 1, exits |-> FALSE]
        \/ \E k \in 0..(MaxRounds + 2) : beeper' = [at |-> "loop", left |-> k, exits |-> TRUE]
    BY <2>1, SpeakerAssumption DEF cmd_beep, cmd_metronome, cmd_play, main_piano_random
  <2> QED BY <2>2, BeeperStarts, Zenon
<1> QED BY <1>2, <1>3, <1>4, <1>5, <1>6, <1>7, <1>8, <1>9, <1>10, <1>11, <1>12, MachineSteps

LEMMA BeeperHolds == ShellSpec => []BeeperInv
<1>1. ShellInit => BeeperInv
  BY SpeakerAssumption DEF ShellInit, ToolsIdle, NoBeeper, BeeperInv
<1> QED BY <1>1, BeepersKept, PTL DEF ShellSpec

LEMMA TonesAreWords == ASSUME BeeperInv PROVE Tone \in Word
<1>1. MaxRounds \in Nat /\ MaxRounds <= INT_MAX /\ beeper.left \in 0..(MaxRounds + 2)
  BY SpeakerAssumption, ShellAssumption DEF BeeperInv
<1>2. Tone \in Int /\ -2 <= Tone /\ Tone <= MaxRounds
  BY <1>1 DEF Tone
<1>3. 2 <= UINT_MAX
  BY SMT DEF UINT_MAX
<1> HIDE DEF Tone
<1> QED BY <1>1, <1>2, <1>3, Bits DEF Word, Abs

(* A decimal number that is a word is printed in full.                     *)
LEMMA DecimalPrints ==
  ASSUME PadInv, NEW zero \in BOOLEAN, NEW width \in Nat, NEW x \in Word, directive(Directive("d", zero, width), x)
  PROVE  PadInv'
<1>1. PICK d : d = Directive("d", zero, width)
  OBVIOUS
<1>2. d.conv = "d" /\ d.zero \in BOOLEAN /\ d.width \in Nat /\ d.prec \in 0..6
  BY <1>1 DEF Directive
<1>3. Printable(d, x)
  BY <1>2 DEF Printable
<1>4. d.conv \in {"d", "x", "f"} /\ directive(d, x)
  BY <1>1, <1>2, Zenon
<1> QED BY <1>2, <1>3, <1>4, DirectivePrints

(* What the tables print. *)
LEMMA TablesPrint == ASSUME PadInv, Prints PROVE PadInv'
<1>1. PICK number \in InFormat(prog) : directive(number[1], number[2])
  BY DEF Prints
<1>2. PICK d, x : d = number[1] /\ x = number[2]
  OBVIOUS
<1>3. \A y \in Indices \union Sizes : y \in Nat /\ y \in Word
  BY ShellAssumption, ThirtyTwoBits, Bits
<1>4. /\ d.conv \in {"d", "x", "f"} /\ d.zero \in BOOLEAN /\ d.width \in Nat /\ d.prec \in 0..6
      /\ Printable(d, x)
  <2>1. CASE prog = "page_map"
    <3>1. (d = Directive("d", FALSE, 4) \/ d = Directive("x", TRUE, 8)) /\ x \in Indices
      BY <1>2, <2>1 DEF InFormat
    <3>2. x \in Nat /\ x \in Word
      BY <1>3, <3>1
    <3>3. CASE d = Directive("d", FALSE, 4)
      BY <3>2, <3>3 DEF Directive, Printable
    <3>4. CASE d = Directive("x", TRUE, 8)
      BY <3>2, <3>4 DEF Directive, Printable
    <3> QED BY <3>1, <3>3, <3>4
  <2>2. CASE prog = "heap_headers"
    <3>1. d = Directive("x", TRUE, 7) /\ x \in Sizes
      BY <1>2, <2>2 DEF InFormat
    <3> QED BY <1>3, <3>1 DEF Directive, Printable
  <2>3. CASE prog = "test_libk"
    <3>1. /\ d = Directive("f", FALSE, 0) \/ ((d = Fixed(0, 3) \/ d = Fixed(10, 4)) /\ x \in Nat)
          /\ x \in Doubles
      BY <1>2, <2>3 DEF InFormat
    <3>2. x \in Int /\ Abs(x) \div Million <= INT_MAX
      BY <3>1, ShellAssumption
    <3>3. /\ d.conv = "f" /\ d.zero = FALSE /\ d.width \in {0, 10} /\ d.prec \in {0, 3, 4}
          /\ d.width # 0 => x \in Nat
      BY <3>1 DEF Directive, Fixed
    <3>4. x \in Nat => x >= 0
      OBVIOUS
    <3>5. Printable(d, x)
      BY <3>2, <3>3, <3>4, Zenon DEF Printable
    <3>6. d.conv \in {"d", "x", "f"} /\ d.zero \in BOOLEAN
      BY <3>3, Zenon
    <3>7. d.width \in Nat /\ d.prec \in 0..6
      BY <3>3
    <3> QED BY <3>5, <3>6, <3>7, Zenon
  <2> QED BY <2>1, <2>2, <2>3 DEF Prints, Tables
<1>5. directive(d, x)
  BY <1>1, <1>2, Zenon
<1> QED BY <1>4, <1>5, DirectivePrints

LEMMA PadKept == PadInv /\ RtcInv /\ BeeperInv /\ [ShellNext]_allVars => PadInv'
<1> SUFFICES ASSUME PadInv, RtcInv, BeeperInv, [ShellNext]_allVars PROVE PadInv'
  OBVIOUS
<1>1. ASSUME UNCHANGED stdioVars PROVE PadInv'
  BY <1>1 DEF stdioVars, PadInv, PrintedInFull
<1>2. ASSUME Called PROVE PadInv'
  <2>1. printed' = NothingPrinted /\ cur_pad_char' = cur_pad_char
    BY <1>2 DEF Called
  <2> QED BY <2>1 DEF PadInv, PrintedInFull, NothingPrinted
<1>3. CASE Prints
  BY <1>3, TablesPrint
<1>4. CASE PrintDate
  <2>1. directive(Directive("d", TRUE, 2), now[SECOND]) /\ now[SECOND] \in Word
    BY <1>4, ReadIsWord, Zenon DEF PrintDate, TwoDigits
  <2> QED BY <2>1, DecimalPrints
<1>5. CASE EndDate
  <2>1. directive(Directive("d", FALSE, 0), time(now)) /\ time(now) \in Word
    BY <1>5, ReadIsWord, Zenon DEF EndDate
  <2> HIDE DEF time
  <2> QED BY <2>1, DecimalPrints
<1>6. CASE BootUp
  <2>1. CASE UNCHANGED stdioVars
    BY <1>1, <2>1
  <2>2. CASE \E t \in Moments : directive(TwoDigits, t[SECOND])
    <3>1. PICK t \in Moments : directive(Directive("d", TRUE, 2), t[SECOND])
      BY <2>2, Zenon DEF TwoDigits
    <3>2. t[SECOND] \in -1..59
      BY MomentsDated, DatedRanges
    <3>3. t[SECOND] \in Word
      BY <3>2, SmallIsWord, Zenon
    <3> QED BY <3>1, <3>3, DecimalPrints
  <2> QED BY <1>6, <2>1, <2>2 DEF BootUp
<1>7. CASE Sound
  <2>1. CASE UNCHANGED stdioVars
    BY <1>1, <2>1
  <2>2. CASE PrintTone
    <3>1. PICK width \in {2, 3} : directive(Directive("d", FALSE, width), Tone)
      BY <2>2, Zenon DEF PrintTone
    <3>2. width \in Nat /\ Tone \in Word
      BY TonesAreWords
    <3> QED BY <3>1, <3>2, DecimalPrints
  <2> QED BY <1>7, <2>1, <2>2 DEF Sound
<1>8. CASE RunUnknown \/ RunRefused \/ RunQuick \/ RunLast \/ RunQuit
  BY <1>2, <1>8 DEF RunUnknown, RunRefused, RunQuick, RunLast, RunQuit, Runs
<1>9. CASE StartBeeper \/ StartPiano \/ StartGame \/ StartMandelbrot \/ StartDate \/ StartTest
  BY <1>2, <1>9 DEF StartBeeper, StartPiano, StartGame, StartMandelbrot, StartDate, StartTest, StartsAs, Runs
<1>10. CASE UNCHANGED allVars
  BY <1>1, <1>10 DEF allVars
<1>11. CASE ReadLine \/ KeysMove \/ EndBeeper \/ EndPiano \/ PlayGame \/ EndGame
  BY <1>1, <1>11 DEF ReadLine, KeysMove, EndBeeper, EndPiano, PlayGame, EndGame
<1>12. CASE ReadClock \/ ClockGoesOn \/ TestSwitches \/ EndTest
  BY <1>1, <1>12 DEF ReadClock, ClockGoesOn, TestSwitches, EndTest
<1> QED BY <1>3, <1>4, <1>5, <1>6, <1>7, <1>8, <1>9, <1>10, <1>11, <1>12, MachineSteps

(* Every number that a program prints - any of 32 bits, signed or not, any *)
(* double whose integer part is an int - comes out whole, at the end of a  *)
(* field as wide as its directive says, whatever was printed before.       *)
THEOREM NumbersAreSpelled == ShellSpec => []PrintedInFull
<1>1. ShellInit => PadInv
  BY NothingIsPrinted DEF ShellInit, StdioInit, PadInv
<1>2. PadInv => PrintedInFull
  BY DEF PadInv
<1> QED BY <1>1, <1>2, PadKept, BeeperHolds, IsClock, RtcHolds, PTL DEF ShellSpec
=============================================================================
