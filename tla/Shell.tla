------------------------------- MODULE Shell -------------------------------
(***************************************************************************)
(* The machine from boot to the shell's prompt and back, over and over:    *)
(* kernel_main starts the shell (src/apps/sh), which reads a line, splits  *)
(* it into words and runs the command of the first one.  One program runs  *)
(* at a time, to its end; what it leaves behind - the modes of the         *)
(* keyboard, the console's context, the speaker, characters nobody read,   *)
(* the padding of printf - is what the next one finds.                     *)
(*                                                                         *)
(* The programs are modules of their own, idle while they do not run.      *)
(* minesweeper and mandelbrot are here only what they do to the keyboard   *)
(* and the console.  A character is a letter, which stands for a whole     *)
(* word, SP or NL.  Of what programs print the directives with a width are *)
(* here, which share the padding of printf, and the "%f" of test_libk.     *)
(*                                                                         *)
(* A definition that stands just before another, with its parameters, and  *)
(* that nothing uses, is what a bug would make of it: PROJECT.json names   *)
(* the property that would notice.                                         *)
(***************************************************************************)
EXTENDS Boot, Piano, FiveByFive, Rtc, Stdio

CONSTANTS
  SP, NL,
  Lines,        \* what users type before they press Enter
  MAX_CMD_SZ, MAX_ARGC,
  GameKeys,     \* characters typed in a game
  Indices, Sizes, Doubles,  \* numbers that programs print
  Ctxs, Stacks, FxAreas, First, FirstStack, FirstFx,  \* Multitask's
  MaxIters

ASSUME ShellAssumption ==
  /\ MAX_CMD_SZ \in Nat \ {0} /\ MAX_ARGC \in Nat \ {0, 1}
  /\ MaxIters \in Nat /\ MaxRounds <= INT_MAX
  /\ \A x \in Indices \union Sizes : x \in Nat /\ x \div 2 <= INT_MAX
  /\ \A x \in Doubles : x \in Int /\ Abs(x) \div Million <= INT_MAX
  /\ LET typed == UNION {{line[j] : j \in DOMAIN line} : line \in Lines}
     IN  Lines \subseteq Seq(typed) /\ NL \notin typed

VARIABLES
  prog,       \* who runs
  rest,       \* what kb_getchar has and nobody has read
  cur_cmd, argv,
  last_ret,
  print_chars, raw_mode, console,   \* the keyboard's modes, fbc's context
  was         \* the modes a program saved

(* The variables of MultitaskTest. *)
VARIABLES
  blocks, ctx, stk, fx, mt_current_task, cpu,
  MT_TEST_ITERS, test_pc, test_n, test_task, test_i

shellVars == <<prog, rest, cur_cmd, argv, last_ret, print_chars, raw_mode, console, was>>
testVars  == <<blocks, ctx, stk, fx, mt_current_task, cpu, MT_TEST_ITERS, test_pc, test_n, test_task, test_i>>
modes     == <<print_chars, raw_mode, console>>
toolVars  == <<speakerVars, pianoVars, fiveVars, rtcVars, testVars>>
allVars   == <<bootVars, shellVars, toolVars, stdioVars>>

Test == INSTANCE MultitaskTest WITH
  Regs <- {0}, Fpu <- {0}, held <- blocks,
  pc <- test_pc, n <- test_n, task <- test_task, i <- test_i

(* The heap's blocks for the tasks are disjoint, from the kernel's too.    *)
ASSUME BlocksAssumption == Test!MultitaskAssumption

TestIdle == Test!TestInit /\ MT_TEST_ITERS = 0

ToolsIdle ==
  /\ down = {} /\ beeper = NoBeeper
  /\ PianoIdle /\ FiveIdle /\ RtcIdle /\ TestIdle

ShellInit ==
  /\ BootInit /\ StdioInit /\ ToolsIdle
  /\ current_freq = 0 /\ gate = FALSE
  /\ prog = "boot" /\ rest = <<>> /\ cur_cmd = <<>> /\ argv = <<>> /\ last_ret = 0
  /\ print_chars = TRUE /\ raw_mode = FALSE /\ console = "shell"
  /\ was = <<TRUE, FALSE>>

-----------------------------------------------------------------------------
(* The prompt.  The loop of sh_main ends with a newline or a full buffer;  *)
(* the character that did not fit is lost, those after it stay.            *)
PosOf(c, s) == CHOOSE j \in 1..Len(s) : s[j] = c /\ \A k \in 1..(j - 1) : s[k] # c

TakenTooMany(s) == IF PosOf(NL, s) <= MAX_CMD_SZ THEN PosOf(NL, s) - 1 ELSE MAX_CMD_SZ
Taken(s) == IF PosOf(NL, s) < MAX_CMD_SZ THEN PosOf(NL, s) - 1 ELSE MAX_CMD_SZ - 1

(* The loop that fills argv: where the words start and where a space was   *)
(* made a '\0'.                                                            *)
SplitStepAll(st, c) ==
  LET k == st.pos + 1 IN
  IF Len(st.starts) >= MAX_ARGC - 1 THEN st
  ELSE [pos |-> k, was_space |-> c = SP,
        ends   |-> IF c = SP THEN st.ends \union {k} ELSE st.ends,
        starts |-> IF c # SP THEN Append(st.starts, k) ELSE st.starts]
SplitStep(st, c) ==
  LET k == st.pos + 1 IN
  IF Len(st.starts) >= MAX_ARGC - 1 THEN st
  ELSE [pos |-> k, was_space |-> c = SP,
        ends   |-> IF c = SP /\ ~st.was_space THEN st.ends \union {k} ELSE st.ends,
        starts |-> IF c # SP /\ st.was_space THEN Append(st.starts, k) ELSE st.starts]

Split(s) ==
  LET after[k \in 0..Len(s)] ==
        IF k = 0 THEN [pos |-> 0, was_space |-> TRUE, ends |-> {}, starts |-> <<>>]
        ELSE SplitStep(after[k - 1], s[k])
      st     == after[Len(s)]
      end(j) == CHOOSE e \in j .. Len(s) + 1 :
                  /\ e \in st.ends \union {Len(s) + 1}
                  /\ \A d \in st.ends : d >= j => e <= d
  IN  [k \in 1..Len(st.starts) |-> SubSeq(s, st.starts[k], end(st.starts[k]) - 1)]

ReadLine ==
  /\ prog = "prompt"
  /\ \E s \in IF rest # <<>> THEN {rest} ELSE {Append(line, NL) : line \in Lines} :
       /\ cur_cmd' = SubSeq(s, 1, Taken(s))
       /\ argv' = Split(cur_cmd')
       /\ rest' = SubSeq(s, Taken(s) + 2, Len(s))
  /\ prog' = "execute"
  /\ UNCHANGED <<bootVars, last_ret, modes, was, toolVars, stdioVars>>

-----------------------------------------------------------------------------
(* The commands (commands.h) and what main_* do with their arguments; the  *)
(* word "1" stands for any argument that is all right.  atoi of a word     *)
(* without a digit goes on to whatever comes after it in memory, and may   *)
(* find a number there.                                                    *)
Quick   == {"help", "clear", "ref", "ticks", "kernel_map"}
Tables  == {"page_map", "heap_headers", "test_libk"}
Options == {"loadkeys", "timer", "primes"}
Games   == {"5x5", "minesweeper"}
Beepers == {"beep", "metronome", "play", "piano_random"}
Commands == Quick \union Options \union Games \union Beepers \union Tables
              \union {"last", "quit", "date", "piano", "mandelbrot", "test_multitask"}

Arg(j, word) == Len(argv) > j /\ argv[j + 1] = <<word>>
Helps(name) ==
  \/ name \in Games \union {"metronome"} /\ \E j \in 1..Len(argv) : Arg(j, "-h")
  \/ name \in Options \union {"play", "mandelbrot", "beep", "piano"} /\ Arg(1, "-h")
  \/ name = "piano_random" /\ Arg(1, "-h") /\ Len(argv) > 2
Needed(name) == name \in Options \union {"play"} /\ Len(argv) = 1
Odd(name)    == name \in Options \union {"play", "beep", "piano"} /\ Len(argv) > 1 /\ ~Arg(1, "1")

Refuses(name) == Helps(name) \/ Needed(name) \/ Odd(name)
Accepts(name) ==
  ~Helps(name) /\ ~Needed(name) /\ (Odd(name) => name \in {"primes", "beep", "piano"})

AtPrompt == prog' = "prompt" /\ UNCHANGED <<modes, was, toolVars>>
Called ==
  /\ prog = "execute"
  /\ cur_cmd' = <<>> /\ argv' = <<>> /\ printed' = NothingPrinted
  /\ UNCHANGED <<bootVars, rest, cur_pad_char>>

Named(name) == argv # <<>> /\ argv[1] = <<name>>
Runs(name)  == Called /\ Named(name)

(* argv[0] is NULL, and the names are compared with what is at address 0;  *)
(* or no name is equal.  What cmd_unk returns is dropped.                  *)
RunUnknown ==
  /\ ~ \E name \in Commands : Named(name)
  /\ Called /\ AtPrompt
  /\ UNCHANGED last_ret

(* The usage text. *)
RunRefused ==
  /\ \E name \in Commands : Runs(name) /\ Refuses(name)
  /\ last_ret' = 1
  /\ AtPrompt

RunQuick ==
  /\ \E name \in Quick \union Options :
       Runs(name) /\ Accepts(name)
  /\ last_ret' = 0
  /\ AtPrompt

RunLast == Runs("last") /\ AtPrompt /\ UNCHANGED last_ret

(* sh_main returns and kernel_main halts. *)
RunQuit ==
  /\ Runs("quit")
  /\ prog' = "halt" /\ last_ret' = 0
  /\ UNCHANGED <<modes, was, toolVars>>

(* A program ends and sh_main stores what it returned. *)
Ends == prog' = "prompt" /\ last_ret' = 0 /\ UNCHANGED <<bootVars, rest, cur_cmd, argv, was>>
StartsAs(name) == Runs(name) /\ Accepts(name) /\ prog' = name /\ UNCHANGED last_ret

saved == <<print_chars, raw_mode>>
initscr  == print_chars' = FALSE /\ raw_mode' = TRUE /\ console' = "window"  \* with raw and noecho
endwin   == print_chars' = TRUE /\ raw_mode' = FALSE /\ console' = "shell"

RestoreEchoOnly == print_chars' = was[1] /\ UNCHANGED <<raw_mode, console>>
(* "if (was_kb_echo) kb_echo(); if (!was_kb_raw) kb_noraw();"              *)
Restore ==
  /\ print_chars' = (print_chars \/ was[1])
  /\ raw_mode' = (raw_mode /\ was[2])
  /\ UNCHANGED console

-----------------------------------------------------------------------------
(* The programs that beep. *)
StartBeeper ==
  /\ \E name \in Beepers :
       /\ StartsAs(name)
       /\ CASE name = "beep" -> cmd_beep
            [] name = "metronome" -> cmd_metronome
            [] name = "play" -> cmd_play
            [] name = "piano_random" -> main_piano_random
       /\ was' = saved
       /\ print_chars' = (print_chars /\ name # "piano_random")
  /\ down' \in SUBSET PianoKeys
  /\ UNCHANGED <<raw_mode, console, speaker, pianoVars, fiveVars, rtcVars, testVars>>

EndBeeper ==
  /\ prog \in Beepers /\ beeper.at = "done"
  /\ beeper' = NoBeeper /\ down' = {}
  /\ Ends /\ Restore
  /\ UNCHANGED <<speaker, pianoVars, fiveVars, rtcVars, testVars, stdioVars>>

StartPiano ==
  /\ StartsAs("piano") /\ PianoStart
  /\ was' = saved /\ print_chars' = FALSE
  /\ UNCHANGED <<raw_mode, console, fiveVars, rtcVars, testVars>>

EndPiano ==
  /\ prog = "piano" /\ PianoExit /\ down' = {}
  /\ Ends /\ Restore
  /\ UNCHANGED <<fiveVars, rtcVars, testVars, stdioVars>>

(* Before each tone of a song its number: the songs' "%2d" and "%3d". *)
Tone == MaxRounds - beeper.left
PrintTone == \E width \in {2, 3} : directive(Directive("d", FALSE, width), Tone)

Sound ==
  /\ \/ prog = "piano" /\ PianoStep
     \/ prog \in Beepers /\ BeeperStep /\ UNCHANGED pianoVars
  /\ IF prog = "play" /\ beeper'.at = "play" THEN PrintTone ELSE UNCHANGED stdioVars
  /\ UNCHANGED <<bootVars, shellVars, fiveVars, rtcVars, testVars>>

KeysMove ==
  /\ prog \in Beepers \union {"piano"} /\ KeyEvent
  /\ UNCHANGED <<bootVars, shellVars, speaker, beeper, pianoVars, fiveVars, rtcVars, testVars, stdioVars>>

-----------------------------------------------------------------------------
(* The programs that take characters: first those the shell left behind.   *)
GetKey(c) ==
  IF rest # <<>> THEN c = Head(rest) /\ rest' = Tail(rest)
  ELSE c \in GameKeys /\ UNCHANGED rest

StartGame ==
  /\ \/ StartsAs("5x5") /\ FiveStart /\ UNCHANGED was
     \/ StartsAs("minesweeper") /\ UNCHANGED <<fiveVars, was>>
  /\ initscr
  /\ UNCHANGED <<speakerVars, pianoVars, rtcVars, testVars>>

(* main_mandelbrot: kb_noecho, kb_raw; it draws over the console. *)
StartMandelbrot ==
  /\ StartsAs("mandelbrot")
  /\ was' = saved /\ print_chars' = FALSE /\ raw_mode' = TRUE
  /\ UNCHANGED <<console, toolVars>>

PlayGame ==
  /\ prog \in Games \union {"mandelbrot"}
  /\ \E c \in GameKeys \union {NL} \union {rest[j] : j \in DOMAIN rest} :
       /\ c # EXIT /\ GetKey(c)
       /\ IF prog = "5x5" THEN FiveKey(IF c = SP THEN "space" ELSE c) ELSE UNCHANGED fiveVars
  /\ UNCHANGED <<bootVars, prog, cur_cmd, argv, last_ret, modes, was,
                 speakerVars, pianoVars, rtcVars, testVars, stdioVars>>

EndGame ==
  /\ prog \in Games \union {"mandelbrot"}
  /\ GetKey(EXIT)
  /\ prog' = "prompt" /\ last_ret' = 0
  /\ FiveQuit
  /\ IF prog = "mandelbrot" THEN Restore ELSE endwin
  /\ UNCHANGED <<bootVars, cur_cmd, argv, was, speakerVars, pianoVars, rtcVars, testVars, stdioVars>>

-----------------------------------------------------------------------------
(* date: the clock, read while it goes on, and "%02u" for each field, the  *)
(* seconds last; then the clock once more, by time(), for the epoch.       *)
Dates == {"date", "date_epoch"}

StartDate ==
  /\ StartsAs("date") /\ RtcStart
  /\ UNCHANGED <<modes, was, speakerVars, pianoVars, fiveVars, testVars>>

ReadClock ==
  /\ prog \in Dates /\ GetReg
  /\ UNCHANGED <<bootVars, shellVars, speakerVars, pianoVars, fiveVars, testVars, stdioVars>>

ClockGoesOn ==
  /\ prog \in Dates /\ RtcTick
  /\ UNCHANGED <<bootVars, shellVars, speakerVars, pianoVars, fiveVars, testVars, stdioVars>>

TwoDigits == Directive("d", TRUE, 2)
PrintDate ==
  /\ prog = "date" /\ todo = <<>>
  /\ directive(TwoDigits, now[SECOND])
  /\ prog' = "date_epoch" /\ RtcAgain
  /\ UNCHANGED <<bootVars, rest, cur_cmd, argv, last_ret, modes, was,
                 speakerVars, pianoVars, fiveVars, testVars>>

EndDate ==
  /\ prog = "date_epoch" /\ todo = <<>>
  /\ directive(Directive("d", FALSE, 0), time(now))
  /\ RtcDone /\ Ends
  /\ UNCHANGED <<modes, speakerVars, pianoVars, fiveVars, testVars>>

-----------------------------------------------------------------------------
(* page_map, heap_headers and test_libk print one number after the other;  *)
(* test_multitask is MultitaskTest.                                        *)
InFormat(name) ==
  CASE name = "page_map" -> {Directive("d", FALSE, 4), Directive("x", TRUE, 8)} \X Indices
    [] name = "heap_headers" -> {Directive("x", TRUE, 7)} \X Sizes
    [] name = "test_libk" -> ({Directive("f", FALSE, 0)} \X Doubles)
                               \union ({Fixed(0, 3), Fixed(10, 4)} \X (Doubles \intersect Nat))

StartTest ==
  /\ \/ \E name \in Tables : StartsAs(name) /\ UNCHANGED testVars
     \/ /\ StartsAs("test_multitask")
        /\ MT_TEST_ITERS' \in 0..MaxIters
        /\ UNCHANGED <<blocks, ctx, stk, fx, mt_current_task, cpu, test_pc, test_n, test_task, test_i>>
  /\ UNCHANGED <<modes, was, speakerVars, pianoVars, fiveVars, rtcVars>>

Prints ==
  /\ prog \in Tables
  /\ \E number \in InFormat(prog) : directive(number[1], number[2])
  /\ UNCHANGED <<bootVars, shellVars, toolVars>>

TestSwitches ==
  /\ prog = "test_multitask" /\ Test!TestNext
  /\ UNCHANGED <<bootVars, shellVars, speakerVars, pianoVars, fiveVars, rtcVars, stdioVars>>

(* What the three tasks leave in freed blocks is never read. *)
EndTest ==
  /\ \/ prog \in Tables /\ UNCHANGED testVars
     \/ /\ prog = "test_multitask" /\ test_pc = "done"
        /\ ctx' = [c \in DOMAIN ctx |-> ctx[First]]
        /\ stk' = [s \in DOMAIN stk |-> 0] /\ fx' = [f \in DOMAIN fx |-> 0]
        /\ test_pc' = "create" /\ test_n' = 0 /\ MT_TEST_ITERS' = 0
        /\ test_task' = [k \in 0..2 |-> First] /\ test_i' = [c \in DOMAIN ctx |-> 0]
        /\ UNCHANGED <<blocks, mt_current_task, cpu>>
  /\ Ends
  /\ UNCHANGED <<modes, speakerVars, pianoVars, fiveVars, rtcVars, stdioVars>>

-----------------------------------------------------------------------------
(* The last that is printed before the first prompt is the time (kernel.c, *)
(* line 239).                                                              *)
BootUp ==
  /\ prog = "boot"
  /\ BootNext
  /\ prog' = IF step' < 0 THEN "halt" ELSE IF step' \in DOMAIN Parts THEN prog ELSE "prompt"
  /\ IF prog' = "prompt" THEN \E t \in Moments : directive(TwoDigits, t[SECOND])
     ELSE UNCHANGED stdioVars
  /\ UNCHANGED <<rest, cur_cmd, argv, last_ret, modes, was, toolVars>>

Execute == RunUnknown \/ RunRefused \/ RunQuick \/ RunLast \/ RunQuit
Start == StartBeeper \/ StartPiano \/ StartGame \/ StartMandelbrot \/ StartDate \/ StartTest
Program == Sound \/ EndBeeper \/ EndPiano \/ ReadClock \/ PrintDate \/ EndDate \/ TestSwitches \/ EndTest

ShellNext ==
  \/ BootUp \/ ReadLine \/ Execute \/ Start
  \/ KeysMove \/ Sound \/ EndBeeper \/ EndPiano
  \/ PlayGame \/ EndGame
  \/ ReadClock \/ ClockGoesOn \/ PrintDate \/ EndDate
  \/ Prints \/ TestSwitches \/ EndTest

(* The processor goes on; nobody has to press a key. *)
ShellSpec == ShellInit /\ [][ShellNext]_allVars /\ WF_allVars(Execute \/ Start \/ Program)

-----------------------------------------------------------------------------
(* At the prompt the keyboard and the console are as the shell wants them  *)
(* and the speaker is silent, whichever programs have run: each puts back  *)
(* what it changed, in the mode it found (piano.c lines 142 and 216,       *)
(* mandelbrot.c 88 and 280, endwin).                                       *)
ModesRestored ==
  prog \in {"prompt", "execute"} =>
    /\ print_chars /\ ~raw_mode /\ console = "shell"
    /\ current_freq = 0 /\ ~gate

(* The words of a line, in order: the longest pieces without a space.      *)
Words(s) ==
  LET inside == {j \in 1..Len(s) : s[j] # SP}
      first  == {j \in inside : j - 1 \notin inside}
      last(j) == CHOOSE k \in inside : k >= j /\ k + 1 \notin inside /\ j..k \subseteq inside
      nth(m) == CHOOSE j \in first : Cardinality({l \in first : l <= j}) = m
  IN  [m \in 1..Cardinality(first) |-> SubSeq(s, nth(m), last(nth(m)))]

(* argv has the words of the line and no empty one (sh.c lines 39 to 53);  *)
(* a line of too many words fills it, and its last one then goes on to the *)
(* end of the line.  Empty lines and lines of spaces have none.  There is  *)
(* room for the '\0' in both.                                              *)
ArgvIsWords ==
  prog = "execute" =>
    LET words == Words(cur_cmd) max == MAX_ARGC - 1 IN
    /\ Len(cur_cmd) < MAX_CMD_SZ
    /\ IF Len(words) < max THEN argv = words
       ELSE /\ Len(argv) = max /\ SubSeq(argv, 1, max - 1) = SubSeq(words, 1, max - 1)
            /\ \E j \in 1..Len(cur_cmd) : argv[max] = SubSeq(cur_cmd, j, Len(cur_cmd))
            /\ words[max] = SubSeq(argv[max], 1, Len(words[max]))

(* "Hold 'q' to quit" (commands.h, line 445): a program that polls the key *)
(* once a round ends if the key stays down, whatever the other keys do.    *)
HoldQuits ==
  []<>(~kb_held(EXIT) \/ prog \notin {"piano", "piano_random", "metronome", "play"})

(* MultitaskTest's properties, of the command in the machine. *)
NoTaskReturns == Test!NoTaskReturns
InTurns       == Test!InTurns
EndsClean     == prog = "test_multitask" ~> (prog = "test_multitask" /\ Test!AllTidy)
=============================================================================
