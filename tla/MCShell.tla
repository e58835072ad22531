------------------------------ MODULE MCShell ------------------------------
(* A machine with three notes, a 5x5 board, a command line of four         *)
(* characters and three words, and a line for each way to call a command.  *)
EXTENDS Shell, TLC

Pages4  == (".text" :> <<4, 8>>) @@ (".rodata" :> <<8, 16>>) @@ (".data" :> <<16, 20>>) @@ (".bss" :> <<20, 32>>)

Arguments1 == {"help", "last", "quit", "ticks", "timer", "primes", "play", "beep", "piano", "piano_random",
               "metronome", "5x5", "minesweeper", "mandelbrot", "date", "page_map", "heap_headers", "test_libk",
               "test_multitask"}
Calls   == {<<name>> : name \in Arguments1}
           \union {<<name, SP, a>> : name \in {"timer", "primes", "play", "beep", "piano", "mandelbrot", "5x5"}, a \in {"1", "-h", "x"}}
Spaced  == {<<SP, SP>>, <<>>, <<"help", "x">>, <<SP, "ticks", SP>>}
Long    == {<<"5x5", SP, SP, "l", SP>>, <<"ticks", "x", "x", "x">>, <<"help", SP, "a", "b">>, <<SP, SP, "5x5", SP, EXIT>>,
            <<"a", SP, "b", "c", SP>>}
TypedLines == Calls \union Spaced \union Long

Games5 == {"h", "j", "k", "l", "r", "c", SP, EXIT, "x"}

Q1 == {0, 1, 3, 4} \X {0, 2, 4}
Q2 == {0, 2, 4} \X {0, 1, 3, 4}
QuietPatterns == {Q1, Q2}
Random == {{<<0, 0>>, <<2, 3>>}}
ASSUME \A q \in QuietPatterns : Quiet(q)

ThreeNotes == (1 :> 174) @@ (2 :> 184) @@ (3 :> 195)

(* A day, a month, a year that ends; an hour that does. *)
NewYear  == <<31, 12, 23, 23, 59, 59>>
LeapDay  == <<28, 2, 24, 23, 59, 59>>
April    == <<30, 4, 24, 23, 59, 59>>
Morning  == <<10, 10, 24, 9, 59, 59>>
Midnight == <<1, 1, 20, 0, 0, 0>>
MomentsToRead == {NewYear, LeapDay, April, Morning, Midnight}

IndicesToPrint == {0, 7, 4096}
SizesToPrint == {16, 52428784}
DoublesToPrint == {654123474, -887968}
=============================================================================
