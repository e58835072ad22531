---------------------------- MODULE MCKeyboard ----------------------------
(* The keyboard with a letter or two, Enter and Backspace; with shift and  *)
(* caps lock where the state of the keys is the question.                  *)
EXTENDS Keyboard

BurstKeys == {"a", "Enter", "Bksp"}
Gives(ks) == [k \in ks |-> CASE k = "Enter" -> "NL" [] k = "Bksp" -> "BS" [] OTHER -> k]
BurstUs   == [def |-> Gives(BurstKeys), shift |-> Gives(BurstKeys)]

WideKeys  == {"a", "Enter", "Bksp", "LShift", "Caps"}
Moves     == {"LShift", "Caps"}
Wide(a)   == [k \in WideKeys |-> IF k \in Moves THEN "nul" ELSE IF k = "a" THEN a ELSE Gives(WideKeys)[k]]
WideUs    == [def |-> Wide("a"), shift |-> Wide("A")]
(* One key stands for what a layout can change and for the tab, which both *)
(* have: a letter and its capital in one layout, a tab or the capital in   *)
(* the other.                                                              *)
WideEs    == [def |-> Wide("Tab"), shift |-> Wide("A")]
WideBoth  == {WideUs, WideEs}

FlagKeys  == {"a", "q", "LShift", "RShift", "Caps"}
FlagUs    == [def   |-> [a |-> "a", q |-> "q", LShift |-> "nul", RShift |-> "nul", Caps |-> "nul"],
              shift |-> [a |-> "A", q |-> "Q", LShift |-> "nul", RShift |-> "nul", Caps |-> "nul"]]

(* Who types in these: a patient typist all there is, a hasty one a few    *)
(* keys of one layout; the ones without a bound that bites.                *)
PatientOne == [patient |-> TRUE, keys |-> WideKeys, layouts |-> WideBoth, fingers |-> 2, ahead |-> 8]
HastyOne   == [patient |-> FALSE, keys |-> BurstKeys, layouts |-> {WideUs}, fingers |-> 1, ahead |-> 3]
BothTypists == {PatientOne, HastyOne}
LineTypist  == {[patient |-> TRUE, keys |-> BurstKeys, layouts |-> {BurstUs}, fingers |-> 1, ahead |-> 8]}
FlagTypist  == {[patient |-> FALSE, keys |-> FlagKeys, layouts |-> {FlagUs}, fingers |-> 3, ahead |-> 8]}

ShellMode == [raw |-> FALSE, echo |-> TRUE]
GameMode  == [raw |-> TRUE, echo |-> FALSE]
BothModes == {ShellMode, GameMode}
OneMode   == {ShellMode}
None      == {}
TwoShifts == {"LShift", "RShift"}
OneShift  == {"LShift"}
JustBurst == {BurstUs}
JustUs    == {FlagUs}
=============================================================================
