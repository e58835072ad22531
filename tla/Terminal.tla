------------------------------ MODULE Terminal ------------------------------
(***************************************************************************)
(* What keyboard.h promises the programs: characters come out in the order *)
(* the keys went in, at once in raw mode, and otherwise a whole line at a  *)
(* time, edited with backspace until it ends.                              *)
(***************************************************************************)
EXTENDS SequencesExt

CONSTANTS Chars, NL, BS

VARIABLES
  raw,    \* the mode
  edit,   \* the line being typed
  ready,  \* what programs can read
  ret,    \* the last character read
  off     \* the kernel has stopped

Init == edit = <<>> /\ ready = <<>> /\ ~off

RawKey(k) == raw /\ ready' = Append(ready, k) /\ UNCHANGED <<raw, edit, ret, off>>

Type(k) ==
  /\ ~raw /\ k \notin {NL, BS}
  /\ edit' = Append(edit, k)
  /\ UNCHANGED <<raw, ready, ret, off>>

Erase ==
  /\ ~raw /\ edit # <<>>
  /\ edit' = Front(edit)
  /\ UNCHANGED <<raw, ready, ret, off>>

EndLine ==
  /\ ~raw
  /\ ready' = ready \o edit \o <<NL>>
  /\ edit' = <<>>
  /\ UNCHANGED <<raw, ret, off>>

Read ==
  /\ ready # <<>>
  /\ ret' = Head(ready)
  /\ ready' = Tail(ready)
  /\ UNCHANGED <<raw, edit, off>>

SetMode == UNCHANGED <<edit, ready, ret, off>>

Stop == off' /\ UNCHANGED <<raw, edit, ret>>

Next ==
  \/ \E k \in Chars : RawKey(k) \/ Type(k)
  \/ Erase \/ EndLine \/ Read \/ SetMode \/ Stop

Spec == Init /\ [][~off /\ Next]_<<raw, edit, ready, ret, off>>
=============================================================================
