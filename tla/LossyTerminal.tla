--------------------------- MODULE LossyTerminal ---------------------------
(***************************************************************************)
(* A terminal that may lose characters and mix up their order, but neither *)
(* makes them up nor gives one twice, and shows a program no line that has *)
(* not ended, nor what was erased from it.                                 *)
(***************************************************************************)
EXTENDS BagsExt, SequencesExt

CONSTANTS Chars, NL, BS

VARIABLES
  raw,    \* the mode
  edit,   \* the line being typed
  ready,  \* bag of what programs can read
  ret,    \* the last character read
  off     \* the kernel has stopped

BagOf(s) == [ch \in {s[i] : i \in DOMAIN s} |-> Cardinality({i \in DOMAIN s : s[i] = ch})]

Init == edit = <<>> /\ ready = EmptyBag /\ ~off

RawKey(k) ==
  /\ raw
  /\ ready' \sqsubseteq BagAdd(ready, k)
  /\ UNCHANGED <<raw, edit, ret, off>>

Edit ==
  /\ ~raw
  /\ \/ \E k \in Chars \ {NL, BS} : edit' = Append(edit, k)
     \/ edit # <<>> /\ edit' = Front(edit)
  /\ UNCHANGED <<raw, ready, ret, off>>

EndLine ==
  /\ ~raw
  /\ edit' = <<>>
  /\ ready' \sqsubseteq ready (+) BagOf(Append(edit, NL))
  /\ UNCHANGED <<raw, ret, off>>

Read ==
  /\ BagIn(ret', ready)
  /\ ready' = BagRemove(ready, ret')
  /\ UNCHANGED <<raw, edit, off>>

SetMode == UNCHANGED <<edit, ready, ret, off>>

Stop == off'

Next == (\E k \in Chars : RawKey(k)) \/ Edit \/ EndLine \/ Read \/ SetMode \/ Stop

Spec == Init /\ [][~off /\ Next]_<<raw, edit, ready, ret, off>>
=============================================================================
