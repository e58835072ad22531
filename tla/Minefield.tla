----------------------------- MODULE Minefield -----------------------------
(***************************************************************************)
(* The game apps/minesweeper plays, without its cursor, its loops and its  *)
(* queue.  A tile that is opened and has no bomb around it opens what is   *)
(* around it; the player waits until there is nothing left to open.        *)
(***************************************************************************)
EXTENDS Integers

CONSTANTS
  Tiles,
  Near        \* Near[t]: t and the tiles that touch it

VARIABLES
  bombs, open, flags,
  asked,      \* what the player asked to open and is still hidden
  phase       \* "fresh", "playing" or "over"

vars == <<bombs, open, flags, asked, phase>>

Blank(t) == Near[t] \intersect bombs = {}
Due      == (asked \union UNION {Near[t] : t \in {u \in open : Blank(u)}}) \ open
Turn     == phase # "playing" \/ Due = {}

-----------------------------------------------------------------------------
Init ==
  /\ bombs = {} /\ open = {} /\ flags = {} /\ asked = {}
  /\ phase = "fresh"

(* The first tile, which has no bomb and none around it. *)
Begin(t) ==
  /\ phase # "playing"
  /\ bombs' \in (SUBSET (Tiles \ Near[t])) \ {{}}
  /\ open' = {t} /\ flags' = {} /\ asked' = {}
  /\ phase' = "playing"

(* Another one; and if the player marked the bombs around it, the rest of  *)
(* what is around it.                                                      *)
Open(t) ==
  /\ phase = "playing"
  /\ t \notin flags \union bombs
  /\ open' = open \union {t}
  /\ asked' = IF ~ Blank(t) /\ Near[t] \intersect bombs \subseteq flags
              THEN Near[t] \ (bombs \union open')
              ELSE {}
  /\ UNCHANGED <<bombs, flags, phase>>

Spread ==
  /\ phase = "playing"
  /\ \E new \in (SUBSET Due) \ {{}} :
       open' = open \union new /\ asked' = asked \ new
  /\ UNCHANGED <<bombs, flags, phase>>

Lose(t) ==
  /\ phase = "playing"
  /\ t \in bombs \ flags
  /\ open' = open \union {t}
  /\ phase' = "over"
  /\ UNCHANGED <<bombs, flags, asked>>

(* A hidden tile gets or loses its mark, and with all bombs marked the     *)
(* player has won.                                                         *)
Mark(t) ==
  /\ phase = "playing"
  /\ t \notin open
  /\ flags' = IF t \in flags THEN flags \ {t} ELSE flags \union {t}
  /\ phase' = IF bombs \subseteq flags' THEN "over" ELSE "playing"
  /\ UNCHANGED <<bombs, open, asked>>

GiveUp ==
  /\ IF phase = "playing" THEN UNCHANGED <<bombs, flags>>
     ELSE bombs' \in (SUBSET Tiles) \ {{}} /\ flags' = {}
  /\ open' = Tiles
  /\ phase' = "over"
  /\ UNCHANGED asked

Anew ==
  /\ phase = "over" /\ phase' = "fresh"
  /\ bombs' = {} /\ open' = {} /\ flags' = {} /\ asked' = {}

(* The player leaves, and may come back. *)
Leave ==
  /\ bombs' = {} /\ open' = {} /\ flags' = {} /\ asked' = {}
  /\ phase' = "fresh"

Next ==
  /\ vars' # vars
  /\ \/ Spread
     \/ Anew
     \/ /\ Turn
        /\ \/ GiveUp \/ Leave
           \/ \E t \in Tiles : Begin(t) \/ Open(t) \/ Lose(t) \/ Mark(t)

Spec == Init /\ [][Next]_vars
=============================================================================
