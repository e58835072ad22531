------------------------------ MODULE MCCurses ------------------------------
(* A console of three rows of three: tabs wrap, rows fill, the text        *)
(* scrolls, and curses programs write at the start and past the edge.      *)
EXTENDS Curses

Edge == {<<1, 9>>}
=============================================================================
