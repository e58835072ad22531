--------------------------- MODULE MCMinesweeper ---------------------------
(* A board of four by three, with two bombs at most. *)
EXTENDS Minesweeper
=============================================================================
