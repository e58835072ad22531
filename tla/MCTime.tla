------------------------------- MODULE MCTime -------------------------------
(* A machine that runs for a dozen ticks, with short delays. *)
EXTENDS Time
=============================================================================
