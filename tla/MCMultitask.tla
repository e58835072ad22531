---------------------------- MODULE MCMultitask ----------------------------
(* Room for kernel_main and two or three more tasks; which block of the    *)
(* heap a task gets is symmetric.                                          *)
EXTENDS Multitask, TLC

Symmetry == Permutations(Ctxs) \union Permutations(Stacks) \union Permutations(FxAreas)
=============================================================================
