------------------------------- MODULE MCHeap -------------------------------
(* The heap on a region of 208 bytes at the real HEAP_START: room for a    *)
(* few small blocks, so that holes are split, padded and exhausted.        *)
EXTENDS Heap

Start == 10485760   \* 0xA00000

(* A curses WINDOW (12 bytes) and its fbc_ctx (52), as malloc aligns them, *)
(* and a buffer aligned for fxsave, scaled down.                           *)
SmallRequests == {[sz |-> 12, align |-> 8], [sz |-> 52, align |-> 8],
                  [sz |-> 32, align |-> 16]}
=============================================================================
