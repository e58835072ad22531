------------------------------ MODULE Allocator ------------------------------
(***************************************************************************)
(* What heap.h promises its callers, with no trace of how the heap does    *)
(* it: an allocation has the size and the alignment asked for, lies in the *)
(* heap and shares no byte with any other allocation until it is freed.    *)
(***************************************************************************)
EXTENDS Integers

CONSTANTS
  HeapStart,  \* first byte of the heap
  HeapSize,   \* bytes in the heap
  Requests    \* the [sz, align] pairs that may be asked for

VARIABLE live \* the allocations held: [ptr, sz, align]

Disjoint(a, c) == a.ptr + a.sz <= c.ptr \/ c.ptr + c.sz <= a.ptr

Init == live = {}

Allocate(r, p) ==
  LET new == [ptr |-> p, sz |-> r.sz, align |-> r.align] IN
  /\ p >= HeapStart /\ p + r.sz <= HeapStart + HeapSize
  /\ p % r.align = 0
  /\ \A a \in live : Disjoint(a, new) /\ a.ptr # p
  /\ live' = live \union {new}

Release(a) == live' = live \ {a}

Next ==
  \/ \E r \in Requests, p \in HeapStart..(HeapStart + HeapSize) : Allocate(r, p)
  \/ \E a \in live : Release(a)

Spec == Init /\ [][Next]_live
=============================================================================
