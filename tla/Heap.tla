-------------------------------- MODULE Heap --------------------------------
(***************************************************************************)
(* The kernel heap of src/kernel/heap.c: a doubly linked list of block     *)
(* headers laid out in one contiguous region, a first-fit search with      *)
(* alignment padding, splitting on allocation and merging on release.      *)
(*                                                                         *)
(* The clients of the heap (libk's malloc/calloc/free, the task code) are  *)
(* one legal caller: it asks for any request of Requests and gives back    *)
(* any allocation it holds.  Nothing in an interrupt handler allocates, so *)
(* a call runs to its end; the search is one action per loop iteration.    *)
(*                                                                         *)
(* A definition that stands just before another, with its parameters, and  *)
(* that nothing uses, is what a bug would make of it: PROJECT.json names   *)
(* the property that would notice.                                         *)
(***************************************************************************)
EXTENDS Integers, FiniteSets

CONSTANTS
  HeapStart,  \* address of the first block header (HEAP_START)
  HeapSize,   \* bytes in the heap (HEAP_SIZE)
  Requests,   \* the [sz, align] pairs clients ask for
  MaxLive     \* bound: allocations held at any one time

Hdr  == 16    \* sizeof(Block): two pointers, a uint32_t and a padded bool
Null == 0     \* NULL

(***************************************************************************)
(* The callers align to at most a header (8 and 16), and the first block   *)
(* is aligned for all of them, as HEAP_START is: its header never moves,   *)
(* which the code relies on because first_block is a constant pointer.     *)
(***************************************************************************)
ASSUME HeapAssumption ==
  /\ HeapStart \in Nat \ {0}
  /\ HeapSize \in Nat /\ HeapSize >= Hdr
  /\ \A r \in Requests : r \in [sz : Nat, align : 1..Hdr]
  /\ \A r \in Requests : (HeapStart + Hdr) % r.align = 0
  /\ MaxLive \in Nat

HeapEnd == HeapStart + HeapSize

VARIABLES
  heap,   \* header address -> header, for the blocks of the list
  live,   \* the allocations the clients hold
  pc,     \* what the heap code is doing: "idle", "scan", "panic", "broken"
  req,    \* the request being served (NoRequest when there is none)
  cur     \* the loop variable blk of heap_alloc

vars == <<heap, live, pc, req, cur>>

NoRequest == [sz |-> 0, align |-> 1]
Block     == [next : Nat, prev : Nat, sz : Int, free : BOOLEAN]
Alloc     == [ptr : Nat, sz : Nat, align : 1..Hdr]

Data(b)      == b + Hdr                       \* HEADER_TO_PTR
EndOf(h, b)  == Data(b) + h[b].sz             \* first byte after block b
PadBack(a, n) == a % n
Pad(a, n)    == (n - (a % n)) % n             \* bytes from a to a multiple of n

-----------------------------------------------------------------------------
(* heap_init: one free block that spans the heap. *)
Init ==
  /\ heap = [b \in {HeapStart} |->
              [next |-> Null, prev |-> Null, sz |-> HeapSize - Hdr, free |-> TRUE]]
  /\ live = {}
  /\ pc   = "idle"
  /\ req  = NoRequest
  /\ cur  = HeapStart

(* A caller enters heap_alloc; the search starts at the first block. *)
Request(r) ==
  /\ pc = "idle"
  /\ Cardinality(live) < MaxLive
  /\ pc'  = "scan"
  /\ req' = r
  /\ cur' = HeapStart
  /\ UNCHANGED <<heap, live>>

(* Both tests an iteration makes: free and large enough for the request    *)
(* and a new header, then still large enough once the start is padded.     *)
Fits(b)       == heap[b].free /\ heap[b].sz >= req.sz + Hdr
FitsPadded(b) == heap[b].sz - Pad(Data(b), req.align) >= req.sz
AnyFree(b)    == heap[b].free
Suitable(b)   == Fits(b) /\ FitsPadded(b)

SkipRestart ==
  pc = "scan" /\ ~Suitable(cur) /\ heap[cur].next # Null /\ cur' = HeapStart
  /\ UNCHANGED <<heap, live, pc, req>>

SkipUnlessRoomy ==
  /\ pc = "scan"
  /\ ~(Suitable(cur) /\ heap[cur].sz > req.sz + 2 * Hdr)
  /\ heap[cur].next # Null
  /\ cur' = heap[cur].next
  /\ UNCHANGED <<heap, live, pc, req>>

(* The block is passed over, by either `continue'. *)
Skip ==
  /\ pc = "scan"
  /\ ~Suitable(cur)
  /\ heap[cur].next # Null
  /\ cur' = heap[cur].next
  /\ UNCHANGED <<heap, live, pc, req>>

(* The list ended: print, dump the headers and panic_line, which halts. *)
OutOfMemory ==
  /\ pc = "scan"
  /\ ~Fits(cur)
  /\ heap[cur].next = Null
  /\ pc' = "panic"
  /\ UNCHANGED <<heap, live, req, cur>>

(* The header of b moves up by pad bytes, which go to the block before it. *)
MoveHeader(h, b, pad) ==
  LET moved == b + pad IN
  [a \in (DOMAIN h \ {b}) \union {moved} |->
     LET old == IF a = moved THEN b ELSE a IN
     [next |-> IF a = h[b].prev THEN moved ELSE h[old].next,
      prev |-> IF a = h[b].next THEN moved ELSE h[old].prev,
      sz   |-> IF a = moved THEN h[b].sz - pad
               ELSE IF a = h[b].prev THEN h[a].sz + pad ELSE h[a].sz,
      free |-> h[old].free]]

RemainderNoHdr(h, b, sz) == h[b].sz - sz
Remainder(h, b, sz)      == h[b].sz - sz - Hdr  \* what a split of b leaves

SplitCopiesPrev(h, b, sz) ==
  LET new == Data(b) + sz IN
  [a \in DOMAIN h \union {new} |->
     IF a = new THEN [h[b] EXCEPT !.sz = Remainder(h, b, sz)]
     ELSE IF a = b THEN [h[b] EXCEPT !.next = new, !.sz = sz, !.free = FALSE]
     ELSE h[a]]

(* Block b keeps sz bytes; a free block takes the rest.  The block after   *)
(* b keeps its prev: the code does not point it at the new header.         *)
Split(h, b, sz) ==
  LET new == Data(b) + sz IN
  [a \in DOMAIN h \union {new} |->
     [next |-> IF a = new THEN h[b].next ELSE IF a = b THEN new ELSE h[a].next,
      prev |-> IF a = new THEN b ELSE h[a].prev,
      sz   |-> IF a = new THEN Remainder(h, b, sz)
               ELSE IF a = b THEN sz ELSE h[a].sz,
      free |-> IF a = new THEN TRUE ELSE IF a = b THEN FALSE ELSE h[a].free]]

(* The bytes the split has left for the new header are not checked again   *)
(* after padding: with fewer than Hdr the header runs into the next block  *)
(* (and its uint32_t size, negative here, wraps).  "broken" is terminal.   *)
Overruns(b) == heap[b].sz - Pad(Data(b), req.align) < req.sz + Hdr

Place ==
  /\ pc = "scan"
  /\ Suitable(cur)
  /\ LET pad == Pad(Data(cur), req.align)
         blk == cur + pad
         h   == IF pad = 0 THEN heap ELSE MoveHeader(heap, cur, pad)
     IN  /\ heap' = Split(h, blk, req.sz)
         /\ live' = live \union
                      {[ptr |-> Data(blk), sz |-> req.sz, align |-> req.align]}
  /\ pc'  = IF Overruns(cur) THEN "broken" ELSE "idle"
  /\ req' = NoRequest
  /\ cur' = HeapStart

-----------------------------------------------------------------------------
(* Block a takes over block b: both merges of heap_free. *)
Absorb(h, a, b) ==
  [c \in DOMAIN h \ {b} |->
     [next |-> IF c = a THEN h[b].next ELSE h[c].next,
      prev |-> IF c = h[b].next THEN a ELSE h[c].prev,
      sz   |-> IF c = a THEN h[a].sz + Hdr + h[b].sz ELSE h[c].sz,
      free |-> h[c].free]]

Merges(h, b)     == b # Null /\ h[b].free   \* is b a free neighbour?

MergeNextNever(h, b) == h
MergeNext(h, b) ==
  IF Merges(h, h[b].next) THEN Absorb(h, b, h[b].next) ELSE h

MergePrev(h, b) ==
  IF Merges(h, h[b].prev)
  THEN Absorb(h, h[b].prev, b)
  ELSE [h EXCEPT ![b].free = TRUE]

(* Does b's prev name the block whose next is b? *)
PrevRight(h, b) ==
  IF b = HeapStart
  THEN h[b].prev = Null
  ELSE h[b].prev \in DOMAIN h /\ h[h[b].prev].next = b

(* heap_free(a.ptr), of an allocation the caller holds.  Acting on a prev  *)
(* that Split left behind ends in "broken": a block the list has lost, or, *)
(* when prev is no header any more, whatever its old bytes hold now.       *)
Free(a) ==
  LET b == a.ptr - Hdr IN
  /\ pc = "idle"
  /\ live' = live \ {a}
  /\ heap' = IF heap[b].prev \in DOMAIN heap \union {Null}
             THEN MergePrev(MergeNext(heap, b), b)
             ELSE heap
  /\ pc'   = IF PrevRight(heap, b) THEN "idle" ELSE "broken"
  /\ UNCHANGED <<req, cur>>

Scan == Skip \/ OutOfMemory \/ Place

Next ==
  \/ \E r \in Requests : Request(r)
  \/ Scan
  \/ \E a \in live : Free(a)

(* heap_alloc runs to its end once called. *)
Spec == Init /\ [][Next]_vars /\ WF_vars(Scan)

-----------------------------------------------------------------------------
TypeOK ==
  /\ heap \in [DOMAIN heap -> Block]
  /\ DOMAIN heap \subseteq Nat
  /\ live \subseteq Alloc
  /\ pc \in {"idle", "scan", "panic", "broken"}
  /\ req \in Requests \union {NoRequest}
  /\ cur \in Nat

(* Everything below is promised until the first step that breaks the list. *)
Intact == pc # "broken"

(* The blocks tile the heap: each one ends where its next begins, the last *)
(* one ends with the heap, and no two share a byte (the header arithmetic  *)
(* of padding, splitting and merging).                                     *)
Tiled(h) ==
  /\ HeapStart \in DOMAIN h
  /\ \A b \in DOMAIN h :
       /\ HeapStart <= b /\ h[b].sz >= 0 /\ EndOf(h, b) <= HeapEnd
       /\ IF h[b].next = Null
          THEN EndOf(h, b) = HeapEnd
          ELSE h[b].next = EndOf(h, b) /\ h[b].next \in DOMAIN h
  /\ \A b, c \in DOMAIN h : b < c => EndOf(h, b) <= c
BlocksTile == Intact => Tiled(heap)

(* heap_free's merging is complete, and allocation never undoes it: no     *)
(* free block is followed by a free block.                                 *)
Merged(h) ==
  \A b \in DOMAIN h : h[b].free /\ h[b].next # Null => ~h[h[b].next].free
FreeBlocksMerged == Intact => Merged(heap)

(* The prev of a free block, which padding writes through, is right even   *)
(* though Split leaves others behind.                                      *)
FreePrevRight(h) ==
  /\ PrevRight(h, HeapStart)
  /\ \A b \in DOMAIN h : h[b].free => PrevRight(h, b)
PaddingFollowsRightPrev == Intact => FreePrevRight(heap)

(* The used blocks are the clients' allocations, each one large enough,    *)
(* aligned as asked, and in a block of its own: nothing is leaked by the   *)
(* heap, nothing is handed out twice.                                      *)
LiveHeld ==
  /\ \A a \in live : /\ a.ptr - Hdr \in DOMAIN heap
                     /\ ~heap[a.ptr - Hdr].free
                     /\ a.sz <= heap[a.ptr - Hdr].sz
                     /\ a.ptr % a.align = 0
  /\ \A b \in DOMAIN heap : ~heap[b].free => \E a \in live : a.ptr = Data(b)
  /\ \A a, c \in live : a.ptr = c.ptr => a = c
AllocationsHeld == Intact => LiveHeld

(* The search passes over unsuitable blocks only, so that it places a      *)
(* request at the first fit, and "No block available" is said of a heap    *)
(* that has none.                                                          *)
FirstFit ==
  pc \in {"scan", "panic"} =>
    /\ cur \in DOMAIN heap
    /\ \A b \in DOMAIN heap : b < cur => ~Suitable(b)
    /\ pc = "panic" => \A b \in DOMAIN heap : ~Fits(b)

(* Once every allocation is given back, the heap is the single free block  *)
(* heap_init made: padding and headers are all recovered.                  *)
EmptyHeapIsWhole ==
  Intact /\ live = {} =>
    heap = [b \in {HeapStart} |->
             [next |-> Null, prev |-> Null, sz |-> HeapSize - Hdr, free |-> TRUE]]

(* No step takes bytes from an allocation a client still holds, or moves   *)
(* or frees its header (a block may grow, by the padding of the next).     *)
HeldBlockKept(a) ==
  LET b == a.ptr - Hdr IN
  b \in DOMAIN heap' /\ ~heap'[b].free /\ heap'[b].sz >= heap[b].sz
HeldBlocksKept ==
  [][Intact' => \A a \in live \intersect live' : HeldBlockKept(a)]_vars

(* Every request is answered: the search ends, with a block or a panic.    *)
RequestsAnswered == pc = "scan" ~> pc # "scan"

(* heap_alloc and heap_free are the allocator heap.h promises: in the      *)
(* region, aligned, disjoint from all that is held - as long as the list   *)
(* is whole, since a broken heap takes no further step here.               *)
Promise == INSTANCE Allocator
IsAllocator == Promise!Spec

-----------------------------------------------------------------------------
(* What the comments say, and the code does not do.                        *)

(* heap.h says of prev "Pointer to prev header", and heap_free's drawing   *)
(* has it inverse to next: every block's prev is the block before it.      *)
PrevIsInverseOfNext == \A b \in DOMAIN heap : PrevRight(heap, b)

(* heap_alloc "check[s] if the updated size is still enough": the header   *)
(* of the free remainder stays inside the block that was split.            *)
SplitHeaderFits == \A b \in DOMAIN heap : heap[b].sz >= 0

=============================================================================
