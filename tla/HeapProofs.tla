----------------------------- MODULE HeapProofs -----------------------------
(***************************************************************************)
(* Proofs about the heap, for every heap size, base address, set of        *)
(* requests and number of live allocations that HeapAssumption allows.     *)
(*                                                                         *)
(* The argument: Shape, what the block list looks like between two calls,  *)
(* is preserved by each piece of header arithmetic on its own (MoveHeader, *)
(* Split, Absorb, clearing `free'), so by the two operations composed of   *)
(* them.  LiveHeld ties the clients' allocations to used blocks; UsedKept  *)
(* says that an operation leaves the used blocks it is not about alone.    *)
(***************************************************************************)
EXTENDS Heap, TLAPS


(* A list of headers, whatever their fields say. *)
IsList(h) == h \in [DOMAIN h -> Block] /\ DOMAIN h \subseteq Nat
(* The region is made of natural addresses, and NULL is not one of them.   *)
LEMMA HeapEndNat == HeapEnd \in Nat /\ HeapStart \in Nat \ {0}
BY HeapAssumption DEF HeapEnd

(* One block of a tiled list, as arithmetic.                               *)
LEMMA BlockFacts ==
  ASSUME NEW h, IsList(h), Tiled(h), NEW b \in DOMAIN h
  PROVE  /\ b \in Nat /\ HeapStart <= b /\ b # 0
         /\ h[b].next \in Nat /\ h[b].prev \in Nat /\ h[b].sz \in Nat
         /\ h[b].free \in BOOLEAN
         /\ h[b] \in Block
         /\ b + 16 + h[b].sz <= HeapEnd
         /\ h[b].next = 0 => b + 16 + h[b].sz = HeapEnd
         /\ h[b].next # 0 => h[b].next \in DOMAIN h /\ h[b].next = b + 16 + h[b].sz
  <1>1. b \in Nat /\ h[b] \in Block
    BY DEF IsList
  <1>2. /\ HeapStart <= b /\ h[b].sz >= 0 /\ b + 16 + h[b].sz <= HeapEnd
        /\ h[b].next = 0 => b + 16 + h[b].sz = HeapEnd
        /\ h[b].next # 0 => h[b].next \in DOMAIN h /\ h[b].next = b + 16 + h[b].sz
    BY DEF Tiled, EndOf, Data, Hdr, Null
  <1> QED BY <1>1, <1>2, HeapEndNat DEF Block

(* A block ends before the next one up begins.                             *)
LEMMA BlockOrder ==
  ASSUME NEW h, Tiled(h), NEW a \in DOMAIN h, NEW c \in DOMAIN h, a < c
  PROVE  a + 16 + h[a].sz <= c
BY DEF Tiled, EndOf, Data, Hdr

(* The block before b, when b's prev is right, is the one that ends at b.  *)
LEMMA PrevEndsHere ==
  ASSUME NEW h, IsList(h), Tiled(h), NEW b \in DOMAIN h, b # HeapStart,
         PrevRight(h, b)
  PROVE  /\ h[b].prev \in DOMAIN h /\ h[b].prev < b
         /\ h[b].prev + 16 + h[h[b].prev].sz = b
         /\ h[h[b].prev].next = b
  <1>1. h[b].prev \in DOMAIN h /\ h[h[b].prev].next = b
    BY DEF PrevRight
  <1> QED
    BY <1>1, BlockFacts

(* The block list between two calls. *)
Shape(h) == IsList(h) /\ Tiled(h) /\ Merged(h) /\ FreePrevRight(h)

(* From h to g no used block is lost, moved or shrunk, and the only block  *)
(* that becomes used is one of extra.                                      *)
UsedKept(h, g, extra) ==
  /\ \A b \in DOMAIN h : ~h[b].free =>
       b \in DOMAIN g /\ ~g[b].free /\ g[b].sz >= h[b].sz
  /\ \A b \in DOMAIN g : ~g[b].free =>
       b \in extra \/ (b \in DOMAIN h /\ ~h[b].free)

(* Padding (heap.c:53-70): moving the header of a free block up, into the  *)
(* bytes of its own data, and giving the bytes to the used block before    *)
(* it.                                                                     *)
LEMMA MoveHeaderShape ==
  ASSUME NEW h, Shape(h), NEW b \in DOMAIN h, h[b].free, b # HeapStart,
         NEW pad \in 1..15, pad <= h[b].sz
  PROVE  LET g == MoveHeader(h, b, pad) IN
         /\ Shape(g)
         /\ b + pad \in DOMAIN g /\ g[b + pad].free
         /\ g[b + pad].sz = h[b].sz - pad
         /\ UsedKept(h, g, {})
PROOF
  <1> DEFINE g == MoveHeader(h, b, pad)
             p == h[b].prev
             n == h[b].next
             m == b + pad
  <1>0. IsList(h) /\ Tiled(h) /\ Merged(h) /\ FreePrevRight(h)
    BY DEF Shape
  <1>1. /\ b \in Nat /\ h[b] \in Block /\ h[b].sz \in Nat /\ m \in Nat /\ m > b
        /\ n # 0 => n \in DOMAIN h /\ n = b + 16 + h[b].sz /\ n > m
        /\ n = 0 => b + 16 + h[b].sz = HeapEnd
        /\ p \in Nat /\ n \in Nat /\ h[b].next \in Nat /\ h[b].free \in BOOLEAN
        /\ HeapStart <= b
    BY <1>0, BlockFacts
  <1>2. p \in DOMAIN h /\ p < b /\ p + 16 + h[p].sz = b /\ h[p].next = b
    <2>1. PrevRight(h, b)
      BY <1>0 DEF FreePrevRight
    <2> QED
      BY <2>1, <1>0, PrevEndsHere
  <1>3. /\ p \in Nat /\ h[p] \in Block /\ h[p].sz \in Nat /\ p # 0 /\ p # b /\ p # m
        /\ HeapStart <= p
    BY <1>0, <1>1, <1>2, BlockFacts
  <1>4. ~h[p].free
    BY <1>0, <1>1, <1>2 DEF Merged, Null
  <1>5. m \notin DOMAIN h
    BY <1>0, <1>1, BlockOrder
  <1>a. m # n /\ m # p /\ m # b
    BY <1>1, <1>3
  <1>6. n # 0 => n # p /\ n # b /\ n # m /\ h[n] \in Block
    BY <1>0, <1>1, <1>2, <1>3, BlockFacts
  <1>d. DOMAIN g = (DOMAIN h \ {b}) \union {m}
    BY DEF MoveHeader
  <1>m. /\ g[m].next = n /\ g[m].prev = p /\ g[m].sz = h[b].sz - pad
        /\ g[m].free = h[b].free
    BY <1>a DEF MoveHeader
  <1>f. ASSUME NEW a \in DOMAIN h, a # b
        PROVE  /\ g[a].next = IF a = p THEN m ELSE h[a].next
               /\ g[a].prev = IF a = n THEN m ELSE h[a].prev
               /\ g[a].sz = IF a = p THEN h[a].sz + pad ELSE h[a].sz
               /\ g[a].free = h[a].free
    <2>1. a # m /\ a \in (DOMAIN h \ {b}) \union {m}
      BY <1>5, <1>f
    <2> QED
      BY <2>1 DEF MoveHeader
  <1>8. IsList(g)
    <2>1. DOMAIN g \subseteq Nat
      BY <1>0, <1>1, <1>d DEF IsList
    <2>2. ASSUME NEW a \in DOMAIN g PROVE g[a] \in Block
      <3>1. /\ g[a].next \in Nat /\ g[a].prev \in Nat /\ g[a].sz \in Int
            /\ g[a].free \in BOOLEAN
        <4>1. CASE a = m
          <5>1. h[b].sz - pad \in Int
            BY <1>1
          <5> QED
            BY <1>1, <1>3, <1>m, <4>1, <5>1
        <4>2. CASE a \in DOMAIN h /\ a # b
          <5>1. /\ h[a].next \in Nat /\ h[a].prev \in Nat /\ h[a].sz \in Nat
                /\ h[a].free \in BOOLEAN
            BY <1>0, <4>2, BlockFacts
          <5> QED
            BY <1>1, <1>f, <4>2, <5>1
        <4> QED
          BY <1>d, <4>1, <4>2
      <3>2. g[a] = [next |-> g[a].next, prev |-> g[a].prev, sz |-> g[a].sz, free |-> g[a].free]
        BY DEF MoveHeader
      <3> HIDE DEF m, p, n, g
      <3> QED
        BY <3>1, <3>2 DEF Block
    <2>3. g = [a \in DOMAIN g |-> g[a]]
      BY DEF MoveHeader
    <2> HIDE DEF g
    <2> QED
      BY <2>1, <2>2, <2>3 DEF IsList
  <1> HIDE DEF g
  <1>i. /\ p \in DOMAIN h /\ p # b
        /\ \A a \in DOMAIN h : a # p => h[a].next # b
    BY <1>0, <1>1, <1>2, <1>3, BlockFacts, BlockOrder
  <1>9. Tiled(g)
    <2>1. HeapStart \in DOMAIN g
      BY <1>0, <1>d, <1>m, <1>f DEF Tiled
    <2>2. HeapStart <= m /\ m + 16 + g[m].sz = b + 16 + h[b].sz /\ g[m].sz >= 0
      BY <1>1, <1>d, <1>m, <1>f, HeapEndNat
    <2>3. ASSUME NEW a \in DOMAIN g
          PROVE  /\ HeapStart <= a /\ g[a].sz >= 0 /\ a + 16 + g[a].sz <= HeapEnd
                 /\ g[a].next = 0 => a + 16 + g[a].sz = HeapEnd
                 /\ g[a].next # 0 => g[a].next = a + 16 + g[a].sz /\ g[a].next \in DOMAIN g
      <3>1. CASE a = m
        <4>1. b + 16 + h[b].sz <= HeapEnd
          BY <1>0, BlockFacts
        <4> QED
          BY <1>1, <1>6, <1>d, <1>m, <1>f, <2>2, <3>1, <4>1, HeapEndNat
      <3>2. CASE a = p
        <4>1. m <= HeapEnd
          BY <1>0, <1>1, BlockFacts, HeapEndNat
        <4> QED
          BY <1>1, <1>2, <1>3, <1>d, <1>m, <1>f, <3>2, <4>1
      <3>3. CASE a \in DOMAIN h /\ a # p /\ a # b
        <4>1. h[a].next # b
          BY <1>0, <1>1, <1>2, <1>3, <3>3, BlockFacts, BlockOrder
        <4> QED
          BY <1>0, <1>d, <1>m, <1>f, <3>3, <4>1, BlockFacts
      <3> QED
        BY <1>d, <1>m, <1>f, <3>1, <3>2, <3>3
    <2>4. ASSUME NEW a \in DOMAIN g, NEW c \in DOMAIN g, a < c
          PROVE  a + 16 + g[a].sz <= c
      <3>1. CASE a = m
        BY <1>0, <1>1, <1>d, <1>m, <1>f, <2>2, <2>4, <3>1, BlockFacts, BlockOrder
      <3>2. CASE a = p
        BY <1>0, <1>1, <1>2, <1>3, <1>d, <1>m, <1>f, <2>4, <3>2, BlockFacts, BlockOrder
      <3>3. CASE a \in DOMAIN h /\ a # p /\ a # b /\ c = m
        BY SMTT(30), <1>0, <1>1, <1>2, <1>3, <1>d, <1>m, <1>f, <2>4, <3>3, BlockFacts, BlockOrder
      <3>4. CASE a \in DOMAIN h /\ a # p /\ a # b /\ c # m
        BY <1>0, <1>1, <1>d, <1>m, <1>f, <2>4, <3>4, BlockFacts, BlockOrder
      <3> QED
        BY <1>d, <1>m, <1>f, <3>1, <3>2, <3>3, <3>4
    <2> QED
      BY <2>1, <2>3, <2>4 DEF Tiled, EndOf, Data, Hdr, Null
  <1>10. Merged(g)
    <2> SUFFICES ASSUME NEW a \in DOMAIN g, g[a].free, g[a].next # 0
                 PROVE  ~g[g[a].next].free
      BY DEF Merged, Null
    <2>1. CASE a = m
      BY <1>0, <1>1, <1>6, <1>d, <1>m, <1>f, <2>1 DEF Merged, Null
    <2>2. CASE a \in DOMAIN h /\ a # p /\ a # b
      <3>1. h[a].next # b /\ h[a].next \in DOMAIN h /\ ~h[h[a].next].free
        BY <1>0, <1>1, <1>2, <1>3, <1>d, <1>m, <1>f, <2>2, BlockFacts, BlockOrder DEF Merged, Null
      <3> QED
        BY <1>d, <1>m, <1>f, <2>2, <3>1
    <2> QED
      BY <1>2, <1>3, <1>4, <1>d, <1>m, <1>f, <2>1, <2>2
  <1>11. FreePrevRight(g)
    <2>1. g[HeapStart].prev = 0
      <3>1. HeapStart \in DOMAIN h /\ HeapStart # b /\ HeapStart # n /\ h[HeapStart].prev = 0
        BY <1>0, <1>1, HeapEndNat DEF FreePrevRight, PrevRight, Tiled, Null
      <3> QED
        BY <1>f, <3>1
    <2>2. ASSUME NEW a \in DOMAIN g, g[a].free, a # HeapStart
          PROVE  g[a].prev \in DOMAIN g /\ g[g[a].prev].next = a
      <3>1. CASE a = m
        BY <1>2, <1>d, <1>f, <1>m, <1>i, <3>1
      <3>2. CASE a \in DOMAIN h /\ a # b
        <4>1. h[a].free /\ a # p
          BY <1>2, <1>4, <1>f, <1>i, <2>2, <3>2
        <4>2. h[a].prev \in DOMAIN h /\ h[h[a].prev].next = a
          BY <1>0, <2>2, <3>2, <4>1 DEF FreePrevRight, PrevRight
        <4>3. CASE a = n
          BY <1>1, <1>d, <1>f, <1>m, <3>2, <4>3
        <4>4. CASE a # n
          <5>1. h[a].prev # b /\ h[a].prev # p
            BY <1>2, <4>2, <4>4, <3>2
          <5> QED
            BY <1>d, <1>f, <3>2, <4>2, <4>4, <5>1
        <4> QED
          BY <4>3, <4>4
      <3> QED
        BY <1>d, <3>1, <3>2
    <2> QED
      BY <2>1, <2>2 DEF FreePrevRight, PrevRight, Null
  <1>12. UsedKept(h, g, {})
    <2>1. ASSUME NEW a \in DOMAIN h, ~h[a].free
          PROVE  a \in DOMAIN g /\ ~g[a].free /\ g[a].sz >= h[a].sz
      <3>1. a # b /\ h[a].sz \in Nat
        BY <1>0, <2>1, BlockFacts
      <3> QED
        BY <1>d, <1>f, <2>1, <3>1
    <2>2. ASSUME NEW a \in DOMAIN g, ~g[a].free
          PROVE  a \in DOMAIN h /\ ~h[a].free
      BY <1>d, <1>f, <1>m, <2>2
    <2> QED
      BY <2>1, <2>2 DEF UsedKept
  <1> QED
    BY <1>1, <1>d, <1>m, <1>f, <1>8, <1>9, <1>10, <1>11, <1>12 DEF Shape, g

(* The split of heap_alloc (heap.c:76-89), when the remainder has room     *)
(* for a header.  The block after keeps a prev that is wrong from now on:  *)
(* it is a used block (Merged), so FreePrevRight survives.                 *)
LEMMA SplitShape ==
  ASSUME NEW h, Shape(h), NEW b \in DOMAIN h, h[b].free,
         NEW sz \in Nat, sz + 16 <= h[b].sz
  PROVE  LET g == Split(h, b, sz) IN
         /\ Shape(g)
         /\ b \in DOMAIN g /\ ~g[b].free /\ g[b].sz = sz
         /\ UsedKept(h, g, {b})
PROOF
  <1> DEFINE g == Split(h, b, sz)
             n == h[b].next
             new == b + 16 + sz
  <1>0. IsList(h) /\ Tiled(h) /\ Merged(h) /\ FreePrevRight(h)
    BY DEF Shape
  <1>1. /\ b \in Nat /\ h[b].sz \in Nat /\ new \in Nat /\ new > b
        /\ h[b].sz - sz - 16 \in Nat /\ new + 16 + (h[b].sz - sz - 16) = b + 16 + h[b].sz
        /\ n \in Nat /\ h[b].prev \in Nat
        /\ n # 0 => n \in DOMAIN h /\ n = b + 16 + h[b].sz /\ n > new
        /\ n = 0 => b + 16 + h[b].sz = HeapEnd
        /\ b + 16 + h[b].sz <= HeapEnd /\ HeapEnd \in Nat
        /\ HeapStart <= b /\ HeapStart \in Nat /\ HeapStart < new
    BY <1>0, BlockFacts, HeapEndNat
  <1>2. new \notin DOMAIN h /\ new # b
    BY <1>0, <1>1, BlockOrder
  <1>3. n # 0 => ~h[n].free
    BY <1>0 DEF Merged, Null
  <1>4. DOMAIN g = DOMAIN h \union {new}
    BY DEF Split, Remainder, Data, Hdr
  <1>5. /\ g[new].next = n /\ g[new].prev = b
        /\ g[new].sz = h[b].sz - sz - 16
    BY DEF Split, Remainder, Data, Hdr
  <1>v. g[new].free
    BY DEF Split, Remainder, Data, Hdr
  <1>6. ASSUME NEW a \in DOMAIN h
        PROVE  /\ g[a].next = IF a = b THEN new ELSE h[a].next
               /\ g[a].prev = h[a].prev
               /\ g[a].sz = IF a = b THEN sz ELSE h[a].sz
    <2>1. a # new /\ a \in DOMAIN h \union {new}
      BY <1>2
    <2> QED
      BY <2>1 DEF Split, Remainder, Data, Hdr
  <1>w. ASSUME NEW a \in DOMAIN h
        PROVE  g[a].free <=> (a # b /\ h[a].free)
    <2>1. a # new /\ a \in DOMAIN h \union {new}
      BY <1>2
    <2> QED
      BY <2>1 DEF Split, Remainder, Data, Hdr
  <1>7. IsList(g)
    <2>1. DOMAIN g \subseteq Nat
      BY <1>0, <1>1, <1>4 DEF IsList
    <2>2. ASSUME NEW a \in DOMAIN g PROVE g[a] \in Block
      <3>0. g[a].free \in BOOLEAN
        <4>1. CASE a = new
          BY <4>1 DEF Split, Remainder, Data, Hdr
        <4>2. CASE a \in DOMAIN h
          <5>1. h[a].free \in BOOLEAN
            BY <1>0, <4>2, BlockFacts
          <5>2. a # new /\ a \in DOMAIN h \union {new}
            BY <1>2, <4>2
          <5>3. CASE a = b
            BY <5>2, <5>3 DEF Split, Remainder, Data, Hdr
          <5>4. CASE a # b
            BY <5>1, <5>2, <5>4 DEF Split, Remainder, Data, Hdr
          <5> QED
            BY <5>3, <5>4
        <4> QED
          BY <1>4, <4>1, <4>2
      <3>1. g[a].next \in Nat /\ g[a].prev \in Nat /\ g[a].sz \in Int
        <4>1. CASE a = new
          BY <1>1, <1>5, <4>1
        <4>2. CASE a \in DOMAIN h
          <5>1. h[a].next \in Nat /\ h[a].prev \in Nat /\ h[a].sz \in Nat
            BY <1>0, <4>2, BlockFacts
          <5> QED
            BY <1>1, <1>6, <4>2, <5>1
        <4> QED
          BY <1>4, <4>1, <4>2
      <3>2. g[a] = [next |-> g[a].next, prev |-> g[a].prev, sz |-> g[a].sz, free |-> g[a].free]
        BY DEF Split, Remainder, Data, Hdr
      <3> HIDE DEF n, new, g
      <3> QED
        BY <3>0, <3>1, <3>2 DEF Block
    <2>3. g = [a \in DOMAIN g |-> g[a]]
      BY DEF Split, Remainder, Data, Hdr
    <2> HIDE DEF g
    <2> QED
      BY <2>1, <2>2, <2>3 DEF IsList
  <1> HIDE DEF g
  <1>8. Tiled(g)
    <2>1. HeapStart \in DOMAIN g
      BY <1>0, <1>4 DEF Tiled
    <2>2. ASSUME NEW a \in DOMAIN g
          PROVE  /\ HeapStart <= a /\ g[a].sz >= 0 /\ a + 16 + g[a].sz <= HeapEnd
                 /\ g[a].next = 0 => a + 16 + g[a].sz = HeapEnd
                 /\ g[a].next # 0 => g[a].next = a + 16 + g[a].sz /\ g[a].next \in DOMAIN g
      <3>1. CASE a = new
        BY <1>1, <1>4, <1>5, <3>1
      <3>2. CASE a = b
        BY <1>1, <1>4, <1>6, <3>2
      <3>3. CASE a \in DOMAIN h /\ a # b
        BY <1>0, <1>4, <1>6, <3>3, BlockFacts
      <3> QED
        BY <1>4, <3>1, <3>2, <3>3
    <2>3. ASSUME NEW a \in DOMAIN g, NEW c \in DOMAIN g, a < c
          PROVE  a + 16 + g[a].sz <= c
      <3>1. CASE a = new
        BY <1>0, <1>1, <1>4, <1>5, <2>3, <3>1, BlockFacts, BlockOrder
      <3>2. CASE a = b
        BY <1>0, <1>1, <1>4, <1>6, <2>3, <3>2, BlockFacts, BlockOrder
      <3>3. CASE a \in DOMAIN h /\ a # b /\ c = new
        BY <1>0, <1>1, <1>6, <2>3, <3>3, BlockFacts, BlockOrder
      <3>4. CASE a \in DOMAIN h /\ a # b /\ c # new
        BY <1>0, <1>4, <1>6, <2>3, <3>4, BlockOrder
      <3> QED
        BY <1>4, <3>1, <3>2, <3>3, <3>4
    <2> QED
      BY <2>1, <2>2, <2>3 DEF Tiled, EndOf, Data, Hdr, Null
  <1>9. Merged(g)
    <2> SUFFICES ASSUME NEW a \in DOMAIN g, g[a].free, g[a].next # 0
                 PROVE  ~g[g[a].next].free
      BY DEF Merged, Null
    <2>1. CASE a = new
      BY <1>1, <1>3, <1>5, <1>w, <2>1
    <2>2. CASE a \in DOMAIN h
      <3>1. a # b /\ h[a].free
        BY <1>w, <2>2
      <3>2. h[a].next \in DOMAIN h /\ ~h[h[a].next].free
        BY <1>0, <1>6, <2>2, <3>1, BlockFacts DEF Merged, Null
      <3> QED
        BY <1>6, <1>w, <2>2, <3>1, <3>2
    <2> QED
      BY <1>4, <2>1, <2>2
  <1>10. FreePrevRight(g)
    <2>1. g[HeapStart].prev = 0
      <3>1. HeapStart \in DOMAIN h /\ h[HeapStart].prev = 0
        BY <1>0 DEF FreePrevRight, PrevRight, Tiled, Null
      <3> QED
        BY <1>6, <3>1
    <2>2. ASSUME NEW a \in DOMAIN g, g[a].free, a # HeapStart
          PROVE  g[a].prev \in DOMAIN g /\ g[g[a].prev].next = a
      <3>1. CASE a = new
        BY <1>4, <1>5, <1>6, <3>1
      <3>2. CASE a \in DOMAIN h
        <4>1. h[a].free /\ a # b
          BY <1>w, <2>2, <3>2
        <4>2. h[a].prev \in DOMAIN h /\ h[h[a].prev].next = a
          BY <1>0, <2>2, <3>2, <4>1 DEF FreePrevRight, PrevRight
        <4>3. h[a].prev # b
          BY <1>1, <1>3, <4>1, <4>2, <3>2, <1>0, BlockFacts
        <4> QED
          BY <1>4, <1>6, <3>2, <4>2, <4>3
      <3> QED
        BY <1>4, <3>1, <3>2
    <2> QED
      BY <2>1, <2>2 DEF FreePrevRight, PrevRight, Null
  <1>11. UsedKept(h, g, {b})
    <2>1. ASSUME NEW a \in DOMAIN h, ~h[a].free
          PROVE  a \in DOMAIN g /\ ~g[a].free /\ g[a].sz >= h[a].sz
      <3>1. a # b /\ h[a].sz \in Nat
        BY <1>0, <2>1, BlockFacts
      <3>2. ~g[a].free /\ g[a].sz = h[a].sz
        BY <1>6, <1>w, <2>1, <3>1
      <3> QED
        BY <1>4, <2>1, <3>1, <3>2
    <2>2. ASSUME NEW a \in DOMAIN g, ~g[a].free
          PROVE  a \in {b} \/ (a \in DOMAIN h /\ ~h[a].free)
      BY <1>4, <1>v, <1>w, <2>2
    <2> QED
      BY <2>1, <2>2 DEF UsedKept
  <1> QED
    BY <1>4, <1>6, <1>w, <1>7, <1>8, <1>9, <1>10, <1>11 DEF Shape, g

(* A merge of heap_free (heap.c:110-128, 131-152): block a takes over the  *)
(* block after it, its header included.                                    *)
LEMMA AbsorbShape ==
  ASSUME NEW h, Shape(h), NEW a \in DOMAIN h, NEW b, b # 0, h[a].next = b,
         h[a].free /\ h[b].next # 0 => ~h[h[b].next].free
  PROVE  LET g == Absorb(h, a, b) IN
         /\ Shape(g)
         /\ b \in DOMAIN h /\ a # b /\ DOMAIN g = DOMAIN h \ {b}
         /\ g[a].next = h[b].next
         /\ \A c \in DOMAIN g : /\ g[c].free = h[c].free /\ g[c].sz >= h[c].sz
                                /\ PrevRight(h, c) => PrevRight(g, c)
                                /\ c # h[b].next => g[c].prev = h[c].prev
PROOF
  <1> DEFINE g == Absorb(h, a, b)
             n == h[b].next
  <1>0. IsList(h) /\ Tiled(h) /\ Merged(h) /\ FreePrevRight(h)
    BY DEF Shape
  <1>1. /\ a \in Nat /\ HeapStart <= a /\ h[a].sz \in Nat
        /\ b \in DOMAIN h /\ b = a + 16 + h[a].sz /\ h[b].free \in BOOLEAN
    BY <1>0, BlockFacts
  <1>2. /\ b \in Nat /\ h[b].sz \in Nat /\ b + 16 + h[b].sz <= HeapEnd
        /\ n \in Nat
        /\ n # 0 => n \in DOMAIN h /\ n = b + 16 + h[b].sz
        /\ n = 0 => b + 16 + h[b].sz = HeapEnd
        /\ a < b /\ a # b /\ n # a /\ n # b
    BY <1>0, <1>1, BlockFacts, HeapEndNat
  <1>d. DOMAIN g = DOMAIN h \ {b}
    BY DEF Absorb
  <1>f. ASSUME NEW c \in DOMAIN h, c # b
        PROVE  /\ g[c].next = IF c = a THEN n ELSE h[c].next
               /\ g[c].prev = IF c = n THEN a ELSE h[c].prev
               /\ g[c].sz = IF c = a THEN h[a].sz + 16 + h[b].sz ELSE h[c].sz
    BY <1>f DEF Absorb, Hdr
  <1>v. ASSUME NEW c \in DOMAIN h, c # b
        PROVE  g[c].free = h[c].free
    BY <1>v DEF Absorb
  <1>l. IsList(g)
    <2>1. DOMAIN g \subseteq Nat
      BY <1>0, <1>d DEF IsList
    <2>2. ASSUME NEW c \in DOMAIN g PROVE g[c] \in Block
      <3>1. /\ h[c].next \in Nat /\ h[c].prev \in Nat /\ h[c].sz \in Nat
            /\ h[c].free \in BOOLEAN
        BY <1>0, <1>d, BlockFacts
      <3>2. /\ g[c].next \in Nat /\ g[c].prev \in Nat /\ g[c].sz \in Int
        BY <1>1, <1>2, <1>d, <1>f, <3>1
      <3>3. g[c].free \in BOOLEAN
        BY <1>d, <1>v, <3>1
      <3>4. g[c] = [next |-> g[c].next, prev |-> g[c].prev, sz |-> g[c].sz, free |-> g[c].free]
        BY DEF Absorb
      <3> HIDE DEF n, g
      <3> QED
        BY <3>2, <3>3, <3>4 DEF Block
    <2>3. g = [c \in DOMAIN g |-> g[c]]
      BY DEF Absorb
    <2> HIDE DEF g
    <2> QED
      BY <2>1, <2>2, <2>3 DEF IsList
  <1> HIDE DEF g
  <1>i. \A c \in DOMAIN h : c # a => h[c].next # b
    BY <1>0, <1>1, <1>2, BlockFacts, BlockOrder
  <1>t. Tiled(g)
    <2>1. HeapStart \in DOMAIN g
      BY <1>0, <1>1, <1>2, <1>d, HeapEndNat DEF Tiled
    <2>2. ASSUME NEW c \in DOMAIN g
          PROVE  /\ HeapStart <= c /\ g[c].sz >= 0 /\ c + 16 + g[c].sz <= HeapEnd
                 /\ g[c].next = 0 => c + 16 + g[c].sz = HeapEnd
                 /\ g[c].next # 0 => g[c].next = c + 16 + g[c].sz /\ g[c].next \in DOMAIN g
      <3>1. CASE c = a
        BY <1>1, <1>2, <1>d, <1>f, <3>1
      <3>2. CASE c \in DOMAIN h /\ c # a /\ c # b
        BY <1>0, <1>d, <1>f, <1>i, <3>2, BlockFacts
      <3> QED
        BY <1>d, <3>1, <3>2
    <2>3. ASSUME NEW c \in DOMAIN g, NEW e \in DOMAIN g, c < e
          PROVE  c + 16 + g[c].sz <= e
      <3>1. CASE c = a
        <4>1. e > b
          BY <1>0, <1>1, <1>2, <1>d, <2>3, <3>1, BlockFacts, BlockOrder
        <4>2. b + 16 + h[b].sz <= e
          BY <1>0, <1>1, <1>d, <4>1, BlockOrder
        <4> QED
          BY <1>1, <1>2, <1>f, <3>1, <4>2
      <3>2. CASE c # a
        BY <1>0, <1>d, <1>f, <2>3, <3>2, BlockOrder
      <3> QED
        BY <3>1, <3>2
    <2> QED
      BY <2>1, <2>2, <2>3 DEF Tiled, EndOf, Data, Hdr, Null
  <1>m. Merged(g)
    <2> SUFFICES ASSUME NEW c \in DOMAIN g, g[c].free, g[c].next # 0
                 PROVE  ~g[g[c].next].free
      BY DEF Merged, Null
    <2>1. CASE c = a
      BY <1>1, <1>2, <1>d, <1>f, <1>v, <2>1
    <2>2. CASE c # a
      <3>1. h[c].next \in DOMAIN h /\ h[c].next # b /\ ~h[h[c].next].free
        BY <1>0, <1>d, <1>f, <1>v, <1>i, <2>2, BlockFacts DEF Merged, Null
      <3> QED
        BY <1>d, <1>f, <1>v, <2>2, <3>1
    <2> QED
      BY <2>1, <2>2
  <1>p. ASSUME NEW c \in DOMAIN g, PrevRight(h, c)
        PROVE  PrevRight(g, c)
    <2>1. CASE c = HeapStart
      <3>1. c # n /\ h[c].prev = 0
        BY <1>1, <1>2, <1>p, <2>1, HeapEndNat DEF PrevRight, Null
      <3> QED
        BY <1>d, <1>f, <2>1, <3>1 DEF PrevRight, Null
    <2>2. CASE c # HeapStart
      <3>1. g[c].prev \in DOMAIN g /\ g[g[c].prev].next = c
        <4>1. CASE c = n
          BY <1>1, <1>2, <1>d, <1>f, <4>1
        <4>2. CASE c # n
          <5>1. h[c].prev \in DOMAIN h /\ h[h[c].prev].next = c
            BY <1>p, <2>2 DEF PrevRight
          <5>2. h[c].prev # b /\ h[c].prev # a
            BY <1>d, <4>2, <5>1
          <5> QED
            BY <1>d, <1>f, <4>2, <5>1, <5>2
        <4> QED
          BY <4>1, <4>2
      <3> QED
        BY <2>2, <3>1 DEF PrevRight
    <2> QED
      BY <2>1, <2>2
  <1>r. FreePrevRight(g)
    <2>1. PrevRight(g, HeapStart)
      BY <1>0, <1>t, <1>p DEF FreePrevRight, Tiled
    <2>2. ASSUME NEW c \in DOMAIN g, g[c].free
          PROVE  PrevRight(g, c)
      <3>1. h[c].free
        BY <1>d, <1>v, <2>2
      <3>2. PrevRight(h, c)
        BY <1>0, <1>d, <3>1 DEF FreePrevRight
      <3> QED
        BY <1>p, <3>2
    <2> QED
      BY <2>1, <2>2 DEF FreePrevRight
  <1>s. ASSUME NEW c \in DOMAIN g
        PROVE  g[c].free = h[c].free /\ g[c].sz >= h[c].sz
    <2>1. h[c].sz \in Nat
      BY <1>0, <1>d, BlockFacts
    <2> QED
      BY <1>1, <1>2, <1>d, <1>f, <1>v, <2>1
  <1>q. ASSUME NEW c \in DOMAIN g, c # n
        PROVE  g[c].prev = h[c].prev
    BY <1>d, <1>f, <1>q
  <1>z. g[a].next = n
    BY <1>2, <1>d, <1>f
  <1> QED
    BY <1>1, <1>2, <1>d, <1>l, <1>t, <1>m, <1>r, <1>p, <1>s, <1>q, <1>z DEF Shape, g

(* heap.c:155: a used block between used neighbours becomes free.          *)
LEMMA ReleaseShape ==
  ASSUME NEW h, Shape(h), NEW b \in DOMAIN h, PrevRight(h, b),
         h[b].next # 0 => ~h[h[b].next].free,
         b # HeapStart => ~h[h[b].prev].free
  PROVE  LET g == [h EXCEPT ![b].free = TRUE] IN
         /\ Shape(g) /\ DOMAIN g = DOMAIN h
         /\ \A c \in DOMAIN g : /\ g[c].sz = h[c].sz
                                /\ g[c].free <=> (c = b \/ h[c].free)
PROOF
  <1> DEFINE g == [h EXCEPT ![b].free = TRUE]
  <1>0. IsList(h) /\ Tiled(h) /\ Merged(h) /\ FreePrevRight(h)
    BY DEF Shape
  <1>1. DOMAIN g = DOMAIN h
    OBVIOUS
  <1>2. ASSUME NEW c \in DOMAIN h
        PROVE  g[c].next = h[c].next /\ g[c].prev = h[c].prev /\ g[c].sz = h[c].sz
    OBVIOUS
  <1>3. ASSUME NEW c \in DOMAIN h
        PROVE  g[c].free <=> (c = b \/ h[c].free)
    OBVIOUS
  <1>l. IsList(g)
    <2>1. ASSUME NEW c \in DOMAIN h PROVE g[c] \in Block
      <3>1. h[c] \in Block
        BY <1>0, BlockFacts
      <3>2. CASE c # b
        BY <3>1, <3>2
      <3>3. CASE c = b
        <4>1. g[b] = [h[b] EXCEPT !.free = TRUE]
          OBVIOUS
        <4>2. [h[b] EXCEPT !.free = TRUE] \in Block
          BY <3>1, <3>3 DEF Block
        <4> QED
          BY <3>3, <4>1, <4>2
      <3> QED
        BY <3>2, <3>3
    <2>2. g = [c \in DOMAIN h |-> g[c]]
      OBVIOUS
    <2> HIDE DEF g
    <2> QED
      BY <1>0, <1>1, <2>1, <2>2 DEF IsList
  <1> HIDE DEF g
  <1>t. Tiled(g)
    <2>1. HeapStart \in DOMAIN g
      BY <1>0, <1>1 DEF Tiled
    <2>2. ASSUME NEW c \in DOMAIN g
          PROVE  /\ HeapStart <= c /\ g[c].sz >= 0 /\ c + 16 + g[c].sz <= HeapEnd
                 /\ g[c].next = 0 => c + 16 + g[c].sz = HeapEnd
                 /\ g[c].next # 0 => g[c].next = c + 16 + g[c].sz /\ g[c].next \in DOMAIN g
      BY <1>0, <1>1, <1>2, BlockFacts
    <2>3. ASSUME NEW c \in DOMAIN g, NEW e \in DOMAIN g, c < e
          PROVE  c + 16 + g[c].sz <= e
      BY <1>0, <1>1, <1>2, <2>3, BlockOrder
    <2> QED
      BY <2>1, <2>2, <2>3 DEF Tiled, EndOf, Data, Hdr, Null
  <1>p. ASSUME NEW c \in DOMAIN h, PrevRight(h, c)
        PROVE  PrevRight(g, c)
    BY <1>1, <1>2, <1>p DEF PrevRight
  <1>m. Merged(g)
    <2> SUFFICES ASSUME NEW c \in DOMAIN g, g[c].free, g[c].next # 0
                 PROVE  ~g[g[c].next].free
      BY DEF Merged, Null
    <2>1. h[c].next \in DOMAIN h /\ g[c].next = h[c].next /\ h[c].next # c
      BY <1>0, <1>1, <1>2, BlockFacts
    <2>2. ~h[h[c].next].free
      BY <1>0, <1>1, <1>2, <1>3, <2>1 DEF Merged, Null
    <2>3. h[c].next # b
      <3> SUFFICES ASSUME h[c].next = b
                   PROVE  FALSE
        OBVIOUS
      <3>1. c # b /\ h[c].free /\ HeapStart <= c /\ c < b
        BY <1>0, <1>1, <1>2, <1>3, <2>1, BlockFacts, HeapEndNat
      <3>2. h[b].prev \in DOMAIN h /\ h[h[b].prev].next = b /\ b # HeapStart
        BY <1>0, <1>1, <3>1, BlockFacts, HeapEndNat DEF PrevRight
      <3>3. h[b].prev = c
        <4>1. /\ h[b].prev < b /\ h[b].prev + 16 + h[h[b].prev].sz = b
              /\ c + 16 + h[c].sz = b /\ c \in Nat /\ h[b].prev \in Nat
              /\ h[c].sz \in Nat /\ h[h[b].prev].sz \in Nat
          BY <1>0, <1>1, <2>1, <3>1, <3>2, BlockFacts
        <4> QED
          BY <1>0, <1>1, <3>2, <4>1, BlockOrder
      <3> QED
        BY <3>1, <3>2, <3>3
    <2> QED
      BY <1>3, <2>1, <2>2, <2>3
  <1>r. FreePrevRight(g)
    <2>1. ASSUME NEW c \in DOMAIN g, g[c].free
          PROVE  PrevRight(g, c)
      BY <1>0, <1>1, <1>3, <1>p, <2>1 DEF FreePrevRight
    <2>2. PrevRight(g, HeapStart)
      BY <1>0, <1>1, <1>p, <1>t DEF FreePrevRight, Tiled
    <2> QED
      BY <2>1, <2>2 DEF FreePrevRight
  <1> QED
    BY <1>1, <1>2, <1>3, <1>l, <1>t, <1>m, <1>r DEF Shape, g

(* The first half of heap_free: afterwards the next block is not free.     *)
LEMMA MergeNextShape ==
  ASSUME NEW h, Shape(h), NEW b \in DOMAIN h, ~h[b].free, PrevRight(h, b)
  PROVE  LET m == MergeNext(h, b) IN
         /\ Shape(m) /\ b \in DOMAIN m /\ ~m[b].free /\ PrevRight(m, b)
         /\ m[b].next # 0 => ~m[m[b].next].free
         /\ \A c \in DOMAIN m : /\ c \in DOMAIN h /\ m[c].free = h[c].free
                                /\ m[c].sz >= h[c].sz
         /\ \A c \in DOMAIN h : ~h[c].free => c \in DOMAIN m
PROOF
  <1> DEFINE m == MergeNext(h, b)
             n == h[b].next
  <1>0. IsList(h) /\ Tiled(h) /\ Merged(h) /\ FreePrevRight(h)
    BY DEF Shape
  <1>1. /\ b \in Nat /\ HeapStart <= b /\ h[b].sz \in Nat
        /\ n # 0 => n \in DOMAIN h /\ n > b
    BY <1>0, BlockFacts
  <1>2. CASE n # 0 /\ h[n].free
    <2>1. m = Absorb(h, b, n)
      BY <1>2 DEF MergeNext, Merges, Null
    <2>2. /\ Shape(m) /\ DOMAIN m = DOMAIN h \ {n} /\ b # n
          /\ m[b].next = h[n].next
          /\ \A c \in DOMAIN m : /\ m[c].free = h[c].free /\ m[c].sz >= h[c].sz
                                 /\ PrevRight(h, c) => PrevRight(m, c)
                                 /\ c # h[n].next => m[c].prev = h[c].prev
      BY <1>2, <2>1, AbsorbShape
    <2>3. h[n].next # 0 => /\ h[n].next \in DOMAIN m
                           /\ ~h[h[n].next].free
      <3>1. n \in DOMAIN h /\ n > b /\ n \in Nat /\ h[n].sz \in Nat
        BY <1>0, <1>1, <1>2, BlockFacts
      <3>2. h[n].next # 0 => h[n].next \in DOMAIN h /\ h[n].next = n + 16 + h[n].sz
        BY <1>0, <3>1, BlockFacts
      <3>3. h[n].next # 0 => ~h[h[n].next].free
        BY <1>0, <1>2, <3>1 DEF Merged, Null
      <3> QED
        BY <1>1, <2>2, <3>1, <3>2, <3>3, HeapEndNat
    <2> HIDE DEF m
    <2> QED
      BY <1>2, <2>2, <2>3 DEF m
  <1>3. CASE ~(n # 0 /\ h[n].free)
    <2>1. m = h
      BY <1>3 DEF MergeNext, Merges, Null
    <2>2. \A c \in DOMAIN h : h[c].sz >= h[c].sz
      BY <1>0, BlockFacts
    <2> QED
      BY <1>3, <2>1, <2>2
  <1> QED
    BY <1>2, <1>3

(* The second half of heap_free, once the next block is not free.          *)
LEMMA MergePrevShape ==
  ASSUME NEW h, Shape(h), NEW b \in DOMAIN h, ~h[b].free, PrevRight(h, b),
         h[b].next # 0 => ~h[h[b].next].free
  PROVE  LET g == MergePrev(h, b) IN
         /\ Shape(g)
         /\ \A c \in DOMAIN h : ~h[c].free /\ c # b =>
              c \in DOMAIN g /\ ~g[c].free /\ g[c].sz >= h[c].sz
         /\ \A c \in DOMAIN g : ~g[c].free =>
              c \in DOMAIN h /\ c # b /\ ~h[c].free
PROOF
  <1> DEFINE p == h[b].prev
             g == MergePrev(h, b)
  <1>0. IsList(h) /\ Tiled(h)
    BY DEF Shape
  <1>1. /\ b = HeapStart => p = 0
        /\ b # HeapStart => p \in DOMAIN h /\ p # 0 /\ h[p].next = b
    <2>1. b # HeapStart => p \in DOMAIN h /\ p < b /\ h[p].next = b
      BY <1>0, PrevEndsHere
    <2>2. b # HeapStart => p # 0
      BY <1>0, <2>1, BlockFacts
    <2>3. b = HeapStart => p = 0
      BY DEF PrevRight, Null
    <2> QED
      BY <2>1, <2>2, <2>3
  <1>2. CASE p # 0 /\ h[p].free
    <2>1. g = Absorb(h, p, b)
      BY <1>2 DEF MergePrev, Merges, Null
    <2>2. p \in DOMAIN h /\ h[p].next = b /\ b # 0
      BY <1>0, <1>1, <1>2, BlockFacts
    <2>3. /\ Shape(g) /\ DOMAIN g = DOMAIN h \ {b}
          /\ \A c \in DOMAIN g : g[c].free = h[c].free /\ g[c].sz >= h[c].sz
      BY <2>1, <2>2, AbsorbShape
    <2> HIDE DEF g
    <2> QED
      BY <1>2, <2>3 DEF g
  <1>3. CASE ~(p # 0 /\ h[p].free)
    <2>1. g = [h EXCEPT ![b].free = TRUE]
      BY <1>3 DEF MergePrev, Merges, Null
    <2>2. /\ Shape(g) /\ DOMAIN g = DOMAIN h
          /\ \A c \in DOMAIN g : g[c].sz = h[c].sz /\ (g[c].free <=> (c = b \/ h[c].free))
      <3>1. b # HeapStart => ~h[h[b].prev].free
        BY <1>1, <1>3
      <3> HIDE DEF g, p
      <3> QED
        BY ZenonT(40), <2>1, <3>1, ReleaseShape
    <2>3. \A c \in DOMAIN h : h[c].sz \in Nat
      BY <1>0, BlockFacts
    <2> HIDE DEF g
    <2> QED
      BY <2>2, <2>3 DEF g
  <1> QED
    BY <1>2, <1>3

(* heap_free of a used block whose prev is right keeps the shape of the    *)
(* list and every other used block.                                        *)
LEMMA FreeShape ==
  ASSUME NEW h, Shape(h), NEW b \in DOMAIN h, ~h[b].free, PrevRight(h, b)
  PROVE  LET g == MergePrev(MergeNext(h, b), b) IN
         /\ Shape(g)
         /\ \A c \in DOMAIN h : ~h[c].free /\ c # b =>
              c \in DOMAIN g /\ ~g[c].free /\ g[c].sz >= h[c].sz
         /\ \A c \in DOMAIN g : ~g[c].free =>
              c \in DOMAIN h /\ c # b /\ ~h[c].free
PROOF
  <1> DEFINE m == MergeNext(h, b)
             g == MergePrev(m, b)
  <1>1. /\ Shape(m) /\ b \in DOMAIN m /\ ~m[b].free /\ PrevRight(m, b)
        /\ m[b].next # 0 => ~m[m[b].next].free
        /\ \A c \in DOMAIN m : /\ c \in DOMAIN h /\ m[c].free = h[c].free
                               /\ m[c].sz >= h[c].sz
        /\ \A c \in DOMAIN h : ~h[c].free => c \in DOMAIN m
    BY MergeNextShape
  <1> HIDE DEF m
  <1>2. /\ Shape(g)
        /\ \A c \in DOMAIN m : ~m[c].free /\ c # b =>
             c \in DOMAIN g /\ ~g[c].free /\ g[c].sz >= m[c].sz
        /\ \A c \in DOMAIN g : ~g[c].free =>
             c \in DOMAIN m /\ c # b /\ ~m[c].free
    BY <1>1, MergePrevShape
  <1> HIDE DEF g
  <1>3. /\ \A c \in DOMAIN h : h[c].sz \in Nat
        /\ \A c \in DOMAIN m : m[c].sz \in Nat
        /\ \A c \in DOMAIN g : g[c].sz \in Nat
    BY <1>1, <1>2, BlockFacts DEF Shape
  <1>4. ASSUME NEW c \in DOMAIN h, ~h[c].free, c # b
        PROVE  c \in DOMAIN g /\ ~g[c].free /\ g[c].sz >= h[c].sz
    BY <1>1, <1>2, <1>3, <1>4
  <1>5. ASSUME NEW c \in DOMAIN g, ~g[c].free
        PROVE  c \in DOMAIN h /\ c # b /\ ~h[c].free
    BY <1>1, <1>2, <1>5
  <1> QED
    BY <1>2, <1>4, <1>5 DEF g, m

(* The padding is less than a header, aligns the data, and is zero for     *)
(* data that is aligned.                                                   *)
LEMMA PadFacts ==
  ASSUME NEW a \in Nat, NEW n \in 1..16
  PROVE  /\ Pad(a, n) \in 0..15
         /\ (a + Pad(a, n)) % n = 0
         /\ a % n = 0 => Pad(a, n) = 0
BY DEF Pad

(* The headers stay headers in a split that overruns its block, too.       *)
LEMMA SplitList ==
  ASSUME NEW h, IsList(h), NEW b \in DOMAIN h, NEW sz \in Nat
  PROVE  IsList(Split(h, b, sz))
PROOF
  <1> DEFINE g == Split(h, b, sz)
             new == b + 16 + sz
  <1>1. DOMAIN g = DOMAIN h \union {new} /\ DOMAIN g \subseteq Nat
    BY DEF Split, Remainder, Data, Hdr, IsList
  <1>2. ASSUME NEW a \in DOMAIN g PROVE g[a] \in Block
    <2>1. /\ b \in Nat /\ h[b].next \in Nat /\ h[b].sz \in Int
      BY DEF IsList, Block
    <2>2. CASE a = new
      <3>1. g[a] = [next |-> h[b].next, prev |-> b, sz |-> h[b].sz - sz - 16, free |-> TRUE]
        BY <2>2 DEF Split, Remainder, Data, Hdr
      <3> HIDE DEF g
      <3> QED
        BY <2>1, <3>1 DEF Block
    <2>3. CASE a # new /\ a \in DOMAIN h
      <3>1. h[a].next \in Nat /\ h[a].prev \in Nat /\ h[a].sz \in Int /\ h[a].free \in BOOLEAN
        BY <2>3 DEF IsList, Block
      <3>2. CASE a = b
        <4>1. g[a] = [next |-> new, prev |-> h[a].prev, sz |-> sz, free |-> FALSE]
          BY <1>1, <2>3, <3>2 DEF Split, Remainder, Data, Hdr
        <4>2. new \in Nat
          BY <1>1
        <4> HIDE DEF g, new
        <4> QED
          BY <3>1, <4>1, <4>2 DEF Block
      <3>3. CASE a # b
        <4>1. g[a] = [next |-> h[a].next, prev |-> h[a].prev, sz |-> h[a].sz, free |-> h[a].free]
          BY <1>1, <2>3, <3>3 DEF Split, Remainder, Data, Hdr
        <4> HIDE DEF g
        <4> QED
          BY <3>1, <4>1 DEF Block
      <3> QED
        BY <3>2, <3>3
    <2> QED
      BY <1>1, <2>2, <2>3
  <1>3. g = [a \in DOMAIN g |-> g[a]]
    BY DEF Split
  <1> HIDE DEF g
  <1>4. IsList(g)
    BY <1>1, <1>2, <1>3 DEF IsList
  <1> QED
    BY <1>4 DEF g

(* ... and in a merge with any two addresses.                              *)
LEMMA AbsorbList ==
  ASSUME NEW h, IsList(h), NEW a \in Nat, NEW b \in DOMAIN h
  PROVE  IsList(Absorb(h, a, b)) /\ DOMAIN Absorb(h, a, b) = DOMAIN h \ {b}
PROOF
  <1> DEFINE g == Absorb(h, a, b)
  <1>1. DOMAIN g = DOMAIN h \ {b} /\ DOMAIN g \subseteq Nat
    BY DEF Absorb, IsList
  <1>2. ASSUME NEW c \in DOMAIN g PROVE g[c] \in Block
    <2>1. h[b].next \in Nat /\ h[b].sz \in Int
      BY DEF IsList, Block
    <2>2. h[c].next \in Nat /\ h[c].prev \in Nat /\ h[c].sz \in Int /\ h[c].free \in BOOLEAN
      BY <1>1 DEF IsList, Block
    <2>3. g[c].next \in Nat /\ g[c].prev \in Nat /\ g[c].sz \in Int
      <3>1. /\ g[c].next = IF c = a THEN h[b].next ELSE h[c].next
            /\ g[c].prev = IF c = h[b].next THEN a ELSE h[c].prev
            /\ g[c].sz = IF c = a THEN h[a].sz + 16 + h[b].sz ELSE h[c].sz
        BY <1>1 DEF Absorb, Hdr
      <3> HIDE DEF g
      <3> QED
        BY <2>1, <2>2, <3>1
    <2>4. g[c].free \in BOOLEAN
      BY <1>1, <2>2 DEF Absorb
    <2>5. g[c] = [next |-> g[c].next, prev |-> g[c].prev, sz |-> g[c].sz, free |-> g[c].free]
      BY DEF Absorb
    <2> HIDE DEF g
    <2> QED
      BY <2>3, <2>4, <2>5 DEF Block
  <1>3. g = [c \in DOMAIN g |-> g[c]]
    BY DEF Absorb
  <1> HIDE DEF g
  <1>4. IsList(g)
    BY <1>1, <1>2, <1>3 DEF IsList
  <1> QED
    BY <1>1, <1>4 DEF g

(* ... and so in every heap_free, whatever prev says.                      *)
LEMMA FreeList ==
  ASSUME NEW h, IsList(h), NEW b \in DOMAIN h,
         h[b].next # 0 => h[b].next \in DOMAIN h /\ h[b].next # b
  PROVE  IsList(MergePrev(MergeNext(h, b), b))
PROOF
  <1> DEFINE m == MergeNext(h, b)
  <1>1. IsList(m) /\ b \in DOMAIN m
    <2>1. CASE h[b].next # 0 /\ h[h[b].next].free
      <3>1. m = Absorb(h, b, h[b].next)
        BY <2>1 DEF MergeNext, Merges, Null
      <3>2. b \in Nat
        BY DEF IsList
      <3> HIDE DEF m
      <3> QED
        BY ZenonT(40), <2>1, <3>1, <3>2, AbsorbList
    <2>2. CASE ~(h[b].next # 0 /\ h[h[b].next].free)
      BY <2>2 DEF MergeNext, Merges, Null
    <2> QED
      BY <2>1, <2>2
  <1> HIDE DEF m
  <1> DEFINE g == MergePrev(m, b)
  <1>2. m[b] \in Block /\ m[b].prev \in Nat
    BY <1>1 DEF IsList, Block
  <1>3. CASE m[b].prev # 0 /\ m[m[b].prev].free
    <2>1. g = Absorb(m, m[b].prev, b)
      BY <1>3 DEF MergePrev, Merges, Null
    <2> HIDE DEF g
    <2>2. IsList(g)
      BY <1>1, <1>2, <2>1, AbsorbList
    <2> QED
      BY <2>2 DEF g, m
  <1>4. CASE ~(m[b].prev # 0 /\ m[m[b].prev].free)
    <2>1. g = [m EXCEPT ![b].free = TRUE]
      BY <1>4 DEF MergePrev, Merges, Null
    <2>2. [m[b] EXCEPT !.free = TRUE] \in Block
      BY <1>2 DEF Block
    <2>3. [m EXCEPT ![b].free = TRUE] = [m EXCEPT ![b] = [m[b] EXCEPT !.free = TRUE]]
      OBVIOUS
    <2>4. IsList([m EXCEPT ![b] = [m[b] EXCEPT !.free = TRUE]])
      BY <1>1, <2>2 DEF IsList
    <2> QED
      BY <2>1, <2>3, <2>4 DEF m
  <1> QED
    BY <1>3, <1>4

(* The list heap_alloc splits: b's header moved when there is padding.     *)
Padded(h, b, pad) == IF pad = 0 THEN h ELSE MoveHeader(h, b, pad)

(* Padding or not, heap_alloc splits a free block of a well-shaped list.   *)
LEMMA PaddedShape ==
  ASSUME NEW h, Shape(h), NEW b \in DOMAIN h, h[b].free, NEW pad \in 0..15,
         pad <= h[b].sz, b = HeapStart => pad = 0
  PROVE  LET g == Padded(h, b, pad) IN
         /\ Shape(g)
         /\ b + pad \in DOMAIN g /\ g[b + pad].free
         /\ g[b + pad].sz = h[b].sz - pad
         /\ UsedKept(h, g, {})
PROOF
  <1>1. /\ b \in Nat /\ \A c \in DOMAIN h : h[c].sz \in Nat
    BY BlockFacts DEF Shape
  <1>2. CASE pad = 0
    <2>1. b + pad = b /\ h[b].sz - pad = h[b].sz /\ Padded(h, b, pad) = h
      BY <1>1, <1>2 DEF Padded
    <2>2. UsedKept(h, h, {})
      BY <1>1 DEF UsedKept
    <2> QED
      BY <2>1, <2>2
  <1>3. CASE pad # 0
    <2>1. pad \in 1..15 /\ b # HeapStart /\ Padded(h, b, pad) = MoveHeader(h, b, pad)
      BY <1>3 DEF Padded
    <2> QED
      BY <2>1, MoveHeaderShape
  <1> QED
    BY <1>2, <1>3

(* What the proofs use of a request. *)
RequestFacts(r) == /\ r.sz \in Nat /\ r.align \in 1..16
                   /\ Pad(Data(HeapStart), r.align) = 0

(* What HeapAssumption says of a request; the first block is aligned for   *)
(* all.                                                                    *)
LEMMA RequestsTyped ==
  \A r \in Requests \union {NoRequest} : RequestFacts(r)
PROOF
  <1> SUFFICES ASSUME NEW r \in Requests \union {NoRequest}
               PROVE  RequestFacts(r)
    OBVIOUS
  <1>1. r.sz \in Nat /\ r.align \in 1..16 /\ (HeapStart + 16) % r.align = 0
    BY HeapAssumption, HeapEndNat DEF NoRequest, Hdr
  <1>2. HeapStart + 16 \in Nat
    BY HeapEndNat
  <1> QED
    BY <1>1, <1>2, PadFacts DEF RequestFacts, Data, Hdr

(* Stronger than what is checked in one way only: LiveHeld and the shape   *)
(* are needed together, since it is the used blocks that may have a wrong  *)
(* prev and the free ones that may not.                                    *)
Inv ==
  /\ TypeOK
  /\ Intact => Shape(heap) /\ LiveHeld
  /\ FirstFit
  /\ pc = "scan" => req \in Requests

(* TypeOK, with the heap's part folded.                                    *)
LEMMA TypedList == TypeOK <=> /\ IsList(heap)
                              /\ live \subseteq Alloc
                              /\ pc \in {"idle", "scan", "panic", "broken"}
                              /\ req \in Requests \union {NoRequest}
                              /\ cur \in Nat
BY DEF TypeOK, IsList

(* heap_init establishes the invariant.                                    *)
LEMMA InitInv == Init => Inv
PROOF
  <1> SUFFICES ASSUME Init PROVE Inv
    OBVIOUS
  <1> DEFINE first == [next |-> Null, prev |-> Null, sz |-> HeapSize - Hdr, free |-> TRUE]
  <1>1. heap = [b \in {HeapStart} |-> first] /\ live = {} /\ pc = "idle"
        /\ req = NoRequest /\ cur = HeapStart
    BY DEF Init
  <1>2. first \in Block
    BY HeapAssumption DEF Block, Null, Hdr
  <1>3. /\ DOMAIN heap = {HeapStart}
        /\ heap[HeapStart].next = 0 /\ heap[HeapStart].prev = 0
        /\ heap[HeapStart].sz = HeapSize - 16 /\ heap[HeapStart].free
    BY <1>1 DEF Null, Hdr
  <1>4. IsList(heap)
    BY <1>1, <1>2, HeapEndNat DEF IsList
  <1> HIDE DEF first
  <1>5. Tiled(heap)
    BY <1>3, HeapAssumption, HeapEndNat DEF Tiled, EndOf, Data, Hdr, Null, HeapEnd
  <1>6. Merged(heap) /\ FreePrevRight(heap)
    BY <1>3 DEF Merged, FreePrevRight, PrevRight, Null
  <1>7. LiveHeld
    BY <1>1, <1>3 DEF LiveHeld
  <1>8. FirstFit
    BY <1>1 DEF FirstFit
  <1>9. TypeOK
    BY <1>1, <1>4, TypedList, HeapEndNat
  <1> QED
    BY <1>1, <1>4, <1>5, <1>6, <1>7, <1>8, <1>9 DEF Inv, Shape

(* Entering heap_alloc preserves the invariant.                            *)
LEMMA RequestInv ==
  ASSUME Inv, NEW r \in Requests, Request(r)
  PROVE  Inv'
PROOF
  <1>1. /\ pc = "idle" /\ pc' = "scan" /\ req' = r /\ cur' = HeapStart
        /\ heap' = heap /\ live' = live
    BY DEF Request
  <1>2. TypeOK'
    BY <1>1, HeapEndNat DEF Inv, TypeOK
  <1>3. Shape(heap)' /\ LiveHeld'
    BY <1>1 DEF Inv, Intact, LiveHeld
  <1>4. FirstFit'
    <2>1. IsList(heap) /\ Tiled(heap)
      BY <1>1 DEF Inv, Intact, Shape
    <2>2. HeapStart \in DOMAIN heap
      BY <2>1 DEF Tiled
    <2>3. \A b \in DOMAIN heap : ~(b < HeapStart)
      BY <2>1, BlockFacts, HeapEndNat
    <2> QED
      BY <1>1, <2>2, <2>3 DEF FirstFit
  <1> QED
    BY <1>1, <1>2, <1>3, <1>4 DEF Inv

(* Passing a block over preserves the invariant.                           *)
LEMMA SkipInv ==
  ASSUME Inv, Skip
  PROVE  Inv'
PROOF
  <1>1. /\ pc = "scan" /\ cur' = heap[cur].next /\ heap[cur].next # 0 /\ ~Suitable(cur)
        /\ heap' = heap /\ live' = live /\ pc' = pc /\ req' = req
    BY DEF Skip, Null
  <1>2. /\ Shape(heap) /\ LiveHeld /\ cur \in DOMAIN heap
        /\ \A b \in DOMAIN heap : b < cur => ~Suitable(b)
    BY <1>1 DEF Inv, Intact, FirstFit
  <1>3. IsList(heap) /\ Tiled(heap)
    BY <1>2 DEF Shape
  <1>4. cur \in Nat /\ cur' \in DOMAIN heap /\ cur' = cur + 16 + heap[cur].sz /\ cur' \in Nat
    BY <1>1, <1>2, <1>3, BlockFacts
  <1>5. TypeOK'
    BY <1>1, <1>4 DEF Inv, TypeOK
  <1>6. Shape(heap)' /\ LiveHeld'
    BY <1>1, <1>2 DEF LiveHeld
  <1>7. FirstFit'
    <2>1. ASSUME NEW b \in DOMAIN heap, b < cur'
          PROVE  ~Suitable(b)
      <3>1. b = cur \/ b < cur
        BY <1>2, <1>3, <1>4, <2>1, BlockFacts, BlockOrder
      <3> QED
        BY <1>1, <1>2, <3>1
    <2> QED
      BY <1>1, <1>4, <2>1 DEF FirstFit, Suitable, Fits, FitsPadded
  <1> QED
    BY <1>1, <1>5, <1>6, <1>7 DEF Inv

(* The check after padding (heap.c:49-50) never fails: the bytes reserved  *)
(* for a new header in the first check are more than any padding.          *)
LEMMA FitsMeansSuitable ==
  ASSUME TypeOK, NEW b \in DOMAIN heap, Fits(b)
  PROVE  Suitable(b)
PROOF
  <1>1. b \in Nat /\ heap[b].sz \in Int /\ req.sz \in Nat /\ req.align \in 1..16
    <2>1. heap[b] \in Block /\ b \in Nat
      BY DEF TypeOK
    <2>2. heap[b].sz \in Int
      BY <2>1 DEF Block
    <2>3. req \in Requests \union {NoRequest}
      BY DEF TypeOK
    <2>4. req.sz \in Nat /\ req.align \in 1..16
      BY <2>3, RequestsTyped DEF RequestFacts
    <2> QED
      BY <2>1, <2>2, <2>4
  <1>2. Pad(b + 16, req.align) \in 0..15
    <2>1. b + 16 \in Nat
      BY <1>1
    <2> QED
      BY <1>1, <2>1, PadFacts
  <1> QED
    BY <1>1, <1>2 DEF Suitable, Fits, FitsPadded, Data, Hdr

(* Reaching the end of the list preserves the invariant: nothing fits.     *)
LEMMA OutOfMemoryInv ==
  ASSUME Inv, OutOfMemory
  PROVE  Inv'
PROOF
  <1>1. /\ pc = "scan" /\ pc' = "panic" /\ heap[cur].next = 0 /\ ~Fits(cur)
        /\ heap' = heap /\ live' = live /\ cur' = cur /\ req' = req
    BY DEF OutOfMemory, Null
  <1>2. /\ Shape(heap) /\ LiveHeld /\ cur \in DOMAIN heap /\ TypeOK
        /\ \A b \in DOMAIN heap : b < cur => ~Suitable(b)
    BY <1>1 DEF Inv, Intact, FirstFit
  <1>3. IsList(heap) /\ Tiled(heap)
    BY <1>2 DEF Shape
  <1>4. ASSUME NEW b \in DOMAIN heap
        PROVE  ~Fits(b)
    <2>1. b < cur \/ b = cur
      <3>1. b + 16 + heap[b].sz <= HeapEnd /\ heap[b].sz \in Nat
        BY <1>3, BlockFacts
      <3>2. cur + 16 + heap[cur].sz = HeapEnd /\ cur \in Nat /\ b \in Nat
        BY <1>1, <1>2, <1>3, BlockFacts
      <3>3. cur < b => cur + 16 + heap[cur].sz <= b
        BY <1>2, <1>3, BlockOrder
      <3> QED
        BY <1>2, <1>3, <3>1, <3>2, <3>3, BlockFacts, HeapEndNat
    <2> QED
      BY <1>1, <1>2, <2>1, FitsMeansSuitable
  <1>5. TypeOK'
    BY <1>1, <1>2 DEF TypeOK
  <1>6. Shape(heap)' /\ LiveHeld'
    BY <1>1, <1>2 DEF LiveHeld
  <1>7. FirstFit'
    BY <1>1, <1>2, <1>4 DEF FirstFit, Suitable, Fits, FitsPadded
  <1> QED
    BY <1>1, <1>5, <1>6, <1>7 DEF Inv

(* What Place knows of the block it takes.                                 *)
LEMMA PlaceFacts ==
  ASSUME Inv, Place
  PROVE  LET pad == Pad(Data(cur), req.align)
             h   == Padded(heap, cur, pad)
             blk == cur + pad
             p   == blk + 16
             new == [ptr |-> p, sz |-> req.sz, align |-> req.align]
         IN
         /\ pc = "scan" /\ req.sz \in Nat /\ req.align \in 1..16
         /\ Shape(heap) /\ LiveHeld /\ TypeOK
         /\ Shape(h) /\ UsedKept(heap, h, {})
         /\ blk \in DOMAIN h /\ h[blk].free /\ req.sz <= h[blk].sz
         /\ h[blk].sz = heap[cur].sz - pad
         /\ p \in Nat /\ p % req.align = 0
         /\ heap' = Split(h, blk, req.sz)
         /\ live' = live \union {new}
         /\ new \in Alloc
         /\ ~Overruns(cur) => req.sz + 16 <= h[blk].sz
         /\ pc' = IF Overruns(cur) THEN "broken" ELSE "idle"
         /\ req' = NoRequest /\ cur' = HeapStart
PROOF
  <1> DEFINE pad == Pad(Data(cur), req.align)
             h   == Padded(heap, cur, pad)
             blk == cur + pad
             p   == blk + 16
             new == [ptr |-> p, sz |-> req.sz, align |-> req.align]
  <1>1. pc = "scan" /\ Suitable(cur)
    BY DEF Place
  <1>2. Shape(heap) /\ LiveHeld /\ TypeOK /\ cur \in DOMAIN heap
    BY <1>1 DEF Inv, Intact, FirstFit
  <1>3. req.sz \in Nat /\ req.align \in 1..16 /\ Pad(Data(HeapStart), req.align) = 0
    <2>1. req \in Requests \union {NoRequest}
      BY <1>2 DEF TypeOK
    <2> QED
      BY <2>1, RequestsTyped DEF RequestFacts
  <1>4. cur \in Nat /\ heap[cur].sz \in Nat
    BY <1>2, BlockFacts DEF Shape
  <1>5. /\ pad \in 0..15 /\ (cur + 16 + pad) % req.align = 0
        /\ cur = HeapStart => pad = 0
    <2>1. Data(cur) = cur + 16 /\ Data(cur) \in Nat
      BY <1>4 DEF Data, Hdr
    <2>2. pad \in 0..15 /\ (Data(cur) + pad) % req.align = 0
      BY ONLY <1>3, <2>1, PadFacts
    <2>3. cur = HeapStart => pad = 0
      BY <1>3
    <2> QED
      BY <2>1, <2>2, <2>3
  <1> HIDE DEF pad
  <1>6. p \in Nat /\ p % req.align = 0
    <2>1. cur + 16 + pad = p
      BY <1>4, <1>5
    <2> QED
      BY <1>4, <1>5, <2>1
  <1>7. heap[cur].free /\ heap[cur].sz >= req.sz + 16
    BY <1>1 DEF Suitable, Fits, Hdr
  <1>8. heap[cur].sz - pad >= req.sz /\ pad <= heap[cur].sz
    <2>1. heap[cur].sz - pad >= req.sz
      BY <1>1 DEF Suitable, FitsPadded, pad
    <2> QED
      BY <1>3, <1>4, <1>5, <2>1
  <1>9. /\ Shape(h) /\ blk \in DOMAIN h /\ h[blk].free
        /\ h[blk].sz = heap[cur].sz - pad /\ UsedKept(heap, h, {})
    BY <1>2, <1>5, <1>7, <1>8, PaddedShape
  <1>10. /\ heap' = Split(h, blk, req.sz)
         /\ live' = live \union {new}
    BY DEF Place, Padded, Data, Hdr, pad
  <1>11. new \in Alloc
    BY <1>3, <1>6 DEF Alloc, Hdr
  <1>12. ~Overruns(cur) => req.sz + 16 <= heap[cur].sz - pad
    BY <1>3, <1>4, <1>5 DEF Overruns, Hdr, pad
  <1>13. /\ pc' = IF Overruns(cur) THEN "broken" ELSE "idle"
         /\ req' = NoRequest /\ cur' = HeapStart
    BY DEF Place
  <1>14. req.sz <= h[blk].sz /\ (~Overruns(cur) => req.sz + 16 <= h[blk].sz)
    BY <1>3, <1>4, <1>5, <1>8, <1>9, <1>12
  <1> HIDE DEF h, blk, new
  <1> QED
    BY <1>1, <1>2, <1>3, <1>6, <1>9, <1>10, <1>11, <1>13, <1>14 DEF h, blk, new, pad

(* Placing an allocation preserves the invariant.                          *)
LEMMA PlaceInv ==
  ASSUME Inv, Place
  PROVE  Inv'
PROOF
  <1> DEFINE pad == Pad(Data(cur), req.align)
             h   == Padded(heap, cur, pad)
             blk == cur + pad
             p   == blk + 16
             new == [ptr |-> p, sz |-> req.sz, align |-> req.align]
  <1>1. /\ pc = "scan" /\ req.sz \in Nat /\ req.align \in 1..16
        /\ Shape(heap) /\ LiveHeld /\ TypeOK
        /\ Shape(h) /\ UsedKept(heap, h, {})
        /\ blk \in DOMAIN h /\ h[blk].free /\ req.sz <= h[blk].sz
        /\ p \in Nat /\ p % req.align = 0
        /\ heap' = Split(h, blk, req.sz)
        /\ live' = live \union {new}
        /\ new \in Alloc
        /\ ~Overruns(cur) => req.sz + 16 <= h[blk].sz
        /\ pc' = IF Overruns(cur) THEN "broken" ELSE "idle"
        /\ req' = NoRequest /\ cur' = HeapStart
    BY PlaceFacts
  <1> HIDE DEF pad, h
  <1>2. IsList(h) /\ IsList(heap')
    BY <1>1, SplitList DEF Shape
  <1>3. TypeOK'
    <2>1. live' \subseteq Alloc
      BY <1>1 DEF TypeOK
    <2>2. pc' \in {"idle", "scan", "panic", "broken"}
      BY <1>1
    <2>3. IsList(heap)'
      BY <1>2 DEF IsList
    <2>4. cur' \in Nat /\ req' \in Requests \union {NoRequest}
      BY <1>1, HeapEndNat
    <2> QED
      BY <2>1, <2>2, <2>3, <2>4 DEF TypeOK, IsList
  <1>4. FirstFit'
    BY <1>1 DEF FirstFit
  <1>5. ASSUME Intact'
        PROVE  Shape(heap') /\ LiveHeld'
    <2>1. ~Overruns(cur) /\ req.sz + 16 <= h[blk].sz
      BY <1>1, <1>5 DEF Intact
    <2>2. /\ Shape(heap')
          /\ blk \in DOMAIN heap' /\ ~heap'[blk].free /\ heap'[blk].sz = req.sz
          /\ UsedKept(h, heap', {blk})
      BY ZenonT(40), <1>1, <2>1, SplitShape
    <2> HIDE DEF blk
    <2>3. \A b \in DOMAIN heap : ~heap[b].free => b \in DOMAIN h /\ ~h[b].free /\ h[b].sz >= heap[b].sz
      BY <1>1 DEF UsedKept
    <2>4. \A b \in DOMAIN h : ~h[b].free => b \in DOMAIN heap' /\ ~heap'[b].free /\ heap'[b].sz >= h[b].sz
      BY <2>2 DEF UsedKept
    <2>5. /\ \A b \in DOMAIN heap : heap[b].sz \in Nat
          /\ \A b \in DOMAIN h : h[b].sz \in Nat
          /\ \A b \in DOMAIN heap' : heap'[b].sz \in Nat
      BY <1>1, <2>2, BlockFacts DEF Shape
    <2>6. new.ptr - 16 = blk /\ new.sz = req.sz /\ new.align = req.align /\ new.ptr = Data(blk)
      <3>1. h \in [DOMAIN h -> Block] /\ blk \in Nat
        BY <1>1, <1>2 DEF IsList
      <3> QED
        BY <3>1 DEF Data, Hdr
    <2>7. new.ptr % new.align = 0
      BY <1>1
    <2>a. new \in Alloc /\ live \subseteq Alloc /\ live' = live \union {new}
      BY <1>1 DEF TypeOK
    <2> HIDE DEF new
    <2>8. ASSUME NEW a \in live
          PROVE  /\ a.ptr - Hdr \in DOMAIN heap' /\ ~heap'[a.ptr - Hdr].free
                 /\ a.sz <= heap'[a.ptr - Hdr].sz /\ a.ptr % a.align = 0
                 /\ a.ptr # new.ptr
      <3>1. /\ a.ptr - 16 \in DOMAIN heap /\ ~heap[a.ptr - 16].free
            /\ a.sz <= heap[a.ptr - 16].sz /\ a.ptr % a.align = 0
        BY <1>1 DEF LiveHeld, Hdr
      <3>2. a.sz \in Nat
        BY <2>a DEF Alloc
      <3>3. a.ptr - 16 \in DOMAIN h /\ ~h[a.ptr - 16].free /\ h[a.ptr - 16].sz >= heap[a.ptr - 16].sz
        BY <2>3, <3>1
      <3>4. a.ptr - 16 \in DOMAIN heap' /\ ~heap'[a.ptr - 16].free /\ heap'[a.ptr - 16].sz >= h[a.ptr - 16].sz
        BY <2>4, <3>3
      <3>5. a.ptr - 16 # blk
        BY <1>1, <3>3
      <3> QED
        BY <2>5, <2>6, <3>1, <3>2, <3>3, <3>4, <3>5 DEF Hdr
    <2>9. ASSUME NEW b \in DOMAIN heap', ~heap'[b].free
          PROVE  \E a \in live' : a.ptr = Data(b)
      <3>1. CASE b = blk
        BY <2>a, <2>6, <3>1
      <3>2. CASE b # blk
        <4>1. b \in DOMAIN h /\ ~h[b].free
          BY <2>2, <2>9, <3>2 DEF UsedKept
        <4>2. b \in DOMAIN heap /\ ~heap[b].free
          BY <1>1, <4>1 DEF UsedKept
        <4> QED
          BY <1>1, <2>a, <4>2 DEF LiveHeld
      <3> QED
        BY <3>1, <3>2
    <2>10. \A a, c \in live' : a.ptr = c.ptr => a = c
      BY <1>1, <2>a, <2>8 DEF LiveHeld
    <2>11. ASSUME NEW a \in live'
           PROVE  /\ a.ptr - Hdr \in DOMAIN heap' /\ ~heap'[a.ptr - Hdr].free
                  /\ a.sz <= heap'[a.ptr - Hdr].sz /\ a.ptr % a.align = 0
      <3>1. CASE a = new
        BY <1>1, <2>2, <2>6, <2>7, <3>1 DEF Hdr
      <3> QED
        BY <2>a, <2>8, <3>1
    <2>12. LiveHeld'
      BY <2>9, <2>10, <2>11 DEF LiveHeld, Data, Hdr
    <2> QED
      BY <2>2, <2>12
  <1> QED
    BY <1>1, <1>3, <1>4, <1>5 DEF Inv, Intact, Shape, IsList

(* heap_free preserves the invariant.                                      *)
LEMMA FreeInv ==
  ASSUME Inv, NEW a \in live, Free(a)
  PROVE  Inv'
PROOF
  <1> DEFINE b == a.ptr - Hdr
             g == MergePrev(MergeNext(heap, b), b)
  <1>1. /\ pc = "idle" /\ live' = live \ {a}
        /\ heap' = IF heap[b].prev \in DOMAIN heap \union {Null} THEN g ELSE heap
        /\ pc' = IF PrevRight(heap, b) THEN "idle" ELSE "broken"
        /\ req' = req /\ cur' = cur
    BY DEF Free
  <1>2. Shape(heap) /\ LiveHeld /\ TypeOK
    BY <1>1 DEF Inv, Intact
  <1>3. IsList(heap) /\ Tiled(heap) /\ b \in DOMAIN heap /\ ~heap[b].free
    BY <1>2 DEF Shape, LiveHeld
  <1>4. heap[b].next # 0 => heap[b].next \in DOMAIN heap /\ heap[b].next # b
    BY <1>3, BlockFacts
  <1> HIDE DEF b
  <1>5. IsList(g)
    BY <1>3, <1>4, FreeList
  <1> HIDE DEF g
  <1>6. TypeOK'
    BY <1>1, <1>2, <1>3, <1>5 DEF TypeOK, IsList
  <1>7. FirstFit'
    BY <1>1 DEF FirstFit
  <1>8. ASSUME Intact'
        PROVE  Shape(heap') /\ LiveHeld'
    <2>1. PrevRight(heap, b)
      BY <1>1, <1>8 DEF Intact
    <2>2. heap' = g
      BY <1>1, <2>1 DEF PrevRight
    <2>3. /\ Shape(g)
          /\ \A c \in DOMAIN heap : ~heap[c].free /\ c # b =>
               c \in DOMAIN g /\ ~g[c].free /\ g[c].sz >= heap[c].sz
          /\ \A c \in DOMAIN g : ~g[c].free =>
               c \in DOMAIN heap /\ c # b /\ ~heap[c].free
      BY <1>2, <1>3, <2>1, FreeShape DEF g
    <2>4. ASSUME NEW c \in live'
          PROVE  /\ c.ptr - Hdr \in DOMAIN g /\ ~g[c.ptr - Hdr].free
                 /\ c.sz <= g[c.ptr - Hdr].sz /\ c.ptr % c.align = 0
      <3>1. c \in live /\ c # a /\ c.sz \in Nat /\ c.ptr \in Nat /\ a.ptr \in Nat
        BY <1>1, <1>2 DEF TypeOK, Alloc
      <3>2. /\ c.ptr - Hdr \in DOMAIN heap /\ ~heap[c.ptr - Hdr].free
            /\ c.sz <= heap[c.ptr - Hdr].sz /\ c.ptr % c.align = 0 /\ c.ptr # a.ptr
        BY <1>2, <3>1 DEF LiveHeld
      <3>3. c.ptr - Hdr # b
        BY <3>1, <3>2 DEF b, Hdr
      <3>4. heap[c.ptr - Hdr].sz \in Nat
        BY <1>3, <3>2, BlockFacts
      <3>5. /\ c.ptr - Hdr \in DOMAIN g /\ ~g[c.ptr - Hdr].free
            /\ g[c.ptr - Hdr].sz >= heap[c.ptr - Hdr].sz
        BY <2>3, <3>2, <3>3
      <3>6. g[c.ptr - Hdr].sz \in Nat
        BY <2>3, <3>5, BlockFacts DEF Shape
      <3> QED
        BY <3>1, <3>2, <3>4, <3>5, <3>6
    <2>5. ASSUME NEW c \in DOMAIN g, ~g[c].free
          PROVE  \E e \in live' : e.ptr = Data(c)
      <3>1. c \in DOMAIN heap /\ c # b /\ ~heap[c].free /\ c \in Nat
        BY <1>3, <2>3, <2>5 DEF IsList
      <3>2. PICK e \in live : e.ptr = Data(c)
        BY <1>2, <3>1 DEF LiveHeld
      <3>3. e # a
        BY <3>1, <3>2 DEF b, Data, Hdr
      <3> QED
        BY <1>1, <3>2, <3>3
    <2>6. \A c, e \in live' : c.ptr = e.ptr => c = e
      BY <1>1, <1>2 DEF LiveHeld
    <2>7. LiveHeld'
      BY <2>2, <2>4, <2>5, <2>6 DEF LiveHeld
    <2> QED
      BY <2>2, <2>3, <2>7
  <1> QED
    BY <1>1, <1>6, <1>7, <1>8 DEF Inv, Intact, Shape, IsList

(* Every step preserves the invariant.                                     *)
LEMMA NextInv == Inv /\ [Next]_vars => Inv'
PROOF
  <1> SUFFICES ASSUME Inv, [Next]_vars
               PROVE  Inv'
    OBVIOUS
  <1>1. CASE \E r \in Requests : Request(r)
    BY <1>1, RequestInv
  <1>2. CASE Skip
    BY <1>2, SkipInv
  <1>3. CASE OutOfMemory
    BY <1>3, OutOfMemoryInv
  <1>4. CASE Place
    BY <1>4, PlaceInv
  <1>5. CASE \E a \in live : Free(a)
    BY <1>5, FreeInv
  <1>6. CASE UNCHANGED vars
    <2>1. /\ heap' = heap /\ live' = live /\ pc' = pc /\ req' = req /\ cur' = cur
      BY <1>6 DEF vars
    <2> QED
      BY <2>1 DEF Inv, TypeOK, Intact, Shape, LiveHeld, FirstFit, IsList, Tiled,
                  Merged, FreePrevRight, PrevRight, EndOf, Suitable, Fits, FitsPadded
  <1> QED
    BY <1>1, <1>2, <1>3, <1>4, <1>5, <1>6 DEF Next, Scan

(* The inductive invariant holds of every reachable state.                 *)
THEOREM Invariance == Spec => []Inv
BY InitInv, NextInv, PTL DEF Spec

(* The types hold, even when the list is broken by an overrun or a stale   *)
(* prev.                                                                   *)
THEOREM TypeCorrect == Spec => []TypeOK
  <1>1. Inv => TypeOK
    BY DEF Inv
  <1> QED
    BY <1>1, Invariance, PTL

(* The blocks tile the heap until a header overruns its block or           *)
(* heap_free acts on a stale prev.                                         *)
THEOREM TilingHolds == Spec => []BlocksTile
  <1>1. Inv => BlocksTile
    BY DEF Inv, BlocksTile, Shape
  <1> QED
    BY <1>1, Invariance, PTL

(* No two free blocks are ever adjacent: heap_free's merging is complete.  *)
THEOREM MergingComplete == Spec => []FreeBlocksMerged
  <1>1. Inv => FreeBlocksMerged
    BY DEF Inv, FreeBlocksMerged, Shape
  <1> QED
    BY <1>1, Invariance, PTL

(* heap_alloc pads through right prev pointers only (heap.c:63-66),        *)
(* although its own split leaves wrong ones behind.                        *)
THEOREM PaddingSafe == Spec => []PaddingFollowsRightPrev
  <1>1. Inv => PaddingFollowsRightPrev
    BY DEF Inv, PaddingFollowsRightPrev, Shape
  <1> QED
    BY <1>1, Invariance, PTL

(* The used blocks are the clients' allocations, large enough, aligned     *)
(* and one for each.                                                       *)
THEOREM HoldsAllocations == Spec => []AllocationsHeld
  <1>1. Inv => AllocationsHeld
    BY DEF Inv, AllocationsHeld
  <1> QED
    BY <1>1, Invariance, PTL

(* The search takes the first suitable block, and panics only of a heap    *)
(* without one.                                                            *)
THEOREM FirstFitTaken == Spec => []FirstFit
  <1>1. Inv => FirstFit
    BY DEF Inv
  <1> QED
    BY <1>1, Invariance, PTL

(* A well-shaped list of free blocks is the single block of heap_init.     *)
LEMMA EmptyIsWhole ==
  ASSUME NEW h, Shape(h), \A b \in DOMAIN h : h[b].free
  PROVE  h = [b \in {HeapStart} |->
               [next |-> Null, prev |-> Null, sz |-> HeapSize - Hdr, free |-> TRUE]]
PROOF
  <1>0. IsList(h) /\ Tiled(h) /\ Merged(h) /\ FreePrevRight(h)
    BY DEF Shape
  <1>1. HeapStart \in DOMAIN h
    BY <1>0 DEF Tiled
  <1>2. h[HeapStart].next = 0
    <2>1. h[HeapStart].next # 0 => h[HeapStart].next \in DOMAIN h
      BY <1>0, <1>1, BlockFacts
    <2>2. h[HeapStart].next # 0 => ~h[h[HeapStart].next].free
      BY <1>0, <1>1 DEF Merged, Null
    <2> QED
      BY <2>1, <2>2
  <1>3. /\ HeapStart + 16 + h[HeapStart].sz = HeapEnd /\ h[HeapStart].sz \in Nat
        /\ HeapSize \in Nat /\ HeapEnd = HeapStart + HeapSize
    BY <1>0, <1>1, <1>2, BlockFacts, HeapAssumption DEF HeapEnd
  <1>4. DOMAIN h = {HeapStart}
    <2> SUFFICES ASSUME NEW c \in DOMAIN h, c # HeapStart
                 PROVE  FALSE
      BY <1>1
    <2>1. /\ c \in Nat /\ HeapStart < c /\ c + 16 + h[c].sz <= HeapEnd
          /\ h[c].sz \in Nat
      BY <1>0, BlockFacts, HeapEndNat
    <2>2. HeapStart + 16 + h[HeapStart].sz <= c
      BY <1>0, <1>1, <2>1, BlockOrder
    <2> QED
      BY <1>3, <2>1, <2>2, HeapEndNat
  <1>5. h[HeapStart].prev = 0
    BY <1>0 DEF FreePrevRight, PrevRight, Null
  <1>6. h[HeapStart].sz = HeapSize - 16
    BY <1>3, HeapEndNat
  <1>7. h[HeapStart].free = TRUE
    BY <1>0, <1>1, BlockFacts
  <1>8. h[HeapStart] \in Block
    BY <1>0, <1>1, BlockFacts
  <1>9. h[HeapStart] = [next |-> 0, prev |-> 0, sz |-> HeapSize - 16, free |-> TRUE]
    BY <1>2, <1>5, <1>6, <1>7, <1>8 DEF Block
  <1>10. h = [b \in DOMAIN h |-> h[b]]
    BY <1>0 DEF IsList
  <1> QED
    BY <1>4, <1>9, <1>10 DEF Null, Hdr

(* When everything is given back, the heap is as heap_init left it.        *)
THEOREM EmptyHeap == Spec => []EmptyHeapIsWhole
  <1>1. Inv => EmptyHeapIsWhole
    <2> SUFFICES ASSUME Inv, Intact, live = {}
                 PROVE  heap = [b \in {HeapStart} |->
                   [next |-> Null, prev |-> Null, sz |-> HeapSize - Hdr, free |-> TRUE]]
      BY DEF EmptyHeapIsWhole
    <2>1. Shape(heap) /\ LiveHeld
      BY DEF Inv
    <2>2. \A b \in DOMAIN heap : heap[b].free
      BY <2>1 DEF LiveHeld
    <2> QED
      BY <2>1, <2>2, EmptyIsWhole
  <1> QED
    BY <1>1, Invariance, PTL

(* One step of Place or Free leaves the blocks of the other allocations    *)
(* alone.                                                                  *)
LEMMA StepKeepsHeld ==
  ASSUME Inv, [Next]_vars, Intact'
  PROVE  \A a \in live \intersect live' : HeldBlockKept(a)
PROOF
  <1> SUFFICES ASSUME NEW a \in live \intersect live'
               PROVE  HeldBlockKept(a)
    OBVIOUS
  <1> DEFINE k == a.ptr - Hdr
  <1>1. CASE heap' = heap
    <2>1. Shape(heap) /\ LiveHeld
      <3>1. pc # "broken"
        <4>1. CASE UNCHANGED vars
          BY <4>1 DEF vars, Intact
        <4>2. CASE Next
          BY <4>2 DEF Next, Scan, Request, Skip, OutOfMemory, Place, Free
        <4> QED
          BY <4>1, <4>2
      <3> QED
        BY <3>1 DEF Inv, Intact
    <2>2. k \in DOMAIN heap /\ ~heap[k].free
      BY <2>1 DEF LiveHeld
    <2>3. heap[k].sz \in Nat
      BY <2>1, <2>2, BlockFacts DEF Shape
    <2> QED
      BY <1>1, <2>2, <2>3 DEF HeldBlockKept
  <1>2. CASE Place
    <2> DEFINE pad == Pad(Data(cur), req.align)
               h   == Padded(heap, cur, pad)
               blk == cur + pad
    <2>1. /\ Shape(heap) /\ LiveHeld /\ Shape(h) /\ UsedKept(heap, h, {})
          /\ blk \in DOMAIN h /\ h[blk].free /\ heap' = Split(h, blk, req.sz)
          /\ req.sz \in Nat
          /\ pc' = IF Overruns(cur) THEN "broken" ELSE "idle"
          /\ ~Overruns(cur) => req.sz + 16 <= h[blk].sz
      BY <1>2, PlaceFacts
    <2> HIDE DEF h, blk, pad
    <2>2. req.sz + 16 <= h[blk].sz
      BY <2>1 DEF Intact
    <2>3. Shape(heap') /\ UsedKept(h, heap', {blk})
      BY <2>1, <2>2, SplitShape
    <2>4. k \in DOMAIN heap /\ ~heap[k].free
      BY <2>1 DEF LiveHeld
    <2> HIDE DEF k
    <2>5. k \in DOMAIN h /\ ~h[k].free /\ h[k].sz >= heap[k].sz
      BY <2>1, <2>4 DEF UsedKept
    <2>6. k \in DOMAIN heap' /\ ~heap'[k].free /\ heap'[k].sz >= h[k].sz
      BY <2>3, <2>5 DEF UsedKept
    <2>7. heap[k].sz \in Nat /\ h[k].sz \in Nat /\ heap'[k].sz \in Nat
      BY <2>1, <2>3, <2>4, <2>5, <2>6, BlockFacts DEF Shape
    <2>8. heap'[k].sz >= heap[k].sz
      BY <2>5, <2>6, <2>7
    <2> QED
      BY <2>6, <2>8 DEF HeldBlockKept, k
  <1>3. CASE \E c \in live : Free(c)
    <2>1. PICK c \in live : Free(c)
      BY <1>3
    <2> DEFINE b == c.ptr - Hdr
               g == MergePrev(MergeNext(heap, b), b)
    <2>2. /\ pc = "idle" /\ live' = live \ {c} /\ PrevRight(heap, b)
          /\ heap' = IF heap[b].prev \in DOMAIN heap \union {Null} THEN g ELSE heap
      BY <2>1 DEF Free, Intact
    <2>3. heap' = g
      BY <2>2 DEF PrevRight
    <2>4. Shape(heap) /\ LiveHeld /\ TypeOK
      BY <2>2 DEF Inv, Intact
    <2>5. b \in DOMAIN heap /\ ~heap[b].free
      BY <2>4 DEF LiveHeld
    <2>6. \A e \in DOMAIN heap : ~heap[e].free /\ e # b =>
             e \in DOMAIN g /\ ~g[e].free /\ g[e].sz >= heap[e].sz
      <3> HIDE DEF b
      <3> QED
        BY <2>2, <2>4, <2>5, FreeShape
    <2>7. k \in DOMAIN heap /\ ~heap[k].free /\ k # b
      <3>1. a # c /\ a \in live
        BY <2>2
      <3>2. a.ptr # c.ptr /\ a.ptr \in Nat /\ c.ptr \in Nat
        BY <2>4, <3>1 DEF LiveHeld, TypeOK, Alloc
      <3>3. k \in DOMAIN heap /\ ~heap[k].free
        BY <2>4, <3>1 DEF LiveHeld
      <3> QED
        BY <3>2, <3>3 DEF Hdr
    <2> HIDE DEF g, b, k
    <2>8. k \in DOMAIN heap' /\ ~heap'[k].free /\ heap'[k].sz >= heap[k].sz
      BY <2>3, <2>6, <2>7
    <2> QED
      BY <2>8 DEF HeldBlockKept, k
  <1>4. CASE UNCHANGED vars \/ (\E r \in Requests : Request(r)) \/ Skip \/ OutOfMemory
    BY <1>1, <1>4 DEF vars, Request, Skip, OutOfMemory
  <1> QED
    BY <1>2, <1>3, <1>4 DEF Next, Scan

(* No step takes bytes from, moves or frees a block a client still holds.  *)
THEOREM HeldKept == Spec => HeldBlocksKept
  <1>1. Inv /\ [Next]_vars => [Intact' => \A a \in live \intersect live' : HeldBlockKept(a)]_vars
    BY StepKeepsHeld
  <1> QED
    BY <1>1, Invariance, PTL DEF Spec, HeldBlocksKept

(* A placement is an Allocate of the abstract allocator, also when the     *)
(* remainder's header overruns: the allocation itself lies in the block.   *)
LEMMA PlaceAllocates ==
  ASSUME Inv, Place
  PROVE  Promise!Next
PROOF
  <1> DEFINE pad == Pad(Data(cur), req.align)
             h   == Padded(heap, cur, pad)
             blk == cur + pad
             p   == blk + 16
             new == [ptr |-> p, sz |-> req.sz, align |-> req.align]
  <1>1. /\ req.sz \in Nat /\ req.align \in 1..16
        /\ Shape(heap) /\ LiveHeld /\ TypeOK /\ Shape(h) /\ UsedKept(heap, h, {})
        /\ blk \in DOMAIN h /\ h[blk].free /\ req.sz <= h[blk].sz
        /\ p \in Nat /\ p % req.align = 0
        /\ live' = live \union {new}
    BY PlaceFacts
  <1>2. req \in Requests
    BY DEF Inv, Place
  <1> HIDE DEF h, blk, pad
  <1>3. /\ blk \in Nat /\ HeapStart <= blk /\ h[blk].sz \in Nat
        /\ blk + 16 + h[blk].sz <= HeapEnd
    BY <1>1, BlockFacts DEF Shape
  <1>4. p \in HeapStart..(HeapStart + HeapSize) /\ p + req.sz <= HeapStart + HeapSize
    BY <1>1, <1>3, HeapEndNat DEF HeapEnd
  <1>5. ASSUME NEW a \in live
        PROVE  (a.ptr + a.sz <= p \/ p + req.sz <= a.ptr) /\ a.ptr # p
    <2> DEFINE k == a.ptr - 16
    <2>1. a.ptr \in Nat /\ a.sz \in Nat
      BY <1>1 DEF TypeOK, Alloc
    <2>2. k \in DOMAIN heap /\ ~heap[k].free /\ a.sz <= heap[k].sz
      BY <1>1 DEF LiveHeld, Hdr
    <2> HIDE DEF k
    <2>3. k \in DOMAIN h /\ ~h[k].free /\ h[k].sz >= heap[k].sz
      BY <1>1, <2>2 DEF UsedKept
    <2>4. k # blk
      BY <1>1, <2>3
    <2>5. k \in Nat /\ heap[k].sz \in Nat /\ h[k].sz \in Nat
      BY <1>1, <2>2, <2>3, BlockFacts DEF Shape
    <2>6. k < blk => k + 16 + h[k].sz <= blk
      BY <1>1, <2>3, BlockOrder DEF Shape
    <2>7. blk < k => blk + 16 + h[blk].sz <= k
      BY <1>1, <2>3, BlockOrder DEF Shape
    <2>8. a.ptr = k + 16
      BY <2>1 DEF k
    <2> QED
      BY <1>1, <1>3, <2>1, <2>2, <2>3, <2>4, <2>5, <2>6, <2>7, <2>8
  <1> HIDE DEF p
  <1>6. /\ new = [ptr |-> p, sz |-> req.sz, align |-> req.align]
        /\ new.ptr = p /\ new.sz = req.sz
    OBVIOUS
  <1>7. ASSUME NEW a \in live PROVE Promise!Disjoint(a, new) /\ a.ptr # p
    BY <1>5, <1>6 DEF Promise!Disjoint
  <1>8. Promise!Allocate(req, p)
    BY <1>1, <1>4, <1>7 DEF Promise!Allocate
  <1> QED
    BY <1>2, <1>4, <1>8 DEF Promise!Next

(* Every step is a step of the abstract allocator or leaves `live' alone.  *)
LEMMA StepIsPromised == Inv /\ [Next]_vars => [Promise!Next]_live
PROOF
  <1> SUFFICES ASSUME Inv, [Next]_vars
               PROVE  Promise!Next \/ live' = live
    BY DEF vars
  <1>1. CASE Place
    BY <1>1, PlaceAllocates
  <1>2. CASE \E a \in live : Free(a)
    BY <1>2 DEF Free, Promise!Next, Promise!Release
  <1>3. CASE UNCHANGED vars \/ (\E r \in Requests : Request(r)) \/ Skip \/ OutOfMemory
    BY <1>3 DEF vars, Request, Skip, OutOfMemory
  <1> QED
    BY <1>1, <1>2, <1>3 DEF Next, Scan

(* heap_alloc and heap_free implement the allocator heap.h promises, as    *)
(* long as the list is whole.                                              *)
THEOREM HeapIsAllocator == Spec => IsAllocator
  <1>1. Init => Promise!Init
    BY DEF Init, Promise!Init
  <1> QED
    BY <1>1, StepIsPromised, Invariance, PTL DEF Spec, IsAllocator, Promise!Spec
=============================================================================
