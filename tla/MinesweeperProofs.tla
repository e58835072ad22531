------------------------- MODULE MinesweeperProofs -------------------------
(***************************************************************************)
(* For a board of any size and any number of bombs: Minesweeper plays the  *)
(* game of Minefield, opens no bomb on its own, sees that the player won,  *)
(* and its queue holds no tile twice.                                      *)
(***************************************************************************)
EXTENDS Minesweeper, TLAPS, FiniteSetTheorems

-----------------------------------------------------------------------------
(* The tiles in a queue, and that none is there twice. *)
Items(q)    == {q[i] : i \in 1..Len(q)}
Distinct(q) == \A i, j \in 1..Len(q) : q[i] = q[j] => i = j

Row(y, x) == {<<y, x - 1>>, <<y, x>>, <<y, x + 1>>}
Box(y, x) == Row(y - 1, x) \union Row(y, x) \union Row(y + 1, x)

(* queue_push adds its tile, and only it, if it is one of S. *)
LEMMA PushAdds ==
  ASSUME NEW q \in Seq(Tiles), NEW S \in SUBSET Tiles, NEW t
  PROVE  /\ Push(q, S, t) \in Seq(Tiles)
         /\ Items(Push(q, S, t)) = Items(q) \union (S \intersect {t})
         /\ Distinct(q) /\ t \notin Items(q) \intersect S => Distinct(Push(q, S, t))
<1>1. CASE t \notin S
  BY <1>1 DEF Push
<1>2. CASE t \in S
  <2> DEFINE r == Append(q, t)
  <2>1. Push(q, S, t) = r /\ t \in Tiles
    BY <1>2 DEF Push
  <2>2. r \in Seq(Tiles) /\ Len(r) = Len(q) + 1 /\ Len(q) \in Nat
    BY <2>1
  <2>3. (\A i \in 1..Len(q) : r[i] = q[i]) /\ r[Len(q) + 1] = t
    BY <2>1
  <2> HIDE DEF r
  <2>4. Items(r) = Items(q) \union {t}
    BY <2>2, <2>3 DEF Items
  <2>5. ASSUME Distinct(q), t \notin Items(q) \intersect S PROVE Distinct(r)
    BY <1>2, <2>2, <2>3, <2>5 DEF Items, Distinct
  <2> QED
    BY <1>2, <2>1, <2>2, <2>4, <2>5
<1> QED
  BY <1>1, <1>2

LEMMA PushRowAdds ==
  ASSUME NEW q \in Seq(Tiles), NEW S \in SUBSET Tiles, NEW y \in Int, NEW x \in Int
  PROVE  /\ PushRow(q, S, y, x) \in Seq(Tiles)
         /\ Items(PushRow(q, S, y, x)) = Items(q) \union (S \intersect Row(y, x))
         /\ Distinct(q) /\ Items(q) \intersect S \intersect Row(y, x) = {}
              => Distinct(PushRow(q, S, y, x))
<1> DEFINE a == Push(q, S, <<y, x - 1>>)
           b == Push(a, S, <<y, x>>)
           e == Push(b, S, <<y, x + 1>>)
<1>1. /\ a \in Seq(Tiles)
      /\ Items(a) = Items(q) \union (S \intersect {<<y, x - 1>>})
      /\ Distinct(q) /\ <<y, x - 1>> \notin Items(q) \intersect S => Distinct(a)
  BY PushAdds
<1> HIDE DEF a
<1>2. /\ b \in Seq(Tiles)
      /\ Items(b) = Items(a) \union (S \intersect {<<y, x>>})
      /\ Distinct(a) /\ <<y, x>> \notin Items(a) \intersect S => Distinct(b)
  BY <1>1, PushAdds
<1> HIDE DEF b
<1>3. /\ e \in Seq(Tiles)
      /\ Items(e) = Items(b) \union (S \intersect {<<y, x + 1>>})
      /\ Distinct(b) /\ <<y, x + 1>> \notin Items(b) \intersect S => Distinct(e)
  BY <1>2, PushAdds
<1> HIDE DEF e
<1>4. PushRow(q, S, y, x) = e
  BY DEF PushRow, a, b, e
<1>5. /\ <<y, x - 1>> # <<y, x>> /\ <<y, x - 1>> # <<y, x + 1>>
      /\ <<y, x>> # <<y, x + 1>>
  OBVIOUS
<1>6. Items(e) = Items(q) \union (S \intersect Row(y, x))
  BY <1>1, <1>2, <1>3 DEF Row
<1>7. ASSUME Distinct(q), Items(q) \intersect S \intersect Row(y, x) = {}
      PROVE  Distinct(e)
  <2>1. Distinct(a)
    BY <1>1, <1>7 DEF Row
  <2>2. Distinct(b)
    BY <1>1, <1>2, <1>5, <1>7, <2>1 DEF Row
  <2> QED
    BY <1>1, <1>2, <1>3, <1>5, <1>7, <2>2 DEF Row
<1> QED
  BY <1>3, <1>4, <1>6, <1>7

(* A turn of the flood adds the tiles of S that touch <<y, x>>, each once. *)
LEMMA PushAroundAdds ==
  ASSUME NEW q \in Seq(Tiles), NEW S \in SUBSET Tiles, NEW y \in Int, NEW x \in Int
  PROVE  /\ PushAround(q, S, <<y, x>>) \in Seq(Tiles)
         /\ Items(PushAround(q, S, <<y, x>>)) = Items(q) \union (S \intersect Box(y, x))
         /\ Distinct(q) /\ Items(q) \intersect S \intersect Box(y, x) = {}
              => Distinct(PushAround(q, S, <<y, x>>))
<1> DEFINE a == PushRow(q, S, y - 1, x)
           b == PushRow(a, S, y, x)
           e == PushRow(b, S, y + 1, x)
<1>0. y - 1 \in Int /\ y + 1 \in Int
  OBVIOUS
<1>1. /\ a \in Seq(Tiles)
      /\ Items(a) = Items(q) \union (S \intersect Row(y - 1, x))
      /\ Distinct(q) /\ Items(q) \intersect S \intersect Row(y - 1, x) = {} => Distinct(a)
  BY <1>0, PushRowAdds
<1> HIDE DEF a
<1>2. /\ b \in Seq(Tiles)
      /\ Items(b) = Items(a) \union (S \intersect Row(y, x))
      /\ Distinct(a) /\ Items(a) \intersect S \intersect Row(y, x) = {} => Distinct(b)
  BY <1>1, PushRowAdds
<1> HIDE DEF b
<1>3. /\ e \in Seq(Tiles)
      /\ Items(e) = Items(b) \union (S \intersect Row(y + 1, x))
      /\ Distinct(b) /\ Items(b) \intersect S \intersect Row(y + 1, x) = {} => Distinct(e)
  BY <1>0, <1>2, PushRowAdds
<1> HIDE DEF e
<1>4. PushAround(q, S, <<y, x>>) = e
  BY DEF PushAround, a, b, e
<1>5. /\ Row(y - 1, x) \intersect Row(y, x) = {}
      /\ Row(y - 1, x) \intersect Row(y + 1, x) = {}
      /\ Row(y, x) \intersect Row(y + 1, x) = {}
  BY DEF Row
<1>6. Items(e) = Items(q) \union (S \intersect Box(y, x))
  BY <1>1, <1>2, <1>3 DEF Box
<1>7. ASSUME Distinct(q), Items(q) \intersect S \intersect Box(y, x) = {}
      PROVE  Distinct(e)
  <2>1. Distinct(a)
    BY <1>1, <1>7 DEF Box
  <2>2. Distinct(b)
    BY <1>1, <1>2, <1>5, <1>7, <2>1 DEF Box
  <2> QED
    BY <1>1, <1>2, <1>3, <1>5, <1>7, <2>2 DEF Box
<1> QED
  BY <1>3, <1>4, <1>6, <1>7

-----------------------------------------------------------------------------
(* The box around a tile: the tile is in it, the nine places of Box cover  *)
(* it, and touching goes both ways.                                        *)
LEMMA AroundBox ==
  ASSUME NEW p \in Tiles
  PROVE  /\ p \in Around[p] /\ Around[p] \subseteq Tiles
         /\ p[1] \in Int /\ p[2] \in Int /\ p = <<p[1], p[2]>>
         /\ Around[p] \subseteq Box(p[1], p[2])
         /\ \A t \in Tiles : t \in Around[p] => p \in Around[t]
<1>1. \A u \in Tiles : u[1] \in Int /\ u[2] \in Int /\ u = <<u[1], u[2]>>
  BY BoardAssumption DEF Tiles
<1>2. \A u, t \in Tiles :
        t \in Around[u] <=> t[1] - u[1] \in -1..1 /\ t[2] - u[2] \in -1..1
  BY DEF Around
<1>3. Around[p] \subseteq Tiles
  BY DEF Around
<1>4. ASSUME NEW t \in Around[p] PROVE t \in Box(p[1], p[2])
  <2>1. t \in Tiles /\ t[1] - p[1] \in -1..1 /\ t[2] - p[2] \in -1..1
    BY <1>2, <1>3
  <2>2. /\ t[1] = p[1] - 1 \/ t[1] = p[1] \/ t[1] = p[1] + 1
        /\ t[2] = p[2] - 1 \/ t[2] = p[2] \/ t[2] = p[2] + 1
        /\ t = <<t[1], t[2]>>
    BY <1>1, <2>1
  <2> QED
    BY <2>2 DEF Box, Row
<1>5. p \in Around[p]
  BY <1>1, <1>2
<1>6. ASSUME NEW t \in Tiles, t \in Around[p] PROVE p \in Around[t]
  BY <1>1, <1>2, <1>6
<1> QED
  BY <1>1, <1>3, <1>4, <1>5, <1>6

(* generate_grid keeps the first tile, and what touches it, free of bombs. *)
LEMMA FirstTile ==
  ASSUME NEW p \in Tiles, NEW b \in Generated(p)
  PROVE  b \subseteq Tiles /\ b # {} /\ p \notin b /\ AdjacentBombs(b, p) = {}
<1>1. Around[p] \subseteq Zone(p)
  <2> SUFFICES ASSUME NEW t \in Around[p] PROVE t \in Zone(p)
    OBVIOUS
  <2>1. /\ t \in Tiles /\ t[1] - p[1] \in -1..1 /\ t[2] - p[2] \in -1..1
        /\ t[1] \in Int /\ t[2] \in Int /\ p[1] \in Int /\ p[2] \in Int
    BY AroundBox DEF Around
  <2>2. /\ t[1] > p[1] - BOMB_MARGIN /\ t[1] < p[1] + BOMB_MARGIN
        /\ t[2] > p[2] - BOMB_MARGIN /\ t[2] < p[2] + BOMB_MARGIN
    BY <2>1, BoardAssumption
  <2> QED
    BY <2>1, <2>2 DEF Zone
<1>2. b \subseteq Tiles \ Zone(p) /\ b # {}
  BY DEF Generated
<1> QED
  BY <1>1, <1>2, AroundBox DEF AdjacentBombs

-----------------------------------------------------------------------------
(* What the queue and the pending neighbours are, and what the flood has   *)
(* done so far: an open tile without bombs around it is in the queue, or   *)
(* all that touches it is open.                                            *)
QueueInv ==
  /\ Items(queue) \subseteq cleared
  /\ \A t \in Items(queue) : AdjacentBombs(bombs, t) = {}
  /\ Distinct(queue)
TodoInv  == todo \intersect bombs = {}
FloodInv ==
  playing = "true" =>
    \A t \in cleared : AdjacentBombs(bombs, t) = {} =>
      t \in Items(queue) \/ Around[t] \subseteq cleared
PlayInv  ==
  /\ playing = "clear" => bombs = {} /\ cleared = {} /\ flagged = {}
  /\ playing # "true" => Getch
IInv ==
  /\ TypeOK /\ NoBombCleared /\ WinSeen
  /\ QueueInv /\ TodoInv /\ FloodInv /\ PlayInv

LEMMA EmptyQueue == <<>> \in Seq(Tiles) /\ Items(<<>>) = {} /\ Distinct(<<>>)
BY DEF Items, Distinct

LEMMA OneItem ==
  ASSUME NEW p \in Tiles
  PROVE  <<p>> \in Seq(Tiles) /\ Items(<<p>>) = {p} /\ Distinct(<<p>>)
BY DEF Items, Distinct

(* Taking the head off a queue. *)
LEMMA TailItems ==
  ASSUME NEW q \in Seq(Tiles), q # <<>>
  PROVE  /\ Head(q) \in Tiles /\ Tail(q) \in Seq(Tiles)
         /\ Items(q) = {Head(q)} \union Items(Tail(q))
         /\ Distinct(q) => Distinct(Tail(q))
<1>1. /\ Len(q) \in Nat \ {0} /\ Head(q) = q[1] /\ Tail(q) \in Seq(Tiles)
      /\ Len(Tail(q)) = Len(q) - 1
      /\ \A i \in 1..(Len(q) - 1) : Tail(q)[i] = q[i + 1]
  OBVIOUS
<1>2. Head(q) \in Tiles
  BY <1>1
<1> DEFINE r == Tail(q)
<1> HIDE DEF r
<1>3. /\ Len(r) = Len(q) - 1
      /\ \A i \in 1..(Len(q) - 1) : r[i] = q[i + 1]
  BY <1>1 DEF r
<1>4. Items(q) \subseteq {Head(q)} \union Items(r)
  <2> SUFFICES ASSUME NEW i \in 1..Len(q), i # 1 PROVE q[i] \in Items(r)
    BY <1>1 DEF Items
  <2>1. i - 1 \in 1..Len(r) /\ r[i - 1] = q[i - 1 + 1]
    BY <1>1, <1>3
  <2>2. q[i - 1 + 1] = q[i]
    BY <1>1
  <2> QED
    BY <2>1, <2>2 DEF Items
<1>5. {Head(q)} \union Items(r) \subseteq Items(q)
  <2>1. q[1] \in Items(q)
    BY <1>1 DEF Items
  <2>2. ASSUME NEW i \in 1..Len(r) PROVE r[i] \in Items(q)
    <3>1. r[i] = q[i + 1] /\ i + 1 \in 1..Len(q)
      BY <1>1, <1>3
    <3> QED BY <3>1 DEF Items
  <2> QED
    BY <1>1, <2>1, <2>2 DEF Items
<1>6. ASSUME Distinct(q) PROVE Distinct(r)
  <2> SUFFICES ASSUME NEW i \in 1..Len(r), NEW j \in 1..Len(r), r[i] = r[j]
               PROVE  i = j
    BY DEF Distinct
  <2>1. q[i + 1] = q[j + 1] /\ i + 1 \in 1..Len(q) /\ j + 1 \in 1..Len(q)
    BY <1>1, <1>3
  <2>2. i + 1 = j + 1
    BY <1>6, <2>1 DEF Distinct
  <2> QED
    BY <1>1, <1>3, <2>2
<1> QED
  BY <1>1, <1>2, <1>4, <1>5, <1>6 DEF r

-----------------------------------------------------------------------------
LEMMA InitInv == Init => IInv
<1> SUFFICES ASSUME Init PROVE IInv
  OBVIOUS
<1>1. <<(H - 1) \div 2, (W - 1) \div 2>> \in Tiles
  <2>1. \A n \in Nat \ {0} : (n - 1) \div 2 \in 0..(n - 1)
    OBVIOUS
  <2> QED
    BY <2>1, BoardAssumption DEF Tiles
<1> QED
  BY <1>1, EmptyQueue
     DEF Init, Launch, IInv, TypeOK, NoBombCleared, WinSeen, QueueInv, TodoInv,
         FloodInv, PlayInv, Getch

(* What a key does to the grid before anything else. *)
LEMMA KeptInv ==
  ASSUME IInv
  PROVE  /\ Kept(bombs) \subseteq Tiles /\ Kept(cleared) \subseteq Tiles
         /\ Kept(flagged) \subseteq Tiles
         /\ playing # "true" =>
              Kept(bombs) = {} /\ Kept(cleared) = {} /\ Kept(flagged) = {}
         /\ playing = "true" =>
              Kept(bombs) = bombs /\ Kept(cleared) = cleared /\ Kept(flagged) = flagged
BY DEF IInv, TypeOK, PlayInv, Kept

LEMMA KeepGridInv ==
  ASSUME IInv, Getch, KeepGrid, cursor' \in Tiles, UNCHANGED <<queue, todo>>
  PROVE  IInv'
<1> USE DEF IInv
<1>1. queue' = <<>> /\ todo' = {} /\ Items(queue') = {} /\ Distinct(queue') /\ Items(queue) = {}
  BY EmptyQueue DEF Getch
<1>2. CASE playing = "true"
  <2>1. UNCHANGED <<bombs, cleared, flagged, playing>>
    BY <1>2 DEF KeepGrid, Kept
  <2> QED
    BY <1>1, <1>2, <2>1
       DEF TypeOK, NoBombCleared, WinSeen, QueueInv, TodoInv, FloodInv, PlayInv, Getch
<1>3. CASE playing # "true"
  <2>1. playing' = "clear" /\ bombs' = {} /\ cleared' = {} /\ flagged' = {}
    BY <1>3, KeptInv DEF KeepGrid, TypeOK
  <2> QED
    BY <1>1, <2>1, EmptyQueue
       DEF TypeOK, NoBombCleared, WinSeen, QueueInv, TodoInv, FloodInv, PlayInv, Getch
<1> QED
  BY <1>2, <1>3

(* A call of reveal_tiles keeps the invariant, if the game was on or bombs *)
(* were just generated.                                                    *)
LEMMA RevealInv ==
  ASSUME NEW p \in Tiles, NEW b \in SUBSET Tiles, NEW shown \in SUBSET Tiles,
         shown \intersect b = {},
         \A t \in shown : AdjacentBombs(b, t) = {} => Around[t] \subseteq shown,
         bombs' = b, flagged' \subseteq Tiles, ~ (b \subseteq flagged'),
         cursor' \in Tiles,
         Reveal(p, b, shown)
  PROVE  IInv'
<1>1. /\ cleared' = shown \union {p}
      /\ playing' = IF p \in b THEN "false" ELSE "true"
      /\ queue' = IF AdjacentBombs(b, p) = {} THEN <<p>> ELSE <<>>
      /\ todo' = IF p \notin b /\ AdjacentBombs(b, p) # {}
                              /\ AdjacentBombs(b, p) \subseteq flagged'
                THEN Around[p] \ ({p} \union b) ELSE {}
  BY DEF Reveal
<1>2. p \in Around[p] /\ Around[p] \subseteq Tiles
  BY AroundBox
<1>3. p \in b => AdjacentBombs(b, p) # {}
  BY <1>2 DEF AdjacentBombs
<1>4. /\ queue' \in Seq(Tiles) /\ Distinct(queue')
      /\ Items(queue') = IF AdjacentBombs(b, p) = {} THEN {p} ELSE {}
  BY <1>1, EmptyQueue, OneItem
<1>5. todo' \subseteq Tiles /\ todo' \intersect b = {}
  BY <1>1, <1>2
<1>6. TypeOK'
  BY <1>1, <1>4, <1>5 DEF TypeOK
<1>7. NoBombCleared' /\ WinSeen'
  BY <1>1 DEF NoBombCleared, WinSeen
<1>8. QueueInv' /\ TodoInv'
  BY <1>1, <1>4, <1>5 DEF QueueInv, TodoInv, AdjacentBombs
<1>9. FloodInv'
  <2> SUFFICES ASSUME playing' = "true", NEW t \in cleared',
                      AdjacentBombs(b, t) = {}
               PROVE  t \in Items(queue') \/ Around[t] \subseteq cleared'
    BY DEF FloodInv, AdjacentBombs
  <2> QED
    BY <1>1, <1>4
<1>10. PlayInv'
  BY <1>1, <1>3 DEF PlayInv, Getch
<1> QED
  BY <1>6, <1>7, <1>8, <1>9, <1>10 DEF IInv

LEMMA FlagInv == IInv /\ Flag => IInv'
<1> SUFFICES ASSUME IInv, Flag PROVE IInv'
  OBVIOUS
<1> USE DEF IInv, Flag
<1>1. flagged' \subseteq Tiles
  BY DEF TypeOK
<1>2. TypeOK'
  BY <1>1 DEF TypeOK
<1>3. NoBombCleared' /\ WinSeen'
  BY DEF NoBombCleared, WinSeen
<1>4. QueueInv' /\ TodoInv'
  BY DEF QueueInv, TodoInv, AdjacentBombs
<1>5. FloodInv' /\ PlayInv'
  BY DEF FloodInv, PlayInv, AdjacentBombs, Getch
<1> QED
  BY <1>2, <1>3, <1>4, <1>5

LEMMA FirstRevealInv == IInv /\ FirstReveal => IInv'
<1> SUFFICES ASSUME IInv, FirstReveal PROVE IInv'
  OBVIOUS
<1>1. cursor \in Tiles /\ cursor' = cursor
  BY DEF IInv, TypeOK, FirstReveal
<1>2. /\ bombs' \subseteq Tiles /\ bombs' # {}
      /\ bombs' \in Generated(cursor)
  BY <1>1, FirstTile DEF FirstReveal
<1>3. Kept(cleared) = {} /\ flagged' = {}
  BY KeptInv DEF FirstReveal
<1>4. Reveal(cursor, bombs', {})
  BY <1>3 DEF FirstReveal
<1> QED
  BY <1>1, <1>2, <1>3, <1>4, RevealInv

LEMMA NextRevealInv == IInv /\ NextReveal => IInv'
<1> SUFFICES ASSUME IInv, NextReveal PROVE IInv'
  OBVIOUS
<1>1. /\ cursor \in Tiles /\ cursor' = cursor /\ bombs' = bombs /\ flagged' = flagged
      /\ bombs \subseteq Tiles /\ cleared \subseteq Tiles /\ flagged \subseteq Tiles
      /\ playing = "true" /\ Getch /\ Reveal(cursor, bombs, cleared)
  BY DEF IInv, TypeOK, NextReveal
<1>2. cleared \intersect bombs = {} /\ ~ (bombs \subseteq flagged')
  BY <1>1 DEF IInv, NoBombCleared, WinSeen
<1>3. \A t \in cleared : AdjacentBombs(bombs, t) = {} => Around[t] \subseteq cleared
  BY <1>1, EmptyQueue DEF IInv, FloodInv, Getch
<1> QED
  BY <1>1, <1>2, <1>3, RevealInv

LEMMA RevealAllInv == IInv /\ RevealAll => IInv'
<1> SUFFICES ASSUME IInv, RevealAll PROVE IInv'
  OBVIOUS
<1>1. /\ queue' = <<>> /\ todo' = {} /\ playing' = "false" /\ cleared' = Tiles
      /\ cursor' = cursor
  BY DEF RevealAll, Getch
<1>2. bombs' \subseteq Tiles
  BY FirstTile DEF RevealAll, IInv, TypeOK
<1>3. flagged' \subseteq Tiles
  BY KeptInv DEF RevealAll
<1> QED
  BY <1>1, <1>2, <1>3, EmptyQueue
     DEF IInv, TypeOK, NoBombCleared, WinSeen, QueueInv, TodoInv, FloodInv, PlayInv, Getch

LEMMA QuitInv == IInv /\ Quit => IInv'
<1>1. Quit => Init'
  BY DEF Quit, Init, Getch
<1>2. Init' => IInv'
  BY InitInv, PTL
<1> QED
  BY <1>1, <1>2

(* One turn of the flood: its head is done, and the blank tiles it opens   *)
(* are new in the queue.                                                   *)
LEMMA FloodStepInv == IInv /\ Flood => IInv'
<1> SUFFICES ASSUME IInv, Flood PROVE IInv'
  OBVIOUS
<1> DEFINE cur == Head(queue)
           new == Around[cur] \ cleared
<1>1. /\ queue # <<>> /\ cleared' = cleared \union new
      /\ queue' = PushAround(Tail(queue), Blank(new), cur)
      /\ UNCHANGED <<bombs, flagged, playing, cursor, todo>>
  BY DEF Flood
<1>2. playing = "true"
  BY <1>1 DEF IInv, PlayInv, Getch
<1>3. /\ queue \in Seq(Tiles) /\ cur \in Tiles /\ Tail(queue) \in Seq(Tiles)
      /\ Items(queue) = {cur} \union Items(Tail(queue))
      /\ Distinct(Tail(queue))
  BY <1>1, TailItems DEF IInv, TypeOK, QueueInv
<1>4. AdjacentBombs(bombs, cur) = {} /\ Items(queue) \subseteq cleared
  BY <1>3 DEF IInv, QueueInv
<1> HIDE DEF cur
<1>5. /\ Around[cur] \subseteq Tiles /\ Around[cur] \subseteq Box(cur[1], cur[2])
      /\ cur[1] \in Int /\ cur[2] \in Int /\ cur = <<cur[1], cur[2]>>
  BY <1>3, AroundBox
<1> DEFINE E == Blank(new)
<1>6. /\ E \subseteq new
      /\ \A t \in new : t \in E <=> AdjacentBombs(bombs, t) = {}
  BY DEF Blank
<1>7. new \subseteq Around[cur] /\ new \intersect cleared = {} /\ new \subseteq Tiles
  BY <1>5
<1>8. new \intersect bombs = {}
  BY <1>4 DEF AdjacentBombs
<1> HIDE DEF new, E
<1>9. /\ queue' \in Seq(Tiles)
      /\ Items(queue') = Items(Tail(queue)) \union E
      /\ Distinct(queue')
  <2>1. E \in SUBSET Tiles
    BY <1>6, <1>7
  <2>2. queue' = PushAround(Tail(queue), E, cur)
    BY <1>1 DEF E, new
  <2>3. /\ queue' \in Seq(Tiles)
        /\ Items(queue') = Items(Tail(queue)) \union (E \intersect Box(cur[1], cur[2]))
        /\ Distinct(Tail(queue))
             /\ Items(Tail(queue)) \intersect E \intersect Box(cur[1], cur[2]) = {}
             => Distinct(queue')
    <3>1. /\ PushAround(Tail(queue), E, <<cur[1], cur[2]>>) \in Seq(Tiles)
          /\ Items(PushAround(Tail(queue), E, <<cur[1], cur[2]>>))
               = Items(Tail(queue)) \union (E \intersect Box(cur[1], cur[2]))
          /\ Distinct(Tail(queue))
               /\ Items(Tail(queue)) \intersect E \intersect Box(cur[1], cur[2]) = {}
               => Distinct(PushAround(Tail(queue), E, <<cur[1], cur[2]>>))
      BY <1>3, <1>5, <2>1, PushAroundAdds
    <3>2. queue' = PushAround(Tail(queue), E, <<cur[1], cur[2]>>)
      BY <1>5, <2>2
    <3> QED
      BY <3>1, <3>2, Zenon
  <2>4. E \subseteq Box(cur[1], cur[2]) /\ Items(Tail(queue)) \intersect E = {}
    BY <1>3, <1>4, <1>5, <1>6, <1>7
  <2> QED
    BY <1>3, <2>3, <2>4
<1>10. TypeOK'
  BY <1>1, <1>7, <1>9 DEF IInv, TypeOK, new
<1>11. cleared' = cleared \union new
  BY <1>1 DEF new
<1>12. NoBombCleared' /\ WinSeen'
  BY <1>1, <1>8, <1>11 DEF IInv, NoBombCleared, WinSeen
<1>13. QueueInv' /\ TodoInv'
  <2>1. \A t : AdjacentBombs(bombs', t) = AdjacentBombs(bombs, t)
    BY <1>1
  <2>2. Items(queue') \subseteq cleared'
    BY <1>3, <1>4, <1>6, <1>9, <1>11
  <2>3. \A t \in Items(queue') : AdjacentBombs(bombs, t) = {}
    BY <1>3, <1>6, <1>9 DEF IInv, QueueInv
  <2>4. (\A t \in Items(queue) : AdjacentBombs(bombs, t) = {})'
    BY <1>1, <2>3 DEF AdjacentBombs
  <2> QED
    BY <1>1, <1>9, <2>2, <2>4 DEF IInv, QueueInv, TodoInv
<1>14. FloodInv'
  <2> SUFFICES ASSUME NEW t \in cleared', AdjacentBombs(bombs, t) = {}
               PROVE  t \in Items(queue') \/ Around[t] \subseteq cleared'
    BY <1>1 DEF FloodInv, AdjacentBombs
  <2>1. CASE t \in new
    BY <2>1, <1>6, <1>9
  <2>2. CASE t = cur
    BY <2>2, <1>11 DEF new
  <2>3. CASE t \in cleared /\ t # cur
    BY <2>3, <1>2, <1>3, <1>9, <1>11 DEF IInv, FloodInv
  <2> QED
    BY <2>1, <2>2, <2>3, <1>11
<1>15. PlayInv'
  BY <1>1, <1>2 DEF PlayInv
<1> QED
  BY <1>10, <1>12, <1>13, <1>14, <1>15 DEF IInv

LEMMA SurroundingInv == IInv /\ Surrounding => IInv'
<1> SUFFICES ASSUME IInv, Surrounding PROVE IInv'
  OBVIOUS
<1>1. PICK t \in todo :
        /\ todo' = todo \ {t} /\ cleared' = cleared \union {t}
        /\ queue' = IF AdjacentBombs(bombs, t) = {} THEN <<t>> ELSE <<>>
  BY DEF Surrounding
<1>2. queue = <<>> /\ UNCHANGED <<bombs, flagged, playing, cursor>>
  BY DEF Surrounding
<1>3. t \in Tiles /\ t \notin bombs /\ playing = "true"
  BY DEF IInv, TypeOK, TodoInv, PlayInv, Getch
<1>4. /\ queue' \in Seq(Tiles) /\ Distinct(queue')
      /\ Items(queue') = IF AdjacentBombs(bombs, t) = {} THEN {t} ELSE {}
  BY <1>1, <1>3, EmptyQueue, OneItem
<1>5. TypeOK' /\ NoBombCleared' /\ WinSeen'
  BY <1>1, <1>2, <1>3, <1>4 DEF IInv, TypeOK, NoBombCleared, WinSeen
<1>6. QueueInv' /\ TodoInv'
  BY <1>1, <1>2, <1>4 DEF IInv, QueueInv, TodoInv, AdjacentBombs
<1>7. FloodInv'
  <2> SUFFICES ASSUME NEW u \in cleared', AdjacentBombs(bombs, u) = {}
               PROVE  u \in Items(queue') \/ Around[u] \subseteq cleared'
    BY <1>2 DEF FloodInv, AdjacentBombs
  <2>1. CASE u = t
    BY <2>1, <1>4
  <2>2. CASE u \in cleared
    BY <2>2, <1>1, <1>2, <1>3, EmptyQueue DEF IInv, FloodInv
  <2> QED
    BY <2>1, <2>2, <1>1
<1>8. PlayInv'
  BY <1>2, <1>3 DEF PlayInv
<1> QED
  BY <1>5, <1>6, <1>7, <1>8 DEF IInv

LEMMA NextInv == IInv /\ [Next]_vars => IInv'
<1> SUFFICES ASSUME IInv, [Next]_vars PROVE IInv'
  OBVIOUS
<1>1. ASSUME NEW d \in Steps, Move(d[1], d[2]) PROVE IInv'
  <2>1. cursor' \in Tiles
    BY <1>1 DEF Move, IInv, TypeOK
  <2> QED
    BY <1>1, <2>1, KeepGridInv DEF Move
<1>2. CASE OtherKey
  BY <1>2, KeepGridInv DEF OtherKey, IInv, TypeOK
<1>3. CASE UNCHANGED vars
  BY <1>3 DEF vars, grid, IInv, TypeOK, NoBombCleared, WinSeen, QueueInv, TodoInv,
              FloodInv, PlayInv, Getch, AdjacentBombs
<1> QED
  BY <1>1, <1>2, <1>3, FlagInv, FirstRevealInv, NextRevealInv, RevealAllInv, QuitInv,
     FloodStepInv, SurroundingInv
  DEF Next

LEMMA Inductive == Spec => []IInv
<1> QED
  BY InitInv, NextInv, PTL DEF Spec

-----------------------------------------------------------------------------
(* The types hold, for every board and number of bombs. *)
THEOREM TypeCorrect == Spec => []TypeOK
<1>1. IInv => TypeOK
  BY DEF IInv
<1> QED
  BY <1>1, Inductive, PTL

(* No flood and no reveal of a number's surroundings ever opens a bomb.    *)
THEOREM NoBombOpens == Spec => []NoBombCleared
<1>1. IInv => NoBombCleared
  BY DEF IInv
<1> QED
  BY <1>1, Inductive, PTL

(* While the game is on, some bomb has no flag. *)
THEOREM WinIsSeen == Spec => []WinSeen
<1>1. IInv => WinSeen
  BY DEF IInv
<1> QED
  BY <1>1, Inductive, PTL

(* There are W * H tiles. *)
LEMMA TilesCount == IsFiniteSet(Tiles) /\ Cardinality(Tiles) = W * H
<1>1. H - 1 \in Int /\ W - 1 \in Int /\ W \in Nat \ {0} /\ H \in Nat \ {0}
  BY BoardAssumption
<1>2. /\ IsFiniteSet(0..(H - 1)) /\ Cardinality(0..(H - 1)) = H
      /\ IsFiniteSet(0..(W - 1)) /\ Cardinality(0..(W - 1)) = W
  BY <1>1, FS_Interval
<1>3. /\ IsFiniteSet(Tiles)
      /\ Cardinality(Tiles) = Cardinality(0..(H - 1)) * Cardinality(0..(W - 1))
  BY <1>2, FS_Product, Zenon DEF Tiles
<1>4. H * W = W * H
  BY <1>1
<1> QED
  BY <1>2, <1>3, <1>4

(* The w * h elements of the queue are enough for every flood, since no    *)
(* tile is in it twice.                                                    *)
THEOREM QueueIsLargeEnough == Spec => []QueueFits
<1>1. IInv => QueueFits
  <2> SUFFICES ASSUME IInv PROVE QueueFits
    OBVIOUS
  <2>1. queue \in Seq(Tiles) /\ Len(queue) \in Nat /\ Distinct(queue)
    BY DEF IInv, TypeOK, QueueInv
  <2>2. IsFiniteSet(1..Len(queue)) /\ Cardinality(1..Len(queue)) = Len(queue)
    <3>1. PICK len \in Nat : len = Len(queue)
      BY <2>1
    <3>2. IsFiniteSet(1..len) /\ Cardinality(1..len) = IF 1 > len THEN 0 ELSE len - 1 + 1
      BY FS_Interval
    <3>3. (IF 1 > len THEN 0 ELSE len - 1 + 1) = len
      OBVIOUS
    <3> QED BY <3>1, <3>2, <3>3, Zenon
  <2>3. Items(queue) \subseteq Tiles
    BY <2>1 DEF Items
  <2>4. IsFiniteSet(Items(queue)) /\ Cardinality(Items(queue)) <= W * H
    BY <2>3, TilesCount, FS_Subset
  <2>5. queue \in Bijection(1..Len(queue), Items(queue))
    <3>1. queue \in [1..Len(queue) -> Items(queue)]
      BY <2>1 DEF Items
    <3>2. \A i, j \in 1..Len(queue) : queue[i] = queue[j] => i = j
      BY <2>1 DEF Distinct
    <3>3. \A t \in Items(queue) : \E i \in 1..Len(queue) : queue[i] = t
      BY DEF Items
    <3> QED
      BY <3>1, <3>2, <3>3 DEF Bijection, Injection, Surjection, IsInjective
  <2>6. Cardinality(1..Len(queue)) = Cardinality(Items(queue))
    BY <2>2, <2>4, <2>5, FS_Bijection DEF ExistsBijection
  <2> QED
    BY <2>1, <2>2, <2>4, <2>6 DEF QueueFits, Distinct
<1> QED
  BY <1>1, Inductive, PTL

-----------------------------------------------------------------------------
(* The steps of Minesweeper are steps of Minefield, or none at all.        *)
LEMMA PhaseOf ==
  /\ playing = "clear" => Phase = "fresh"
  /\ playing = "true" => Phase = "playing"
  /\ playing = "false" => Phase = "over"
BY DEF Phase

LEMMA PhaseOfNext ==
  /\ playing' = "clear" => Phase' = "fresh"
  /\ playing' = "true" => Phase' = "playing"
  /\ playing' = "false" => Phase' = "over"
BY DEF Phase

(* When the program waits for a key nothing is left to be opened.          *)
LEMMA TurnAtGetch == IInv /\ Getch => Game!Turn
<1> SUFFICES ASSUME IInv, Getch, playing = "true" PROVE Game!Due = {}
  BY PhaseOf DEF Game!Turn, IInv, TypeOK
<1>1. todo = {} /\ Items(queue) = {}
  BY EmptyQueue DEF Getch
<1>2. \A t \in cleared : Game!Blank(t) => Around[t] \subseteq cleared
  BY <1>1 DEF IInv, FloodInv, Game!Blank, AdjacentBombs
<1> QED
  BY <1>1, <1>2 DEF Game!Due

LEMMA KeptMaps ==
  ASSUME IInv, Getch, KeepGrid, UNCHANGED <<queue, todo>>
  PROVE  Game!Anew \/ UNCHANGED Game!vars
<1>1. CASE playing = "false"
  <2>1. /\ bombs' = {} /\ cleared' = {} /\ flagged' = {} /\ playing' = "clear"
        /\ todo' = {}
    BY <1>1 DEF KeepGrid, Kept, Getch
  <2> QED
    BY <1>1, <2>1, PhaseOf, PhaseOfNext DEF Game!Anew
<1>2. CASE playing # "false"
  <2>1. UNCHANGED <<bombs, cleared, flagged, playing, todo>>
    BY <1>2 DEF KeepGrid, Kept
  <2> QED
    BY <2>1 DEF Game!vars, Phase
<1> QED
  BY <1>1, <1>2

LEMMA FirstRevealMaps == IInv /\ FirstReveal => Game!Begin(cursor) /\ cursor \in Tiles
<1> SUFFICES ASSUME IInv, FirstReveal PROVE Game!Begin(cursor) /\ cursor \in Tiles
  OBVIOUS
<1>1. cursor \in Tiles /\ playing # "true" /\ Phase # "playing"
  BY PhaseOf DEF IInv, TypeOK, FirstReveal
<1>2. /\ bombs' \subseteq Tiles /\ bombs' # {} /\ cursor \notin bombs'
      /\ AdjacentBombs(bombs', cursor) = {}
  BY <1>1, FirstTile DEF FirstReveal
<1>3. Kept(cleared) = {} /\ flagged' = {} /\ Reveal(cursor, bombs', {})
  BY <1>1, KeptInv DEF FirstReveal
<1>4. cleared' = {cursor} /\ todo' = {} /\ playing' = "true"
  BY <1>2, <1>3 DEF Reveal
<1>5. bombs' \in (SUBSET (Tiles \ Around[cursor])) \ {{}}
  BY <1>2 DEF AdjacentBombs
<1> QED
  BY <1>1, <1>3, <1>4, <1>5, PhaseOfNext DEF Game!Begin

LEMMA NextRevealMaps ==
  IInv /\ NextReveal => (Game!Open(cursor) \/ Game!Lose(cursor)) /\ cursor \in Tiles
<1> SUFFICES ASSUME IInv, NextReveal
             PROVE  (Game!Open(cursor) \/ Game!Lose(cursor)) /\ cursor \in Tiles
  OBVIOUS
<1>1. /\ cursor \in Tiles /\ cursor \notin flagged /\ todo = {}
      /\ playing = "true" /\ Phase = "playing"
      /\ bombs' = bombs /\ flagged' = flagged /\ Reveal(cursor, bombs, cleared)
  BY PhaseOf DEF IInv, TypeOK, NextReveal, Getch
<1>2. /\ cleared' = cleared \union {cursor}
      /\ playing' = IF cursor \in bombs THEN "false" ELSE "true"
      /\ todo' = IF cursor \notin bombs /\ AdjacentBombs(bombs, cursor) # {}
                                       /\ AdjacentBombs(bombs, cursor) \subseteq flagged'
                THEN Around[cursor] \ ({cursor} \union bombs) ELSE {}
  BY <1>1 DEF Reveal
<1>3. CASE cursor \in bombs
  BY <1>1, <1>2, <1>3, PhaseOfNext DEF Game!Lose
<1>4. CASE cursor \notin bombs
  <2>1. Phase' = Phase
    BY <1>1, <1>2, <1>4, PhaseOfNext
  <2>2. (todo \ cleared)' =
          IF ~ Game!Blank(cursor) /\ Around[cursor] \intersect bombs \subseteq flagged
          THEN Around[cursor] \ (bombs \union cleared') ELSE {}
    <3>1. CASE AdjacentBombs(bombs, cursor) # {} /\ AdjacentBombs(bombs, cursor) \subseteq flagged
      BY <1>1, <1>2, <1>4, <3>1 DEF Game!Blank, AdjacentBombs
    <3>2. CASE ~ (AdjacentBombs(bombs, cursor) # {} /\ AdjacentBombs(bombs, cursor) \subseteq flagged)
      BY <1>1, <1>2, <3>2 DEF Game!Blank, AdjacentBombs
    <3> QED
      BY <3>1, <3>2
  <2> QED
    BY <1>1, <1>2, <1>4, <2>1, <2>2 DEF Game!Open
<1> QED
  BY <1>1, <1>3, <1>4

LEMMA FlagMaps ==
  IInv /\ Flag => (Game!Mark(cursor) \/ UNCHANGED Game!vars) /\ cursor \in Tiles
<1> SUFFICES ASSUME IInv, Flag
             PROVE  (Game!Mark(cursor) \/ UNCHANGED Game!vars) /\ cursor \in Tiles
  OBVIOUS
<1>1. /\ cursor \in Tiles /\ playing = "true" /\ Phase = "playing"
      /\ ~ (bombs \subseteq flagged)
      /\ UNCHANGED <<bombs, cleared, todo>>
  BY PhaseOf DEF IInv, TypeOK, WinSeen, Flag
<1>2. playing' = IF bombs \subseteq flagged' THEN "false" ELSE "true"
  BY DEF Flag
<1>3. CASE cursor \in cleared
  <2>1. flagged' = flagged /\ Phase' = Phase
    BY <1>1, <1>2, <1>3, PhaseOfNext DEF Flag
  <2> QED
    BY <1>1, <2>1 DEF Game!vars
<1>4. CASE cursor \notin cleared
  <2>1. flagged' = IF cursor \in flagged THEN flagged \ {cursor}
                   ELSE flagged \union {cursor}
    BY <1>4 DEF Flag
  <2>2. Phase' = IF bombs \subseteq flagged' THEN "over" ELSE "playing"
    BY <1>2, PhaseOfNext
  <2>3. (todo \ cleared)' = todo \ cleared
    BY <1>1
  <2> QED
    BY <1>1, <1>4, <2>1, <2>2, <2>3 DEF Game!Mark
<1> QED
  BY <1>1, <1>3, <1>4

LEMMA RevealAllMaps == IInv /\ RevealAll => Game!GiveUp
<1> SUFFICES ASSUME IInv, RevealAll PROVE Game!GiveUp
  OBVIOUS
<1>1. /\ cursor \in Tiles /\ todo = {} /\ todo' = {} /\ cleared' = Tiles /\ Phase' = "over"
      /\ flagged' = Kept(flagged)
  BY PhaseOfNext DEF IInv, TypeOK, RevealAll, Getch
<1>2. CASE playing = "true"
  BY <1>1, <1>2, KeptInv, PhaseOf DEF RevealAll, Game!GiveUp
<1>3. CASE playing # "true"
  <2>1. bombs' \in (SUBSET Tiles) \ {{}} /\ flagged' = {} /\ Phase # "playing"
    BY <1>1, <1>3, KeptInv, FirstTile, PhaseOf DEF RevealAll, IInv, TypeOK
  <2> QED
    BY <1>1, <2>1 DEF Game!GiveUp
<1> QED
  BY <1>2, <1>3

LEMMA QuitMaps == Quit => Game!Leave
<1> SUFFICES ASSUME Quit PROVE Game!Leave
  OBVIOUS
<1>1. /\ bombs' = {} /\ cleared' = {} /\ flagged' = {} /\ playing' = "clear" /\ todo' = {}
  BY DEF Quit, Launch, Getch
<1> QED
  BY <1>1, PhaseOfNext DEF Game!Leave

LEMMA FloodMaps == IInv /\ Flood => Game!Spread \/ UNCHANGED Game!vars
<1> SUFFICES ASSUME IInv, Flood PROVE Game!Spread \/ UNCHANGED Game!vars
  OBVIOUS
<1> DEFINE cur == Head(queue)
           new == Around[cur] \ cleared
<1>1. /\ queue # <<>> /\ cleared' = cleared \union new
      /\ UNCHANGED <<bombs, flagged, playing, todo>>
  BY DEF Flood
<1>2. Phase = "playing" /\ Phase' = Phase
  BY <1>1, PhaseOf, PhaseOfNext DEF IInv, TypeOK, PlayInv, Getch
<1>3. cur \in cleared /\ Game!Blank(cur)
  BY <1>1, TailItems DEF IInv, TypeOK, QueueInv, Game!Blank, AdjacentBombs
<1> HIDE DEF cur
<1>4. new \subseteq Game!Due
  BY <1>3 DEF Game!Due
<1> HIDE DEF new
<1>5. (todo \ cleared)' = (todo \ cleared) \ new
  BY <1>1
<1>6. CASE new = {}
  <2>1. cleared' = cleared /\ (todo \ cleared)' = todo \ cleared
    BY <1>1, <1>5, <1>6
  <2> QED
    BY <1>1, <1>2, <2>1 DEF Game!vars
<1>7. CASE new # {}
  <2>1. new \in (SUBSET Game!Due) \ {{}}
    BY <1>4, <1>7
  <2> QED
    BY <1>1, <1>2, <1>5, <2>1 DEF Game!Spread
<1> QED
  BY <1>6, <1>7

LEMMA SurroundingMaps == IInv /\ Surrounding => Game!Spread \/ UNCHANGED Game!vars
<1> SUFFICES ASSUME IInv, Surrounding PROVE Game!Spread \/ UNCHANGED Game!vars
  OBVIOUS
<1>1. PICK t \in todo : todo' = todo \ {t} /\ cleared' = cleared \union {t}
  BY DEF Surrounding
<1>2. UNCHANGED <<bombs, flagged, playing>> /\ Phase = "playing" /\ Phase' = Phase
  BY PhaseOf, PhaseOfNext DEF Surrounding, IInv, TypeOK, PlayInv, Getch
<1>3. CASE t \in cleared
  <2>1. cleared' = cleared /\ (todo \ cleared)' = todo \ cleared
    BY <1>1, <1>3
  <2> QED
    BY <1>2, <2>1 DEF Game!vars
<1>4. CASE t \notin cleared
  <2>1. {t} \in (SUBSET Game!Due) \ {{}}
    BY <1>4 DEF Game!Due
  <2>2. (todo \ cleared)' = (todo \ cleared) \ {t}
    BY <1>1
  <2> QED
    BY <1>1, <1>2, <2>1, <2>2 DEF Game!Spread
<1> QED
  BY <1>3, <1>4

LEMMA StepMaps == IInv /\ [Next]_vars => [Game!Next]_Game!vars
<1> SUFFICES ASSUME IInv, [Next]_vars, ~ UNCHANGED Game!vars PROVE Game!Next
  OBVIOUS
<1>1. CASE Flood \/ Surrounding
  BY <1>1, FloodMaps, SurroundingMaps DEF Game!Next
<1>2. ASSUME NEW d \in Steps, Move(d[1], d[2]) PROVE Game!Next
  BY <1>2, KeptMaps DEF Move, Game!Next
<1>3. CASE OtherKey
  BY <1>3, KeptMaps DEF OtherKey, Game!Next
<1>4. ASSUME Getch,
             Game!GiveUp \/ Game!Leave
               \/ \E t \in Tiles : \/ Game!Begin(t) \/ Game!Open(t)
                                   \/ Game!Lose(t) \/ Game!Mark(t)
      PROVE  Game!Next
  BY <1>4, TurnAtGetch DEF Game!Next
<1>5. CASE Flag
  BY <1>4, <1>5, FlagMaps DEF Flag
<1>6. CASE FirstReveal
  BY <1>4, <1>6, FirstRevealMaps DEF FirstReveal
<1>7. CASE NextReveal
  BY <1>4, <1>7, NextRevealMaps DEF NextReveal
<1>8. CASE RevealAll
  BY <1>4, <1>8, RevealAllMaps DEF RevealAll
<1>9. CASE Quit
  BY <1>4, <1>9, QuitMaps DEF Quit
<1>10. CASE UNCHANGED vars
  <2>1. UNCHANGED Game!vars
    BY <1>10 DEF vars, grid, Game!vars, Phase
  <2> QED BY <2>1
<1> QED
  BY <1>1, <1>2, <1>3, <1>5, <1>6, <1>7, <1>8, <1>9, <1>10 DEF Next

(* The program plays the game: on every board, with every key, what opens  *)
(* is what was asked for and what a blank tile opens, completely before    *)
(* the next key, and all marked bombs end it.                              *)
THEOREM PlaysMinefield == Spec => IsMinefield
<1>1. Init => Game!Init
  <2>1. Init => playing = "clear" /\ todo = {}
    BY DEF Init, Launch
  <2> QED
    BY <2>1, PhaseOf DEF Init, Launch, Game!Init
<1> QED
  BY <1>1, StepMaps, Inductive, PTL DEF Spec, IsMinefield, Game!Spec
=============================================================================
