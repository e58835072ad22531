---------------------------- MODULE Minesweeper ----------------------------
(***************************************************************************)
(* src/apps/minesweeper: the loop of main_minesweeper, one step per key,   *)
(* and the two loops of reveal_tiles, one step per tile: the flood from a  *)
(* tile with no bomb around it, through the queue, and the reveal of what  *)
(* surrounds a number whose bombs are all flagged.                         *)
(*                                                                         *)
(* Only one task plays, so nothing runs between the steps; they are apart  *)
(* because the properties look at the queue on the way.  A tile is         *)
(* <<y, x>>.  What is drawn and the arguments are left out.                *)
(*                                                                         *)
(* A definition that stands just before another, with its parameters, and  *)
(* that nothing uses, is what a bug would make of it: PROJECT.json names   *)
(* the property that would notice.                                         *)
(***************************************************************************)
EXTENDS Integers, FiniteSets, SequencesExt

CONSTANTS
  W, H,                   \* ms.w and ms.h
  BOMB_MARGIN,
  MIN_BOMBS, MAX_BOMBS,   \* the least and the most bombs, in percent
  difficulty,             \* ms.difficulty
  MaxFlags                \* bound: flags set at one time

Tiles == (0..(H - 1)) \X (0..(W - 1))

(* The tile and its neighbours: the box every function of the game walks.  *)
Around == [p \in Tiles |->
            {t \in Tiles : t[1] - p[1] \in -1..1 /\ t[2] - p[2] \in -1..1}]

(* Where generate_grid puts no bomb. *)
Zone(start) == {t \in Tiles :
                  /\ t[1] > start[1] - BOMB_MARGIN /\ t[1] < start[1] + BOMB_MARGIN
                  /\ t[2] > start[2] - BOMB_MARGIN /\ t[2] < start[2] + BOMB_MARGIN}

bomb_percent == ((MAX_BOMBS - MIN_BOMBS) * difficulty) \div 100 + MIN_BOMBS
max_bombs    == W * H - BOMB_MARGIN * 4
total_bombs  == LET wanted == (H * W * bomb_percent) \div 100
                IN  IF wanted > max_bombs THEN max_bombs ELSE wanted

ASSUME BoardAssumption ==
  /\ W \in Nat \ {0} /\ H \in Nat \ {0}
  /\ BOMB_MARGIN \in Nat /\ BOMB_MARGIN >= 2
  /\ total_bombs \in Nat \ {0}
  /\ MaxFlags \in Nat

VARIABLES
  bombs,      \* the tiles with CH_BOMB
  cleared,    \* those with FLAG_CLEARED
  flagged,    \* those with FLAG_FLAGGED
  playing,    \* "clear", "true" or "false": PLAYING_CLEAR, ...
  cursor,
  queue,      \* queue[0] up to queue_pos
  todo        \* the neighbours reveal_tiles is still to call itself for

grid == <<bombs, cleared, flagged, playing>>
vars == <<grid, cursor, queue, todo>>

AdjacentBombs(b, p) == Around[p] \intersect b
Getch == queue = <<>> /\ todo = {}

-----------------------------------------------------------------------------
Launch(b, c, f, p, cur) ==
  /\ b = {} /\ c = {} /\ f = {} /\ p = "clear"
  /\ cur = <<(H - 1) \div 2, (W - 1) \div 2>>

(* main_minesweeper up to its loop. *)
Init ==
  /\ Launch(bombs, cleared, flagged, playing, cursor)
  /\ queue = <<>> /\ todo = {}

(* A key after a game was lost, won or given up first empties the grid.    *)
Kept(S) == IF playing = "false" THEN {} ELSE S
KeepGrid ==
  /\ bombs' = Kept(bombs) /\ cleared' = Kept(cleared) /\ flagged' = Kept(flagged)
  /\ playing' = IF playing = "false" THEN "clear" ELSE playing

(* hjkl. *)
Move(dy, dx) ==
  /\ Getch
  /\ cursor' = LET to == <<cursor[1] + dy, cursor[2] + dx>> IN
               IF to \in Tiles THEN to ELSE cursor
  /\ KeepGrid
  /\ UNCHANGED <<queue, todo>>

(* Any key that does nothing of its own, and the ones that are refused:    *)
(* 'f' before there are bombs, space on a flagged tile.                    *)
OtherKey ==
  /\ Getch
  /\ KeepGrid
  /\ UNCHANGED <<cursor, queue, todo>>

FlagWinsLate ==
  /\ Getch /\ playing = "true"
  /\ flagged' = IF cursor \in cleared THEN flagged
                ELSE IF cursor \in flagged THEN flagged \ {cursor}
                ELSE flagged \union {cursor}
  /\ Cardinality(flagged') <= MaxFlags
  /\ playing' = IF bombs \subseteq flagged THEN "false" ELSE "true"
  /\ UNCHANGED <<bombs, cleared, cursor, queue, todo>>

(* 'f': toggle_flag, then check_win. *)
Flag ==
  /\ Getch /\ playing = "true"
  /\ flagged' = IF cursor \in cleared THEN flagged
                ELSE IF cursor \in flagged THEN flagged \ {cursor}
                ELSE flagged \union {cursor}
  /\ Cardinality(flagged') <= MaxFlags
  /\ playing' = IF bombs \subseteq flagged' THEN "false" ELSE "true"
  /\ UNCHANGED <<bombs, cleared, cursor, queue, todo>>

(* What total_bombs draws, some of them of the same tile, may leave.       *)
Generated(start) ==
  {b \in SUBSET (Tiles \ Zone(start)) :
     b # {} /\ Cardinality(b) <= total_bombs}

(* reveal_tiles as the user calls it, up to its first loop. *)
Reveal(p, b, shown) ==
  /\ cleared' = shown \union {p}
  /\ playing' = IF p \in b THEN "false" ELSE "true"
  /\ queue' = IF AdjacentBombs(b, p) = {} THEN <<p>> ELSE <<>>
  /\ todo' = IF p \notin b /\ AdjacentBombs(b, p) # {}
                           /\ AdjacentBombs(b, p) \subseteq flagged'
             THEN Around[p] \ ({p} \union b)
             ELSE {}

(* Space, before there are bombs. *)
FirstReveal ==
  /\ Getch /\ playing # "true"
  /\ bombs' \in Generated(cursor)
  /\ flagged' = Kept(flagged)
  /\ Reveal(cursor, bombs', Kept(cleared))
  /\ UNCHANGED cursor

(* Space, later on. *)
NextReveal ==
  /\ Getch /\ playing = "true"
  /\ cursor \notin flagged
  /\ UNCHANGED <<bombs, flagged, cursor>>
  /\ Reveal(cursor, bombs, cleared)

(* 'r': all tiles, and the game is over. *)
RevealAll ==
  /\ Getch
  /\ IF playing = "true" THEN UNCHANGED bombs ELSE bombs' \in Generated(cursor)
  /\ flagged' = Kept(flagged)
  /\ cleared' = Tiles
  /\ playing' = "false"
  /\ UNCHANGED <<cursor, queue, todo>>

(* 'q' or Ctrl-C, and the next time somebody plays. *)
Quit ==
  /\ Getch
  /\ Launch(bombs', cleared', flagged', playing', cursor')
  /\ UNCHANGED <<queue, todo>>

-----------------------------------------------------------------------------
(* queue_push, for the tiles of S, in the order the loops meet them. *)
Push(q, S, t)   == IF t \in S THEN Append(q, t) ELSE q
PushRow(q, S, y, x) ==
  Push(Push(Push(q, S, <<y, x - 1>>), S, <<y, x>>), S, <<y, x + 1>>)
PushAround(q, S, p) ==
  PushRow(PushRow(PushRow(q, S, p[1] - 1, p[2]), S, p[1], p[2]), S, p[1] + 1, p[2])

Blank(S) == {t \in S : AdjacentBombs(bombs, t) = {}}

FloodOverCleared ==
  /\ queue # <<>>
  /\ LET cur == Head(queue)
         new == Around[cur] \ {cur}
     IN  /\ cleared' = cleared \union new
         /\ queue' = PushAround(Tail(queue), Blank(new), cur)
  /\ UNCHANGED <<bombs, flagged, playing, cursor, todo>>

FloodPlus ==
  /\ queue # <<>>
  /\ LET cur == Head(queue)
         new == Around[cur] \ cleared
     IN  /\ cleared' = cleared \union new
         /\ queue' = PushRow(Tail(queue), Blank(new), cur[1], cur[2])
  /\ UNCHANGED <<bombs, flagged, playing, cursor, todo>>

FloodWithoutPop ==
  /\ queue # <<>>
  /\ LET cur == Head(queue)
         new == Around[cur] \ cleared
     IN  /\ cleared' = cleared \union new
         /\ queue' = PushAround(queue, Blank(new), cur)
  /\ UNCHANGED <<bombs, flagged, playing, cursor, todo>>

(* One turn of reveal_tiles's loop over the queue. *)
Flood ==
  /\ queue # <<>>
  /\ LET cur == Head(queue)
         new == Around[cur] \ cleared
     IN  /\ cleared' = cleared \union new
         /\ queue' = PushAround(Tail(queue), Blank(new), cur)
  /\ UNCHANGED <<bombs, flagged, playing, cursor, todo>>

(* One turn of the loop over what surrounds a number: reveal_tiles again,  *)
(* up to its flood.                                                        *)
First(t, S) == \A u \in S : t[1] < u[1] \/ (t[1] = u[1] /\ t[2] <= u[2])
Surrounding ==
  /\ queue = <<>>
  /\ \E t \in todo :
       /\ First(t, todo)
       /\ todo' = todo \ {t}
       /\ cleared' = cleared \union {t}
       /\ queue' = IF AdjacentBombs(bombs, t) = {} THEN <<t>> ELSE <<>>
  /\ UNCHANGED <<bombs, flagged, playing, cursor>>

-----------------------------------------------------------------------------
Steps == {<<-1, 0>>, <<1, 0>>, <<0, -1>>, <<0, 1>>}
Next ==
  \/ \E d \in Steps : Move(d[1], d[2])
  \/ OtherKey \/ Flag \/ FirstReveal \/ NextReveal \/ RevealAll \/ Quit
  \/ Flood \/ Surrounding

(* The loops of reveal_tiles go on; the player need never press a key.     *)
Spec == Init /\ [][Next]_vars /\ WF_vars(Flood \/ Surrounding)

-----------------------------------------------------------------------------
TypeOK ==
  /\ bombs \subseteq Tiles /\ cleared \subseteq Tiles /\ flagged \subseteq Tiles
  /\ playing \in {"clear", "true", "false"}
  /\ cursor \in Tiles
  /\ queue \in Seq(Tiles)
  /\ todo \subseteq Tiles

(* Neither the flood nor the reveal of what surrounds a number ever opens  *)
(* a bomb: as long as the game is on, no bomb is cleared.                  *)
NoBombCleared == playing = "true" => cleared \intersect bombs = {}

(* check_win comes in time: in a game that is still on there is a bomb     *)
(* without a flag, whichever flags were set, taken away and flooded over.  *)
WinSeen == playing = "true" => ~ (bombs \subseteq flagged)

(* A tile is never in the queue twice, so that the w * h elements          *)
(* main_minesweeper allocates are enough for every flood.                  *)
QueueFits ==
  /\ \A i, j \in 1..Len(queue) : queue[i] = queue[j] => i = j
  /\ Len(queue) <= W * H

(* The loops play the game: what they open is what was asked for and what  *)
(* touches an open tile without bombs around it, and when the player is to *)
(* press the next key all of that is open; the first tile is always one of *)
(* those.                                                                  *)
Phase == CASE playing = "clear" -> "fresh"
           [] playing = "true"  -> "playing"
           [] playing = "false" -> "over"
Game == INSTANCE Minefield WITH
  Near  <- Around,
  open  <- cleared,
  flags <- flagged,
  asked <- todo \ cleared,
  phase <- Phase
IsMinefield == Game!Spec

(* A flood ends: the program always comes back to getch. *)
Settles == []<>Getch
=============================================================================
