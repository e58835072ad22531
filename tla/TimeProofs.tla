----------------------------- MODULE TimeProofs -----------------------------
(***************************************************************************)
(* For every length of a run, every pace and all delays: what a program    *)
(* reads is the count, and a sleep ends neither early nor more than two    *)
(* ticks late.                                                             *)
(*                                                                         *)
(* The properties speak of the return; the invariant follows a sleep from  *)
(* its call.  Behind is the tick that may come while the starting count is *)
(* read, Late how far the count is past the target: at most one tick, and  *)
(* then so recent a tick that no other can have followed it.               *)
(***************************************************************************)
EXTENDS Time, TLAPS

Started == pc \notin {"run", "start_hi", "start_lo"}
Behind  == cur_ticks + slept - ticks
Late    == ticks - (cur_ticks + ms)

(* Before the starting count is read, at most one tick, just now. *)
AtStart ==
  /\ pc \in {"start_hi", "start_lo"} => slept = 0 \/ slept = 1
  /\ pc = "start_hi" /\ slept = 1 => steps = 0
  /\ pc = "start_lo" /\ slept = 1 => steps <= 1

(* Afterwards, how far the target is at every point of the loop. *)
InLoop ==
  Started =>
    /\ Behind \in 0..1
    /\ Late <= 1
    /\ pc = "check_hi" /\ Late = 1 => steps = 0
    /\ pc = "check_lo" /\ Late = 1 => steps <= 1
    /\ pc = "hlt" => Late <= 0 /\ (Late = 0 => steps = 0)
    /\ pc = "halt" => Late <= 0
    /\ pc = "return" => Late >= 0 /\ (Late = 1 => steps <= 2)

Inv ==
  /\ TypeOK
  /\ slept <= ticks
  /\ pc # "run" => ms = asked
  /\ AtStart
  /\ InLoop

-----------------------------------------------------------------------------
(* A number below the base has no high half. *)
LEMMA LowHalf ==
  ASSUME NEW n \in 0..(Half - 1)
  PROVE  n \div Half = 0 /\ n % Half = n
<1>1. Half \in Nat /\ Half > 0 /\ n \in Nat /\ n < Half
  BY TimeAssumption
<1> QED BY <1>1, SMT

(* What pit_get_ticks returns is the count. *)
LEMMA GotIsTicks ==
  ASSUME TypeOK
  PROVE  Got = ticks /\ ticks \div Half = 0
<1>1. ticks \in 0..(Half - 1) /\ Half \in Nat /\ hi = 0
  BY TimeAssumption, ShortRun DEF TypeOK
<1>2. ticks \div Half = 0 /\ ticks % Half = ticks
  BY <1>1, LowHalf
<1>3. 0 * Half = 0
  BY <1>1
<1> QED BY <1>1, <1>2, <1>3 DEF Got

LEMMA InitInv == Init => Inv
BY TimeAssumption, FastEnough DEF Init, Inv, TypeOK, AtStart, InLoop, Started

-----------------------------------------------------------------------------
LEMMA TickInv ==
  ASSUME Inv, Tick
  PROVE  Inv'
<1>1. TypeOK'
  BY TimeAssumption DEF Inv, TypeOK, Tick
<1>2. (slept <= ticks)' /\ (pc # "run" => ms = asked)'
  BY DEF Inv, TypeOK, Tick
<1>3. AtStart'
  BY TimeAssumption, FastEnough DEF Inv, TypeOK, Tick, AtStart
<1>4. InLoop'
  BY TimeAssumption, FastEnough DEF Inv, TypeOK, Tick, InLoop, Started, Behind, Late
<1> QED BY <1>1, <1>2, <1>3, <1>4 DEF Inv

LEMMA InterruptInv ==
  ASSUME Inv, Interrupt
  PROVE  Inv'
BY DEF Inv, TypeOK, Interrupt, AtStart, InLoop, Started, Behind, Late

(* The step counter stays in its range and goes up by at most one. *)
LEMMA StepBound ==
  ASSUME Inv, Step
  PROVE  steps' \in 0..Pace /\ steps' <= steps + 1
BY TimeAssumption DEF Inv, TypeOK, Step

LEMMA CallInv ==
  ASSUME Inv, NEW n \in 0..(Half - 1), Call(n, n)
  PROVE  Inv'
BY StepBound, TimeAssumption DEF Inv, TypeOK, Call, AtStart, InLoop, Started

(* Neither argument wraps: a delay is below the base, and so is a number   *)
(* of seconds in milliseconds.                                             *)
LEMMA SleepInv ==
  ASSUME Inv,
         \/ \E n \in Delays : sleep_ms(n)
         \/ \E sec \in Seconds : sleep(sec)
  PROVE  Inv'
<1>1. CASE \E n \in Delays : sleep_ms(n)
  BY <1>1, ShortRun, CallInv DEF sleep_ms
<1>2. CASE \E sec \in Seconds : sleep(sec)
  <2>1. PICK sec \in Seconds : sleep(sec)
    BY <1>2
  <2> DEFINE n == sec * PerSec
  <2>2. n \in 0..(Half - 1)
    BY TimeAssumption, ShortRun
  <2>3. Call(n % Half, n)
    BY <2>1 DEF sleep
  <2> HIDE DEF n
  <2> QED BY <2>2, <2>3, LowHalf, CallInv
<1> QED BY <1>1, <1>2

LEMMA WorkInv ==
  ASSUME Inv, Work
  PROVE  Inv'
BY StepBound, TimeAssumption DEF Inv, TypeOK, Work, AtStart, InLoop, Started

LEMMA SleepingInv ==
  ASSUME Inv, Sleeping
  PROVE  Inv'
<1>1. Got = ticks /\ ticks \div Half = 0
  BY GotIsTicks DEF Inv
<1>2. CASE ReadHi
  BY <1>1, <1>2, StepBound, TimeAssumption
     DEF Inv, TypeOK, ReadHi, AtStart, InLoop, Started, Behind, Late
<1>3. CASE ReadStart
  BY <1>1, <1>3, StepBound, TimeAssumption
     DEF Inv, TypeOK, ReadStart, AtStart, InLoop, Started, Behind, Late
<1>4. CASE Check
  BY <1>1, <1>4, StepBound, TimeAssumption
     DEF Inv, TypeOK, Check, StillEarly, AtStart, InLoop, Started, Behind, Late
<1>5. CASE Hlt
  BY <1>5, StepBound, TimeAssumption
     DEF Inv, TypeOK, Hlt, AtStart, InLoop, Started, Behind, Late
<1>6. CASE Return
  BY <1>6, StepBound, TimeAssumption
     DEF Inv, TypeOK, Return, AtStart, InLoop, Started, Behind, Late
<1> QED BY <1>2, <1>3, <1>4, <1>5, <1>6 DEF Sleeping

LEMMA NextInv ==
  ASSUME Inv, [Next]_vars
  PROVE  Inv'
<1>1. CASE UNCHANGED vars
  BY <1>1 DEF Inv, TypeOK, AtStart, InLoop, Started, Behind, Late, vars
<1> QED BY <1>1, TickInv, InterruptInv, SleepInv, WorkInv, SleepingInv DEF Next

-----------------------------------------------------------------------------
(* The invariant, in every reachable state. *)
THEOREM Invariance == Spec => []Inv
<1>1. Inv /\ [Next]_vars => Inv'
  BY NextInv
<1> QED BY <1>1, InitInv, PTL DEF Spec

(* The types, for any number of ticks below the carry. *)
THEOREM TypeCorrect == Spec => []TypeOK
<1>1. Inv => TypeOK
  BY DEF Inv
<1> QED BY <1>1, Invariance, PTL

(* A sleep is never too short: sleep and sleep_ms return only after as     *)
(* many ticks as they were asked for.                                      *)
THEOREM NeverEarly == Spec => []LongEnough
<1>1. Inv => LongEnough
  BY DEF Inv, TypeOK, InLoop, Started, Behind, Late, LongEnough
<1> QED BY <1>1, Invariance, PTL

(* A sleep is at most two ticks too long. *)
THEOREM TwoTicksLate == Spec => []NotLate
<1>1. Inv => NotLate
  BY DEF Inv, TypeOK, InLoop, Started, Behind, Late, NotLate
<1> QED BY <1>1, Invariance, PTL
=============================================================================
