-------------------------------- MODULE Time --------------------------------
(***************************************************************************)
(* The tick counter of src/kernel/pit.c, which the interrupt of the timer  *)
(* advances once a millisecond, and a program in sleep or sleep_ms of      *)
(* src/libk/time.c, which compares it with a target and halts.             *)
(*                                                                         *)
(* The counter has 64 bits and the processor reads 32 at a time: gcc -O2   *)
(* loads the high half first.  Interrupts come between any two steps here; *)
(* the handler itself, behind an interrupt gate, is one step.              *)
(*                                                                         *)
(* A definition that stands just before another, with its parameters, and  *)
(* that nothing uses, is what a bug would make of it: PROJECT.json names   *)
(* the property that would notice.                                         *)
(***************************************************************************)
EXTENDS Integers

CONSTANTS
  Half,      \* 2^32
  PerSec,    \* 1000
  Delays,    \* the milliseconds that programs sleep
  Seconds,   \* the seconds that programs sleep
  Pace,      \* the program makes at least so many steps between two ticks
  MaxTicks   \* bound: how long the machine runs; less than 49.7 days

ASSUME TimeAssumption ==
  /\ Half \in Nat \ {0} /\ PerSec \in Nat
  /\ Delays \subseteq Nat /\ Seconds \subseteq Nat
  /\ Pace \in Nat /\ MaxTicks \in Nat

(* No carry from the low to the high half while the machine runs, and no   *)
(* sleep of more than 4,294,967 seconds.                                   *)
ASSUME ShortRun ==
  /\ MaxTicks < Half
  /\ Delays \subseteq 0..(Half - 1)
  /\ \A sec \in Seconds : sec * PerSec < Half

(* A millisecond is enough for the few instructions between two ticks.     *)
ASSUME FastEnough == Pace >= 3

VARIABLES
  ticks,     \* pit.c
  pc,        \* where the program is
  hi,        \* the half of ticks it has read
  cur_ticks, \* the count it started from
  ms,        \* its argument
  asked,     \* the ticks its caller asked for
  slept,     \* the ticks that have come since
  steps      \* its steps since the last tick, up to Pace

vars == <<ticks, pc, hi, cur_ticks, ms, asked, slept, steps>>

Init ==
  /\ ticks = 0
  /\ pc = "run" /\ hi = 0 /\ cur_ticks = 0 /\ ms = 0
  /\ asked = 0 /\ slept = 0
  /\ steps = 0

-----------------------------------------------------------------------------
(* irq_pit and pit_inc: the count goes up, a halted program goes on. *)
Tick ==
  /\ ticks < MaxTicks
  /\ pc = "halt" \/ steps = Pace
  /\ ticks' = ticks + 1
  /\ slept' = IF pc = "run" THEN slept ELSE slept + 1
  /\ pc' = IF pc = "halt" THEN "check_hi" ELSE pc
  /\ steps' = 0
  /\ UNCHANGED <<hi, cur_ticks, ms, asked>>

(* Any other interrupt ends a halt too. *)
Interrupt ==
  /\ pc = "halt"
  /\ pc' = "check_hi"
  /\ UNCHANGED <<ticks, hi, cur_ticks, ms, asked, slept, steps>>

Step == steps' = IF steps < Pace THEN steps + 1 ELSE steps

-----------------------------------------------------------------------------
(* sleep(sec) and sleep_ms(n). *)
Call(n, want) ==
  /\ pc = "run"
  /\ pc' = "start_hi"
  /\ ms' = n /\ asked' = want /\ slept' = 0
  /\ Step
  /\ UNCHANGED <<ticks, hi, cur_ticks>>
sleep_ms(n) == Call(n, n)
sleep(sec)  == Call((sec * PerSec) % Half, sec * PerSec)

(* The program does something else. *)
Work ==
  /\ pc = "run"
  /\ Step
  /\ UNCHANGED <<ticks, pc, hi, cur_ticks, ms, asked, slept>>

(* pit_get_ticks, its first load. *)
ReadHi ==
  /\ pc \in {"start_hi", "check_hi"}
  /\ hi' = ticks \div Half
  /\ pc' = IF pc = "start_hi" THEN "start_lo" ELSE "check_lo"
  /\ Step
  /\ UNCHANGED <<ticks, cur_ticks, ms, asked, slept>>

(* Its second load, and what it returns. *)
Got == hi * Half + (ticks % Half)

ReadStart ==
  /\ pc = "start_lo"
  /\ cur_ticks' = Got
  /\ pc' = "check_hi"
  /\ Step
  /\ UNCHANGED <<ticks, hi, ms, asked, slept>>

StillEarlyNot(t)  == t # cur_ticks + ms
StillEarlyOnce(t) == t <= cur_ticks /\ ms > 0
StillEarlyMore(t) == t <= cur_ticks + ms
StillEarly(t)     == t < cur_ticks + ms

Check ==
  /\ pc = "check_lo"
  /\ pc' = IF StillEarly(Got) THEN "hlt" ELSE "return"
  /\ Step
  /\ UNCHANGED <<ticks, hi, cur_ticks, ms, asked, slept>>

(* The counter has been read; a tick that comes now does not end the halt. *)
Hlt ==
  /\ pc = "hlt"
  /\ pc' = "halt"
  /\ Step
  /\ UNCHANGED <<ticks, hi, cur_ticks, ms, asked, slept>>

Return ==
  /\ pc = "return"
  /\ pc' = "run"
  /\ Step
  /\ UNCHANGED <<ticks, hi, cur_ticks, ms, asked, slept>>

Sleeping == ReadHi \/ ReadStart \/ Check \/ Hlt \/ Return

Next ==
  \/ Tick
  \/ Interrupt
  \/ \E n \in Delays : sleep_ms(n)
  \/ \E sec \in Seconds : sleep(sec)
  \/ Work
  \/ Sleeping

(* The timer goes on ticking and a program that is not halted goes on.     *)
Spec == Init /\ [][Next]_vars /\ WF_vars(Tick) /\ WF_vars(Sleeping)

-----------------------------------------------------------------------------
(* Every variable has its type.  With ShortRun the high half stays 0, and  *)
(* what the carry would do to the two halves is not asked here.            *)
TypeOK ==
  /\ ticks \in 0..MaxTicks
  /\ pc \in {"run", "start_hi", "start_lo", "check_hi", "check_lo", "hlt", "halt", "return"}
  /\ hi = 0 /\ cur_ticks \in 0..MaxTicks
  /\ ms \in 0..(Half - 1) /\ asked \in 0..(Half - 1) /\ slept \in 0..MaxTicks
  /\ steps \in 0..Pace

(* A program never wakes before as many ticks have come as it asked for,   *)
(* whichever interrupts end its halts.                                     *)
LongEnough == pc = "return" => slept >= asked

(* It wakes at most two ticks late: one for a tick while it reads the      *)
(* count it starts from, one for a tick between a comparison and its halt. *)
NotLate == pc = "return" => slept <= asked + 2

(* A program that sleeps wakes up, unless the machine stops first, and     *)
(* then its time was not over (the loop of sleep_ms ends).                 *)
Wakes ==
  pc \notin {"run", "return"} ~>
    pc = "return" \/ (ticks = MaxTicks /\ slept <= asked + 2)
=============================================================================
