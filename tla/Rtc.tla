-------------------------------- MODULE Rtc --------------------------------
(***************************************************************************)
(* src/kernel/rtc.c: the date and time, read register by register from a   *)
(* clock that goes on meanwhile, and time() of src/libk/time.c, which      *)
(* makes seconds of them.                                                  *)
(*                                                                         *)
(* The clock is a chip: once a second it sets "update in progress", and    *)
(* 244 microseconds later changes its registers.  get_reg waits for the    *)
(* flag to be clear before it reads; should an interrupt use up the 244    *)
(* microseconds in between, what it reads is any byte.                     *)
(*                                                                         *)
(* A definition that stands just before another, with its parameters, and  *)
(* that nothing uses, is what a bug would make of it: PROJECT.json names   *)
(* the property that would notice.                                         *)
(***************************************************************************)
EXTENDS Integers, Sequences

CONSTANTS
  Moments,   \* what the clock may show when a read begins
  Garbage,   \* bytes that a register may show while it changes
  Binary     \* bit 2 of register B: are the registers binary, not BCD?

DAY == 1
MONTH == 2
YEAR == 3
HOUR == 4
MINUTE == 5
SECOND == 6
Fields == 1..6

Leap(y) == y % 4 = 0
DaysIn(m, y) == CASE m = 2 -> IF Leap(y) THEN 29 ELSE 28
                  [] m \in {4, 6, 9, 11} -> 30
                  [] OTHER -> 31

ASSUME RtcAssumption ==
  /\ Moments \subseteq [Fields -> Nat]
  /\ \A t \in Moments :
       /\ t[MONTH] \in 1..12 /\ t[DAY] \in 1..DaysIn(t[MONTH], t[YEAR])
       /\ t[YEAR] < 100 /\ t[HOUR] < 24 /\ t[MINUTE] < 60 /\ t[SECOND] < 60
  /\ Garbage \subseteq 0..255
  /\ Binary \in BOOLEAN

VARIABLES
  clock,     \* what the chip shows; <<>> while nobody reads
  before,    \* what it showed when the read began
  todo,      \* the fields still to be read, in order
  data,      \* rtc_get_data's last byte
  now        \* the fields read, converted; -1 for those to come

rtcVars == <<clock, before, todo, data, now>>

Unread == [f \in Fields |-> -1]
RtcIdle == clock = <<>> /\ before = <<>> /\ todo = <<>> /\ data = 0 /\ now = Unread

-----------------------------------------------------------------------------
(* The chip. *)
(* The next moment: a field steps when the smaller ones roll over. *)
Later(t) ==
  LET last  == << DaysIn(t[MONTH], t[YEAR]), 12, 99, 23, 59, 59 >>
      first == << 1, 1, 0, 0, 0, 0 >>
      smaller == << {HOUR, MINUTE, SECOND}, {DAY, HOUR, MINUTE, SECOND},
                    {DAY, MONTH, HOUR, MINUTE, SECOND}, {MINUTE, SECOND}, {SECOND}, {} >>
      carry(f) == \A g \in smaller[f] : t[g] = last[g]
  IN  [f \in Fields |-> IF ~carry(f) THEN t[f] ELSE IF t[f] = last[f] THEN first[f] ELSE t[f] + 1]

Register(v) == IF Binary THEN v ELSE (v \div 10) * 16 + (v % 10)

-----------------------------------------------------------------------------
(* gcc evaluates the items of an initialiser in their order. *)
rtc_get_timeSecondsFirst == << SECOND, MINUTE, HOUR >>
rtc_get_time == << HOUR, MINUTE, SECOND >>
rtc_get_date == << DAY, MONTH, YEAR >>
rtc_get_datetimeTimeFirst == rtc_get_time \o rtc_get_date
rtc_get_datetime == rtc_get_date \o rtc_get_time

RtcStart ==
  /\ todo = <<>> /\ clock = <<>>
  /\ clock' \in Moments /\ before' = clock'
  /\ todo' = rtc_get_datetime
  /\ now' = Unread
  /\ UNCHANGED data

(* The whole takes a small part of a second: at most one update. *)
Update ==
  /\ todo # <<>> /\ clock = before
  /\ clock' = Later(clock)

Converted(b) == IF Binary THEN b ELSE (b % 16) + (b \div 16) * 10

(* One turn of the loop, and what follows it when two bytes agree. *)
rtc_get_data(byte) ==
  IF byte = data
  THEN /\ now' = [now EXCEPT ![Head(todo)] = Converted(byte)]
       /\ todo' = Tail(todo) /\ data' = 0
  ELSE data' = byte /\ UNCHANGED <<now, todo>>

GetReg ==
  /\ todo # <<>>
  /\ \/ rtc_get_data(Register(clock[Head(todo)])) /\ UNCHANGED clock
     \/ Update /\ \E byte \in Garbage : rtc_get_data(byte)
  /\ UNCHANGED before

RtcTick == Update /\ UNCHANGED <<before, todo, data, now>>

(* The caller has the result, and reads once more, at once or after the    *)
(* clock went on.                                                          *)
RtcAgain ==
  /\ todo = <<>> /\ clock # <<>>
  /\ clock' \in {clock, Later(clock)} /\ before' = clock'
  /\ todo' = rtc_get_datetime
  /\ now' = Unread
  /\ UNCHANGED data

(* ... or does not. *)
RtcDone ==
  /\ todo = <<>>
  /\ clock' = <<>> /\ before' = <<>> /\ now' = Unread
  /\ UNCHANGED <<todo, data>>

RtcNext == RtcStart \/ GetReg \/ RtcTick \/ RtcAgain \/ RtcDone
RtcSpec == RtcIdle /\ [][RtcNext]_rtcVars

-----------------------------------------------------------------------------
(* time(): seconds since 1970, after a fashion ("Fix month offset"): a     *)
(* month of any name is a twelfth of a year, and January counts as the     *)
(* first.  The sum stays below 2^32.                                       *)
time(t) ==
  t[SECOND] + t[MINUTE] * 60 + t[HOUR] * 3600 + t[DAY] * 86400
    + t[MONTH] * 2629743 + (t[YEAR] + 30) * 31556926

-----------------------------------------------------------------------------
(* Hours, minutes and seconds are read one after the other (lines 87 to    *)
(* 93), and may be of no moment at all; but they are never ahead of the    *)
(* clock, unless midnight came.                                            *)
Seconds(t) == (t[HOUR] * 60 + t[MINUTE]) * 60 + t[SECOND]
TimeNeverAhead ==
  todo = <<>> /\ clock # <<>> /\ clock[DAY] = before[DAY] => Seconds(now) <= Seconds(clock)

(* What time() makes of the six fields (lines 18 to 26) is not ahead of    *)
(* what it would make of the clock itself, midnight or not, whichever of   *)
(* them were read before the clock went on - unless a month began: then    *)
(* the day may be the old month's and the month the new one.               *)
EpochNeverAhead ==
  todo = <<>> /\ clock # <<>> /\ clock[MONTH] = before[MONTH] => time(now) <= time(clock)

-----------------------------------------------------------------------------
(* What a comment says, and the code does not do.                          *)

(* "Make sure we get the same values twice in a row" (lines 73 and 74):    *)
(* whatever an interrupted read returned, a field is what the clock showed *)
(* before or after its update.                                             *)
FieldsShown ==
  before # <<>> => \A f \in Fields : now[f] \in {-1, before[f], clock[f]}
=============================================================================
