------------------------------- MODULE Stdio -------------------------------
(***************************************************************************)
(* The directives of printf (vprintf of src/libk/stdio.c), one at a time,  *)
(* with the character of the padding that one leaves to the next, and the  *)
(* conversions of src/libk/stdlib.c they use.  Text is a sequence of       *)
(* characters, of a capital letter the small one; a directive is a record, *)
(* and 0 stands for a width or a precision that it does not have.          *)
(*                                                                         *)
(* A double is a number of millionths; fmt_f casts its integer part to int.*)
(*                                                                         *)
(* A definition that stands just before another, with its parameters, and  *)
(* that nothing uses, is what a bug would make of it: PROJECT.json names   *)
(* the property that would notice.                                         *)
(***************************************************************************)
EXTENDS Integers, Sequences

INT_MAX == 2147483647
Million == 1000000

VARIABLES
  cur_pad_char,
  printed        \* the last directive, its argument and its text

stdioVars == <<cur_pad_char, printed>>

NothingPrinted == [conv |-> ""]
StdioInit == cur_pad_char = " " /\ printed = NothingPrinted

-----------------------------------------------------------------------------
Digit == << "0", "1", "2", "3", "4", "5", "6", "7", "8", "9", "a", "b", "c", "d", "e", "f" >>
Abs(x) == IF x < 0 THEN -x ELSE x
Rev(s) == [k \in 1..Len(s) |-> s[Len(s) + 1 - k]]
Copies(c, k) == [j \in 1..k |-> c]

(* digits_int and digits_hex; 32 bits have ten digits at most. *)
digitsOneShort(x, base) ==
  CHOOSE d \in 1..10 : /\ x \div (base ^ (d - 1)) <= base
                       /\ d = 1 \/ x \div (base ^ (d - 2)) > base
digits(x, base) ==
  CHOOSE d \in 1..10 : /\ x \div (base ^ (d - 1)) < base
                       /\ d = 1 \/ x \div (base ^ (d - 1)) > 0

(* itoa writes from the end of the string; fmt_x from its beginning, and   *)
(* then reverses it.                                                       *)
itoa(x) ==
  LET d == digits(Abs(x), 10)
      s == IF x < 0 THEN << "-" >> ELSE << >>
  IN  s \o [k \in 1..d |-> Digit[1 + ((Abs(x) \div (10 ^ (d - k))) % 10)]]
fmt_x(x) == Rev([k \in 1..digits(x, 16) |-> Digit[1 + ((x \div (16 ^ (k - 1))) % 16)]])

(* The sign, the integer part, the point, one decimal after the other: cut *)
(* off, not rounded.                                                       *)
fmt_f(x, decimals) ==
  LET sign == IF x < 0 THEN << "-" >> ELSE << >> IN
  sign \o itoa(Abs(x) \div Million) \o << "." >>
       \o [k \in 1..decimals |-> Digit[1 + ((Abs(x) \div (10 ^ (6 - k))) % 10)]]

(* digits_double has no room for the sign. *)
digits_doubleNoPoint(x, decimals) == digits(Abs(x) \div Million, 10) + decimals
digits_double(x, decimals) == digits(Abs(x) \div Million, 10) + 1 + decimals

(* The text of an argument, and how long the padding takes it to be. *)
DEFAULT_DOUBLE_DECIMALS == 6
Decimals(d) == IF d.prec = 0 THEN DEFAULT_DOUBLE_DECIMALS ELSE d.prec
Text(d, x) == CASE d.conv = "d" -> itoa(x)
                [] d.conv = "x" -> fmt_x(x)
                [] d.conv = "f" -> fmt_f(x, Decimals(d))
Length(d, x) == CASE d.conv = "d" -> digits(Abs(x), 10) + (IF x < 0 THEN 1 ELSE 0)
                  [] d.conv = "x" -> digits(x, 16)
                  [] d.conv = "f" -> digits_double(x, Decimals(d))

(* "%5d" or "%05d", "%5x" or "%05x", "%5f" and "%5.3f". *)
Directive(conv, zero, width) == [conv |-> conv, zero |-> zero, width |-> width, prec |-> 0]
Fixed(width, prec) == [conv |-> "f", zero |-> FALSE, width |-> width, prec |-> prec]

(* One directive: '0' sets the padding, fmt_*_pad looks whether there is   *)
(* room, print_pad pads and sets it back.                                  *)
directive(d, x) ==
  LET pad  == IF d.zero THEN "0" ELSE cur_pad_char
      room == d.width - Length(d, x)
      pads == d.width # 0 /\ room > 0
  IN  /\ cur_pad_char' = IF pads THEN " " ELSE pad
      /\ printed' = [conv |-> d.conv, dir |-> d, arg |-> x,
                     out |-> (IF pads THEN Copies(pad, room) ELSE << >>) \o Text(d, x)]

-----------------------------------------------------------------------------
(* What it is to write a number: its digits, none before them that is 0,   *)
(* after its sign; of a double the decimals that were asked for, cut off.  *)
Value(s, base) ==
  LET v[k \in 0..Len(s)] ==
        IF k = 0 THEN 0 ELSE base * v[k - 1] + (CHOOSE j \in 1..16 : Digit[j] = s[k]) - 1
  IN  v[Len(s)]
AreDigits(s) == \A k \in 1..Len(s) : s[k] \in {Digit[j] : j \in 1..16}
Unsigned(s, x, base) ==
  /\ s # << >> /\ AreDigits(s)
  /\ Value(s, base) = x
  /\ Len(s) > 1 => s[1] # "0"
Spells(s, x, base) ==
  IF x >= 0 THEN Unsigned(s, x, base)
  ELSE s[1] = "-" /\ Unsigned(Tail(s), -x, base)
SpellsDouble(s, x, decimals) ==
  LET point == Len(s) - decimals
      first == IF x >= 0 THEN 1 ELSE 2
      tail  == SubSeq(s, point + 1, Len(s))
  IN  /\ x < 0 => s[1] = "-"
      /\ point > first /\ s[point] = "."
      /\ Unsigned(SubSeq(s, first, point - 1), Abs(x) \div Million, 10)
      /\ AreDigits(tail)
      /\ Value(tail, 10) = (Abs(x) % Million) \div (10 ^ (6 - decimals))
IsTextOf(s, d, x) == CASE d.conv = "d" -> Spells(s, x, 10)
                       [] d.conv = "x" -> Spells(s, x, 16)
                       [] d.conv = "f" -> SpellsDouble(s, x, Decimals(d))

(* Every number that a program prints comes out whole and in its column:   *)
(* its text at the end of a field that is as wide as the directive says -  *)
(* wider only if the text is - and before it copies of one character of    *)
(* padding, which is '0' if the directive asks for it.  If it does not,    *)
(* the '0' of an earlier one may still be there, for which "temporarily"   *)
(* (lines 24 to 33) is not the word: that is left out here.                *)
PrintedInFull ==
  printed.conv # "" =>
    \E k \in 0..(Len(printed.out) - 1) :
      LET text == SubSeq(printed.out, k + 1, Len(printed.out)) IN
      /\ IsTextOf(text, printed.dir, printed.arg)
      /\ k = 0 \/ Len(printed.out) = printed.dir.width
      /\ Len(printed.out) >= printed.dir.width
      /\ \E pad \in IF printed.dir.zero THEN {"0"} ELSE {" ", "0"} :
           \A j \in 1..k : printed.out[j] = pad
=============================================================================
