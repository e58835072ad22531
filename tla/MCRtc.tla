------------------------------- MODULE MCRtc -------------------------------
(* A clock just before noon, and just before a year begins. *)
EXTENDS Rtc

Noon    == <<10, 10, 24, 11, 59, 59>>
NewYear == <<31, 12, 23, 23, 59, 59>>
MomentsToRead == {Noon, NewYear}
=============================================================================
