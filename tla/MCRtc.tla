------------------------------- MODULE MCRtc -------------------------------
(***************************************************************************)
(* An instance of Rtc for TLC: two milliseconds per second, and registers  *)
(* that carry at two and can hold one illegal value, and four days.  An    *)
(* octet has six values and a word eight, so files hold more than that.    *)
(***************************************************************************)
EXTENDS Rtc

Two == [field \in Fields |-> 2]
Three == [field \in Fields |-> 3]

File(registers, at) == [exists |-> TRUE, registers |-> registers, saved_at |-> at]

\* A save just before a carry of everything, and files with more days than the
\* counter has, with counters beyond their last value, and with a phase of several
\* seconds; the last two were made in the future, as far as this page can tell.
Found ==
  { File([FreshRtc EXCEPT !.seconds = 1, !.minutes = 1, !.hours = 1, !.days = 3], 0),
    File([FreshRtc EXCEPT !.seconds = 1, !.minutes = 1, !.hours = 1, !.days = 6], 1),
    File([FreshRtc EXCEPT !.seconds = 5, !.minutes = 1, !.hours = 4, !.halted = TRUE], 5),
    File([FreshRtc EXCEPT !.subsecond_ticks = 7, !.subsecond_tick_thousandths = 6, !.days = 5], 5) }

\* Writes that reset the phase, leave an illegal value, halt the clock and start
\* it again, and move the day counter.
Some ==
  { [select |-> "seconds", value |-> 0], [select |-> "minutes", value |-> 2],
    [select |-> "days", value |-> 0],
    [select |-> "control", high |-> 0, halted |-> TRUE, day_carry |-> FALSE],
    [select |-> "control", high |-> 1, halted |-> FALSE, day_carry |-> FALSE] }
=============================================================================
