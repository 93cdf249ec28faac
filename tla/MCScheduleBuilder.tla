-------------------------- MODULE MCScheduleBuilder --------------------------
(***************************************************************************)
(* A small instance of ScheduleBuilder: a day of four hours of six minutes *)
(* of six seconds.                                                         *)
(***************************************************************************)
EXTENDS ScheduleBuilder

T == INSTANCE TLC

\* No time, one with and one without seconds, one whose last second is out of
\* range, and one with a word in it.
MCTime == {<<>>, <<1, 5>>, <<3, 2, 5>>, <<1, 2, 6>>, <<1, Other>>}

\* None, one, one that divides a minute and one that does not, and a longer one.
MCInterval == {0, 1, 2, 4, 7}

\* Nothing tells one location from another, and no property here is about
\* fairness.
LocationSymmetry == T!Permutations(Location)
=============================================================================
