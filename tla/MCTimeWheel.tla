---------------------------- MODULE MCTimeWheel ----------------------------
(***************************************************************************)
(* A wheel of two levels with two slots each.  A tick of level 0 is two    *)
(* units of the clock, so that tasks fall between ticks and Tick comes     *)
(* late; level 0 covers 4 units, level 1 covers 8, both together 12.       *)
(***************************************************************************)
EXTENDS TimeWheel

CONSTANTS i1, i2

MCID == {i1, i2}
MCTickDuration == [l \in 0..1 |-> IF l = 0 THEN 2 ELSE 4]
MCTask == [id : {i1}, next : {1, 7}] \cup [id : {i2}, next : {5}]

\* Tasks that only both levels together cover at time 0.
MCFarTask == [id : MCID, next : {9, 10}]
=============================================================================
