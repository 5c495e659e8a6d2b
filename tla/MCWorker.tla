----------------------------- MODULE MCWorker -----------------------------
(* Two timers on one worker, timeouts of 0, 1 and 2 ticks.                 *)
EXTENDS Worker

MCTimerId == {"t1", "t2"}
MCIntervals == {0, 1, 2}
===========================================================================
