------------------------------- MODULE Timer -------------------------------
(***************************************************************************)
(* One timer seen on its own: the owner starts and stops it under the lock *)
(* of its context, the worker thread executes the two tasks in the order   *)
(* they were pushed and delivers the expiry.  Worker.tla implements this   *)
(* for every timer of the shared worker thread; Req.tla owns one.          *)
(***************************************************************************)
EXTENDS TimerOps

VARIABLE tmr

Init == tmr = IdleTimer

(* grid_timer_start; every owner calls it on an idle timer.                *)
Start == TimerIsIdle(tmr) /\ tmr' = Started(tmr)

(* grid_timer_stop *)
Stop == tmr.state = "active" /\ tmr' = StopRequested(tmr)

StartTask == StartTaskDue(tmr) /\ tmr' = AfterStartTask(tmr)

StopTask == StopTaskDue(tmr) /\ tmr' = AfterStopTask(tmr)

Expire == tmr.wtimer = "armed" /\ tmr' = Expired(tmr)

Fire == tmr.wtimer = "fired" /\ tmr' = AfterFired(tmr)

Next == Start \/ Stop \/ StartTask \/ StopTask \/ Expire \/ Fire

Spec == Init /\ [][Next]_tmr

-----------------------------------------------------------------------------
(* timer.c: the state "says nothing about the state of affairs in the      *)
(* worker thread", yet the two can never drift apart.                      *)
TimerInv == TimerConsistent(tmr)
=============================================================================
