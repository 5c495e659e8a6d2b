------------------------------ MODULE TimerOps ------------------------------
(***************************************************************************)
(* The timer object of src/src/aio/timer.c together with its share of the  *)
(* worker thread (src/src/aio/worker.c, src/src/aio/timerset.c), as pure   *)
(* operators on one record, so that every protocol that owns a timer uses  *)
(* the same definition.                                                    *)
(*                                                                         *)
(*   state    grid_fsm.state and grid_timer.state, which every function of *)
(*            timer.c changes together                                     *)
(*   timeout  TRUE while grid_timer.timeout holds an interval (>= 0),      *)
(*            FALSE once the worker has consumed it (-1)                   *)
(*   tasks    this timer's start_task and stop_task in the worker's FIFO   *)
(*   wtimer   "armed": in the worker's timer set; "fired": popped from the *)
(*            set by the worker, which has not entered the context yet     *)
(***************************************************************************)
EXTENDS Naturals, Sequences

TaskKinds   == {"start", "stop"}
TimerStates == {"idle", "active", "stopping"}
WTimer      == {"off", "armed", "fired"}

(* FIFO contents: each task object is in the queue at most once and a stop *)
(* is never queued ahead of the start it cancels.                          *)
TaskQueues == { << >>, <<"start">>, <<"stop">>, <<"start", "stop">> }

Timers == [state : TimerStates, timeout : BOOLEAN,
           tasks : TaskQueues, wtimer : WTimer]

IdleTimer == [state |-> "idle", timeout |-> FALSE,
              tasks |-> << >>, wtimer |-> "off"]

(* grid_fsm_isidle: the STOPPED event is handled in the step that raises   *)
(* it, so between steps a timer is idle exactly when its state is.         *)
TimerIsIdle(t) == t.state = "idle"

(* A worker task may be pushed only while it is not queued                 *)
(* (grid_queue_push asserts it).                                           *)
Queued(t, kind) == \E i \in 1..Len(t.tasks) : t.tasks[i] = kind

(* The assertions of grid_timer_start and of the functions it calls.       *)
StartAllowed(t, ivl) == /\ ivl >= 0
                        /\ TimerIsIdle(t)
                        /\ ~Queued(t, "start")

(* grid_timer_start *)
Started(t) == [t EXCEPT !.state = "active", !.timeout = TRUE,
                        !.tasks = Append(@, "start")]

(* Mutant: the stop task is not pushed.                                    *)
StopRequestedSilent(t) ==
    IF t.state # "active" THEN t ELSE [t EXCEPT !.state = "stopping"]

(* grid_timer_stop: nothing to do unless the timer is running.             *)
StopRequested(t) ==
    IF t.state # "active" THEN t
    ELSE [t EXCEPT !.state = "stopping", !.tasks = Append(@, "stop")]

(* The worker executes the start task: armed only if it is still wanted.   *)
StartTaskDue(t) == t.wtimer # "fired" /\ t.tasks # << >> /\ Head(t.tasks) = "start"

AfterStartTask(t) ==
    IF t.state = "active"
    THEN [t EXCEPT !.tasks = Tail(@), !.wtimer = "armed", !.timeout = FALSE]
    ELSE [t EXCEPT !.tasks = Tail(@)]

(* The worker executes the stop task; the caller sees STOPPED.             *)
StopTaskDue(t) == t.wtimer # "fired" /\ t.tasks # << >> /\ Head(t.tasks) = "stop"

AfterStopTask(t) == [t EXCEPT !.tasks = Tail(@), !.wtimer = "off", !.state = "idle"]

(* The instant passes: the worker takes the timer out of its timer set ... *)
Expired(t) == [t EXCEPT !.wtimer = "fired"]

(* ... and enters the context of the timer to deliver it, which the owner  *)
(* sees as TIMEOUT only while the timer is not being stopped.              *)
AfterFired(t) == [t EXCEPT !.wtimer = "off"]
RaisesTimeout(t) == t.wtimer = "fired" /\ t.state = "active"

(* What each state of the timer says of the worker's share: an idle timer  *)
(* has left nothing behind in the queue or in the timer set, so it can be  *)
(* started again; a timer is armed or fired only after its start task was  *)
(* consumed; and the stop task is queued exactly while it is stopping.     *)
TimerConsistent(t) ==
    /\ t \in Timers
    /\ t.state = "idle" => t.tasks = << >> /\ t.wtimer = "off"
    /\ t.state = "active" => \/ t.tasks = <<"start">> /\ t.wtimer = "off" /\ t.timeout
                             \/ t.tasks = << >> /\ ~t.timeout
    /\ t.state = "stopping" => \/ t.tasks = <<"start", "stop">> /\ t.wtimer = "off"
                               \/ t.tasks = <<"stop">>
=============================================================================
