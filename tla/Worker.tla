------------------------------- MODULE Worker -------------------------------
(***************************************************************************)
(* The worker thread of src/src/aio/worker.c with its task queue, its      *)
(* timer set (src/src/aio/timerset.c) and the timers of src/src/aio/timer.c*)
(* that share it.  The owners of the timers run on any application thread, *)
(* each under the lock of its context; a step of the worker that enters a  *)
(* context is one action, and everything between two of them interleaves.  *)
(*                                                                         *)
(* Time is relative: a timer-set entry keeps the ticks left until it is    *)
(* due.  An overdue entry stays at 0, which orders it as its absolute      *)
(* instant would: new entries are never inserted before it.                *)
(***************************************************************************)
EXTENDS TimerOps, Integers, SequencesExt

CONSTANTS TimerId,      \* the timers that share the worker
          Intervals     \* timeouts, in ticks, the owners ask for

ASSUME IntervalsAssumption == Intervals \subseteq Nat /\ Intervals # {}
ASSUME TimersAssumption == "none" \notin TimerId

VARIABLES
    state,      \* timer -> grid_timer.state
    timeout,    \* timer -> grid_timer.timeout, or Unset (-1)
    tasks,      \* grid_worker.tasks, the FIFO shared with all the threads
    efd,        \* grid_worker.efd is signalled
    batch,      \* the worker's local copy of the queue
    timerset,   \* grid_timerset.timeouts: [timer, left], in order of expiry
    pc,         \* where the worker is: Wait, Timers, Fire, Events, Tasks
    wake,       \* grid_poller_wait reported the efd
    firing,     \* the timer popped from the timer set, or None
    lag,        \* ghost: ticks still missing from the interval asked for
    raised      \* ghost: how often TIMEOUT was raised since the timer was started

vars == <<state, timeout, tasks, efd, batch, timerset, pc, wake, firing,
          lag, raised>>

Unset == -1
None  == "none"

Task == [timer : TimerId, kind : TaskKinds]

TypeOK ==
    /\ state \in [TimerId -> TimerStates]
    /\ timeout \in [TimerId -> Intervals \cup {Unset}]
    /\ tasks \in Seq(Task) /\ batch \in Seq(Task)
    /\ efd \in BOOLEAN /\ wake \in BOOLEAN
    /\ timerset \in Seq([timer : TimerId, left : Nat])
    /\ pc \in {"Wait", "Timers", "Fire", "Events", "Tasks"}
    /\ firing \in TimerId \cup {None}
    /\ lag \in [TimerId -> Nat]
    /\ raised \in [TimerId -> Nat]

Init ==
    /\ state = [t \in TimerId |-> "idle"]
    /\ timeout = [t \in TimerId |-> Unset]
    /\ tasks = << >> /\ batch = << >> /\ timerset = << >>
    /\ efd = FALSE /\ wake = FALSE
    /\ pc = "Wait" /\ firing = None
    /\ lag = [t \in TimerId |-> 0]
    /\ raised = [t \in TimerId |-> 0]

-----------------------------------------------------------------------------
(* Mutant: the worker is woken only if it has no batch in hand.            *)
ExecuteWakesIdle(t, k) ==
    /\ tasks' = Append(tasks, [timer |-> t, kind |-> k])
    /\ efd' = (efd \/ batch = << >>)

(* grid_worker_execute: push the task and signal, under worker.sync.       *)
Execute(t, k) ==
    /\ tasks' = Append(tasks, [timer |-> t, kind |-> k])
    /\ efd' = TRUE

(* grid_timer_start *)
Start(t) ==
    /\ state[t] = "idle"
    /\ \E ivl \in Intervals :
          /\ timeout' = [timeout EXCEPT ![t] = ivl]
          /\ lag' = [lag EXCEPT ![t] = ivl]
    /\ state' = [state EXCEPT ![t] = "active"]
    /\ raised' = [raised EXCEPT ![t] = 0]
    /\ Execute(t, "start")
    /\ UNCHANGED <<batch, timerset, pc, wake, firing>>

(* grid_timer_stop on a running timer *)
Stop(t) ==
    /\ state[t] = "active"
    /\ state' = [state EXCEPT ![t] = "stopping"]
    /\ Execute(t, "stop")
    /\ UNCHANGED <<timeout, batch, timerset, pc, wake, firing, lag, raised>>

-----------------------------------------------------------------------------
Due == timerset # << >> /\ Head(timerset).left = 0

(* grid_poller_wait returns for a signalled efd or for the first timeout.  *)
PollerWait ==
    /\ pc = "Wait"
    /\ efd \/ Due
    /\ wake' = efd
    /\ pc' = "Timers"
    /\ UNCHANGED <<state, timeout, tasks, efd, batch, timerset, firing, lag, raised>>

(* Mutant: the entry that expires stays in the set until the timer stops.  *)
TimersetEventKeeps ==
    /\ pc = "Timers" /\ Due
    /\ firing' = Head(timerset).timer
    /\ pc' = "Fire"
    /\ UNCHANGED <<state, timeout, tasks, efd, batch, timerset, wake, lag, raised>>

(* grid_timerset_event takes the first entry out when it is due ...        *)
TimersetEvent ==
    /\ pc = "Timers" /\ Due
    /\ firing' = Head(timerset).timer
    /\ timerset' = Tail(timerset)
    /\ pc' = "Fire"
    /\ UNCHANGED <<state, timeout, tasks, efd, batch, wake, lag, raised>>

(* ... and says EAGAIN when none is.                                       *)
TimersetEmpty ==
    /\ pc = "Timers" /\ ~Due
    /\ pc' = "Events"
    /\ UNCHANGED <<state, timeout, tasks, efd, batch, timerset, wake, firing, lag, raised>>

(* The worker enters the context of the timer.  The owner may have stopped *)
(* the timer since it was popped; then the expiry is ignored.              *)
Fire ==
    /\ pc = "Fire"
    /\ raised' = [raised EXCEPT ![firing] = IF state[firing] = "active" THEN @ + 1 ELSE @]
    /\ firing' = None
    /\ pc' = "Timers"
    /\ UNCHANGED <<state, timeout, tasks, efd, batch, timerset, wake, lag>>

(* Mutant: one task is taken per signal.                                   *)
TakeTasksOne ==
    /\ pc = "Events" /\ wake
    /\ efd' = FALSE
    /\ batch' = <<Head(tasks)>>
    /\ tasks' = Tail(tasks)
    /\ pc' = "Tasks"
    /\ UNCHANGED <<state, timeout, timerset, wake, firing, lag, raised>>

(* The efd event: unsignal it and take the whole queue, under worker.sync. *)
TakeTasks ==
    /\ pc = "Events" /\ wake
    /\ efd' = FALSE
    /\ batch' = tasks
    /\ tasks' = << >>
    /\ pc' = "Tasks"
    /\ UNCHANGED <<state, timeout, timerset, wake, firing, lag, raised>>

NoEvents ==
    /\ pc = "Events" /\ ~wake
    /\ pc' = "Wait"
    /\ UNCHANGED <<state, timeout, tasks, efd, batch, timerset, wake, firing, lag, raised>>

(* grid_timerset_add: before the first entry that is due strictly later.   *)
TimersetAdd(ts, t, ivl) ==
    LET later == {i \in DOMAIN ts : ivl < ts[i].left}
        at    == IF later = {} THEN Len(ts) + 1
                 ELSE CHOOSE i \in later : \A j \in later : i <= j
    IN  InsertAt(ts, at, [timer |-> t, left |-> ivl])

(* grid_timerset_rm ignores a timer that is not in the set.                *)
TimersetRm(ts, t) ==
    LET at == {i \in DOMAIN ts : ts[i].timer = t}
    IN  IF at = {} THEN ts ELSE RemoveAt(ts, CHOOSE i \in at : TRUE)

(* Mutant: the timer is armed although it was stopped in the meantime.     *)
RunStartTaskAlways ==
    /\ pc = "Tasks" /\ batch # << >> /\ Head(batch).kind = "start"
    /\ LET t == Head(batch).timer IN
         /\ timerset' = TimersetAdd(timerset, t, timeout[t])
         /\ timeout' = [timeout EXCEPT ![t] = Unset]
    /\ batch' = Tail(batch)
    /\ UNCHANGED <<state, tasks, efd, pc, wake, firing, lag, raised>>

(* A start task arms the timer unless it was stopped in the meantime.      *)
RunStartTask ==
    /\ pc = "Tasks" /\ batch # << >> /\ Head(batch).kind = "start"
    /\ LET t == Head(batch).timer IN
         IF state[t] = "active"
         THEN /\ timerset' = TimersetAdd(timerset, t, timeout[t])
              /\ timeout' = [timeout EXCEPT ![t] = Unset]
         ELSE UNCHANGED <<timerset, timeout>>
    /\ batch' = Tail(batch)
    /\ UNCHANGED <<state, tasks, efd, pc, wake, firing, lag, raised>>

(* A stop task disarms the timer and raises STOPPED: it is idle again.     *)
RunStopTask ==
    /\ pc = "Tasks" /\ batch # << >> /\ Head(batch).kind = "stop"
    /\ LET t == Head(batch).timer IN
         /\ timerset' = TimersetRm(timerset, t)
         /\ state' = [state EXCEPT ![t] = "idle"]
    /\ batch' = Tail(batch)
    /\ UNCHANGED <<timeout, tasks, efd, pc, wake, firing, lag, raised>>

TasksDone ==
    /\ pc = "Tasks" /\ batch = << >>
    /\ pc' = "Wait"
    /\ UNCHANGED <<state, timeout, tasks, efd, batch, timerset, wake, firing, lag, raised>>

(* One tick of the monotonic clock (external).                             *)
Less(n) == IF n = 0 THEN 0 ELSE n - 1

Tick ==
    /\ \/ \E i \in DOMAIN timerset : timerset[i].left > 0
       \/ \E t \in TimerId : lag[t] > 0
    /\ timerset' = [i \in DOMAIN timerset |-> [timerset[i] EXCEPT !.left = Less(@)]]
    /\ lag' = [t \in TimerId |-> Less(lag[t])]
    /\ UNCHANGED <<state, timeout, tasks, efd, batch, pc, wake, firing, raised>>

WorkerStep == \/ PollerWait \/ TimersetEvent \/ TimersetEmpty \/ Fire
              \/ TakeTasks \/ NoEvents \/ RunStartTask \/ RunStopTask \/ TasksDone

Next == \/ \E t \in TimerId : Start(t) \/ Stop(t)
        \/ WorkerStep
        \/ Tick

(* The worker thread runs and time passes; no owner has to start or stop.  *)
Fairness == WF_vars(WorkerStep) /\ WF_vars(Tick)

Spec == Init /\ [][Next]_vars /\ Fairness
-----------------------------------------------------------------------------
(* Properties.                                                             *)

(* A task of the timer is in the queue or in the worker's copy of it.      *)
Holds(q, t, k) == \E i \in DOMAIN q : q[i] = [timer |-> t, kind |-> k]
Pending(t, k)  == Holds(batch, t, k) \/ Holds(tasks, t, k)

(* The assertions of timer.c and queue.c hold: a task object is never      *)
(* pushed while it is queued, the start task of a running timer finds an   *)
(* interval to arm, and an expiry reaches a running timer only after that  *)
(* interval was consumed (timer.c:150, timer.c:161, queue.c:47).           *)
AssertionsHold ==
    \A t \in TimerId :
       /\ state[t] # "stopping" => ~Pending(t, "stop")
       /\ state[t] = "idle" => ~Pending(t, "start")
       /\ state[t] = "active" /\ Pending(t, "start") => timeout[t] >= 0
       /\ state[t] = "active" /\ firing = t => timeout[t] = Unset

(* The timer set is always in order of expiry, whatever is inserted and    *)
(* removed in between: timerset_event and timerset_timeout look at the     *)
(* first entry only.                                                       *)
TimersetOrdered ==
    \A i, j \in DOMAIN timerset : i < j =>
       /\ timerset[i].left <= timerset[j].left
       /\ timerset[i].timer # timerset[j].timer

(* A task is never left in the queue with the worker asleep: as long as    *)
(* there is one the efd is signalled (grid_worker_execute against the      *)
(* unsignal-and-take of grid_worker_routine).                              *)
NoLostWakeup == tasks # << >> => efd

(* The worker's data are sound in all these ways.                          *)
Consistent == TypeOK /\ AssertionsHold /\ TimersetOrdered /\ NoLostWakeup

(* TIMEOUT is raised at most once per start, only by a running timer, and  *)
(* never before the interval given to that very start has passed: an       *)
(* expiry of an earlier start never reaches the owner, and none comes      *)
(* twice (timerset.c:94-113, timer.c:158-165).                             *)
TimeoutNotEarly ==
    [][\A t \in TimerId :
          raised'[t] > raised[t] => raised[t] = 0 /\ state[t] = "active" /\ lag[t] = 0]_vars

(* A timer that is being stopped gets idle, so an owner that waits for     *)
(* STOPPED before it closes does not wait forever; one that was started    *)
(* expires unless it is stopped.                                           *)
TimersEnd ==
    \A t \in TimerId :
       /\ state[t] = "stopping" ~> state[t] = "idle"
       /\ state[t] = "active" ~> raised[t] > 0 \/ state[t] # "active"

-----------------------------------------------------------------------------
(* What one owner sees of its timer.                                       *)
Armed(t) == \E i \in DOMAIN timerset : timerset[i].timer = t

OwnTasks(t) == (IF Pending(t, "start") THEN <<"start">> ELSE << >>)
               \o (IF Pending(t, "stop") THEN <<"stop">> ELSE << >>)

View(t) == [state   |-> state[t],
            timeout |-> timeout[t] # Unset,
            tasks   |-> OwnTasks(t),
            wtimer  |-> IF firing = t THEN "fired" ELSE IF Armed(t) THEN "armed" ELSE "off"]

(* Each timer of the shared worker behaves as if it had a worker of its    *)
(* own: the task queue, its batches and the other timers cannot be told    *)
(* (Timer!Spec of every view).                                             *)
Alone(t) == INSTANCE Timer WITH tmr <- View(t)

TimerAlone == /\ \A t \in TimerId : Alone(t)!Init
              /\ [][\A t \in TimerId : Alone(t)!Next \/ UNCHANGED View(t)]_vars
=============================================================================
