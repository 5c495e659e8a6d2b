---------------------------- MODULE TimerLemmas ----------------------------
(***************************************************************************)
(* What the operations of TimerOps do to a consistent timer, for the       *)
(* modules that own one.                                                   *)
(***************************************************************************)
EXTENDS TimerOps, TLAPS, Integers, SequenceTheorems

(* A sequence that extends s by y is Append(s, y).                         *)
LEMMA AppendIs ==
  ASSUME NEW S, NEW s \in Seq(S), NEW u \in Seq(S), NEW y \in S,
         Len(u) = Len(s) + 1, \A i \in 1..Len(s) : u[i] = s[i], u[Len(u)] = y
  PROVE  Append(s, y) = u
<1>1. /\ Append(s, y) \in Seq(S) /\ Len(Append(s, y)) = Len(s) + 1
      /\ \A i \in 1..Len(s) : Append(s, y)[i] = s[i]
      /\ Append(s, y)[Len(s) + 1] = y
  BY AppendProperties
<1>2. \A i \in 1..Len(u) : Append(s, y)[i] = u[i]
  BY <1>1, LenProperties
<1>3. QED
  BY <1>1, <1>2, SeqEqual

(* grid_queue_push of the stop task behind a start task still queued.      *)
LEMMA StopBehindStart == Append(<<"start">>, "stop") = <<"start", "stop">>
<1>1. <<"start">> \in Seq(TaskKinds) /\ Len(<<"start">>) = 1 /\ <<"start">>[1] = "start"
  BY DEF TaskKinds
<1>2. /\ <<"start", "stop">> \in Seq(TaskKinds) /\ Len(<<"start", "stop">>) = 2
      /\ <<"start", "stop">>[1] = "start" /\ <<"start", "stop">>[2] = "stop"
  BY DEF TaskKinds
<1>3. PICK s \in Seq(TaskKinds) : s = <<"start">> /\ Len(s) = 1 /\ s[1] = "start"
  BY <1>1, Zenon
<1>4. PICK u \in Seq(TaskKinds) : /\ u = <<"start", "stop">> /\ Len(u) = 2
                                  /\ u[1] = "start" /\ u[2] = "stop"
  BY <1>2, Zenon
<1>5. /\ Len(u) = Len(s) + 1 /\ \A i \in 1..Len(s) : u[i] = s[i]
      /\ u[Len(u)] = "stop" /\ "stop" \in TaskKinds
  <2>1. Len(u) = Len(s) + 1 /\ u[Len(u)] = "stop"
    BY <1>3, <1>4
  <2>2. \A i \in 1..Len(s) : i = 1
    BY <1>3
  <2>3. QED
    BY <2>1, <2>2, <1>3, <1>4 DEF TaskKinds
<1>6. Append(s, "stop") = u
  BY <1>5, AppendIs
<1>7. QED
  BY <1>6, <1>3, <1>4, Zenon

(* The other queue contents met when a task is pushed or popped.           *)
LEMMA TaskSteps ==
  /\ Append(<< >>, "start") = <<"start">> /\ Append(<< >>, "stop") = <<"stop">>
  /\ Tail(<<"start">>) = << >> /\ Tail(<<"stop">>) = << >>
  /\ Tail(<<"start", "stop">>) = <<"stop">>
  /\ Head(<<"start">>) = "start" /\ Head(<<"stop">>) = "stop"
  /\ Head(<<"start", "stop">>) = "start"
<1>1. Append(<< >>, "start") = <<"start">> /\ Append(<< >>, "stop") = <<"stop">>
  OBVIOUS
<1>2. Tail(<<"start">>) = << >> /\ Tail(<<"stop">>) = << >>
  OBVIOUS
<1>3. Tail(<<"start", "stop">>) = <<"stop">>
  OBVIOUS
<1>4. /\ Head(<<"start">>) = "start" /\ Head(<<"stop">>) = "stop"
      /\ Head(<<"start", "stop">>) = "start"
  OBVIOUS
<1>5. QED
  BY <1>1, <1>2, <1>3, <1>4

-----------------------------------------------------------------------------
(* grid_timer_start on an idle timer: it runs and its start task is the    *)
(* only one queued.                                                        *)
LEMMA StartConsistent ==
  ASSUME NEW t, TimerConsistent(t), t.state = "idle"
  PROVE  TimerConsistent(Started(t)) /\ Started(t).state = "active"
<1>1. t \in Timers /\ t.tasks = << >> /\ t.wtimer = "off"
  BY DEF TimerConsistent
<1>2. Append(t.tasks, "start") = <<"start">> /\ <<"start">> \in TaskQueues
  BY <1>1, TaskSteps DEF TaskQueues
<1>3. /\ Started(t) \in Timers
      /\ Started(t).state = "active" /\ Started(t).timeout = TRUE
      /\ Started(t).tasks = <<"start">> /\ Started(t).wtimer = "off"
  BY <1>1, <1>2 DEF Started, Timers, TimerStates
<1>4. QED
  BY <1>3 DEF TimerConsistent

(* No assertion of grid_timer_start fails on a consistent idle timer when  *)
(* the interval is not negative.                                           *)
LEMMA StartIsAllowed ==
  ASSUME NEW t, TimerConsistent(t), t.state = "idle", NEW ivl, ivl >= 0
  PROVE  StartAllowed(t, ivl)
<1>1. t.tasks = << >> /\ Len(<< >>) = 0
  BY DEF TimerConsistent
<1>2. QED
  BY <1>1 DEF StartAllowed, TimerIsIdle, Queued

(* grid_timer_stop: a running timer is stopping, any other is unchanged.   *)
LEMMA StopConsistent ==
  ASSUME NEW t, TimerConsistent(t)
  PROVE  /\ TimerConsistent(StopRequested(t))
         /\ t.state = "active" => StopRequested(t).state = "stopping"
         /\ t.state # "active" => StopRequested(t) = t
<1>1. CASE t.state # "active"
  BY <1>1 DEF StopRequested
<1>2. CASE t.state = "active"
  <2>1. /\ t \in Timers
        /\ \/ t.tasks = <<"start">> /\ t.wtimer = "off" /\ t.timeout
           \/ t.tasks = << >> /\ ~t.timeout
    BY <1>2 DEF TimerConsistent
  <2>2. \/ Append(t.tasks, "stop") = <<"start", "stop">> /\ t.wtimer = "off"
        \/ Append(t.tasks, "stop") = <<"stop">>
    BY <2>1, TaskSteps, StopBehindStart
  <2>3. Append(t.tasks, "stop") \in TaskQueues
    BY <2>2 DEF TaskQueues
  <2>4. /\ StopRequested(t) \in Timers
        /\ StopRequested(t).state = "stopping"
        /\ StopRequested(t).tasks = Append(t.tasks, "stop")
        /\ StopRequested(t).wtimer = t.wtimer
    BY <1>2, <2>1, <2>3 DEF StopRequested, Timers, TimerStates
  <2>5. QED
    BY <1>2, <2>2, <2>4 DEF TimerConsistent
<1>3. QED
  BY <1>1, <1>2

-----------------------------------------------------------------------------
(* The start task leaves the state of the timer alone.                     *)
LEMMA StartTaskConsistent ==
  ASSUME NEW t, TimerConsistent(t), StartTaskDue(t)
  PROVE  TimerConsistent(AfterStartTask(t)) /\ AfterStartTask(t).state = t.state
<1>1. t \in Timers /\ t.state \in {"idle", "active", "stopping"}
  BY DEF TimerConsistent, Timers, TimerStates
<1>2. t.tasks # << >> /\ t.tasks # <<"stop">>
  BY TaskSteps DEF StartTaskDue
<1>3. CASE t.state = "active"
  <2>1. t.tasks = <<"start">>
    BY <1>2, <1>3 DEF TimerConsistent
  <2>2. Tail(t.tasks) = << >> /\ << >> \in TaskQueues /\ "armed" \in WTimer
    BY <2>1, TaskSteps DEF TaskQueues, WTimer
  <2>3. /\ AfterStartTask(t) \in Timers
        /\ AfterStartTask(t).state = "active" /\ AfterStartTask(t).tasks = << >>
        /\ AfterStartTask(t).timeout = FALSE
    BY <1>1, <1>3, <2>2 DEF AfterStartTask, Timers
  <2>4. QED
    BY <1>3, <2>3 DEF TimerConsistent
<1>4. CASE t.state = "stopping"
  <2>1. t.tasks = <<"start", "stop">>
    BY <1>2, <1>4 DEF TimerConsistent
  <2>2. Tail(t.tasks) = <<"stop">> /\ <<"stop">> \in TaskQueues
    BY <2>1, TaskSteps DEF TaskQueues
  <2>3. /\ AfterStartTask(t) \in Timers
        /\ AfterStartTask(t).state = "stopping" /\ AfterStartTask(t).tasks = <<"stop">>
    BY <1>1, <1>4, <2>2 DEF AfterStartTask, Timers
  <2>4. QED
    BY <1>4, <2>3 DEF TimerConsistent
<1>5. t.state # "idle"
  BY <1>2 DEF TimerConsistent
<1>6. QED
  BY <1>1, <1>3, <1>4, <1>5

(* The stop task runs only while the timer is stopping, and leaves it idle *)
(* with nothing behind.                                                    *)
LEMMA StopTaskConsistent ==
  ASSUME NEW t, TimerConsistent(t), StopTaskDue(t)
  PROVE  /\ t.state = "stopping"
         /\ TimerConsistent(AfterStopTask(t)) /\ AfterStopTask(t).state = "idle"
<1>1. t \in Timers /\ t.state \in {"idle", "active", "stopping"}
  BY DEF TimerConsistent, Timers, TimerStates
<1>2. /\ t.tasks # << >> /\ t.tasks # <<"start">> /\ t.tasks # <<"start", "stop">>
  BY TaskSteps DEF StopTaskDue
<1>3. t.state = "stopping" /\ t.tasks = <<"stop">>
  BY <1>1, <1>2 DEF TimerConsistent
<1>4. Tail(t.tasks) = << >> /\ << >> \in TaskQueues
  BY <1>3, TaskSteps DEF TaskQueues
<1>5. /\ AfterStopTask(t) \in Timers
      /\ AfterStopTask(t).state = "idle" /\ AfterStopTask(t).tasks = << >>
      /\ AfterStopTask(t).wtimer = "off"
  BY <1>1, <1>4 DEF AfterStopTask, Timers, TimerStates, WTimer
<1>6. QED
  BY <1>3, <1>5 DEF TimerConsistent

(* Popping an expired timer and delivering it change nothing but wtimer.   *)
LEMMA ExpiryConsistent ==
  ASSUME NEW t, TimerConsistent(t), t.wtimer \in {"armed", "fired"}
  PROVE  /\ TimerConsistent(Expired(t)) /\ Expired(t).state = t.state
         /\ TimerConsistent(AfterFired(t)) /\ AfterFired(t).state = t.state
<1>1. /\ t \in Timers /\ t.state # "idle"
      /\ t.state = "active" => t.tasks = << >> /\ ~t.timeout
      /\ t.state = "stopping" => t.tasks = <<"stop">>
  BY DEF TimerConsistent
<1>2. /\ Expired(t) \in Timers /\ Expired(t).state = t.state
      /\ Expired(t).tasks = t.tasks /\ Expired(t).timeout = t.timeout
  BY <1>1 DEF Expired, Timers, WTimer
<1>3. /\ AfterFired(t) \in Timers /\ AfterFired(t).state = t.state
      /\ AfterFired(t).tasks = t.tasks /\ AfterFired(t).timeout = t.timeout
  BY <1>1 DEF AfterFired, Timers, WTimer
<1>4. TimerConsistent(Expired(t))
  BY <1>1, <1>2 DEF TimerConsistent
<1>5. TimerConsistent(AfterFired(t))
  BY <1>1, <1>3 DEF TimerConsistent
<1>6. QED
  BY <1>2, <1>3, <1>4, <1>5

(* An idle timer is consistent.                                            *)
LEMMA IdleConsistent == TimerConsistent(IdleTimer) /\ IdleTimer.state = "idle"
<1>1. << >> \in TaskQueues
  BY DEF TaskQueues
<1>2. QED
  BY <1>1 DEF TimerConsistent, IdleTimer, Timers, TimerStates, WTimer
=============================================================================
