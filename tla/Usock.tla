------------------------------- MODULE Usock -------------------------------
(***************************************************************************)
(* Asynchronous sockets: src/src/aio/usock.c with the poller               *)
(* (poller_epoll.inc), the timers (timer.c) and the single worker thread   *)
(* (pool.c, worker.c) they share, inside one context (ctx.c).              *)
(*                                                                         *)
(* The objects of an endpoint call each other directly and answer through  *)
(* the event queue of the context, so an operator here is a call: it takes *)
(* the world w, a record with one field per object, and returns the world  *)
(* after the call, or the set of the worlds it may leave behind when the   *)
(* operating system has a choice.                                          *)
(*                                                                         *)
(* Data is left out: a send ends at once, later or with an error; so does  *)
(* a receive.  The events of one epoll batch are delivered in any order,   *)
(* but never between two tasks of the copied queue; grid_poller_rm and the *)
(* resets invalidate what is left of the batch, so an event is only        *)
(* delivered while the descriptor is polled for it.                        *)
(***************************************************************************)
EXTENDS Integers, Sequences, SequencesExt, FiniteSets

CONSTANT Conns      \* connections: each has its usock and its stream
Listener == "listener"
Nil == "none"
ASSUME ConnsAssumption ==
    /\ IsFiniteSet(Conns) /\ Conns # {}
    /\ {Listener, Nil, "retry"} \cap Conns = {}
Socks == Conns \cup {Listener}

(* A failed assertion ends the process; the first one is recorded.         *)
Fail(w, site) == [w EXCEPT !.failed = IF @ = Nil THEN site ELSE @]

(* The statistics of the socket, as far as they go down again: connections *)
(* being made, connections alive, pipes, endpoints in error.  alive stands *)
(* for established + accepted - broken - dropped; the others are gauges    *)
(* that may not become negative.                                           *)
Stats == {"inprogress", "alive", "current", "errors"}
StatIncrement(w, name, n) ==
    IF name # "alive" /\ w.stat[name] + n < 0 THEN Fail(w, "statistics")
    ELSE [w EXCEPT !.stat[name] = @ + n]

(* Events in the queue of the context.  to and of name the state machine   *)
(* that will handle it, src and ptr the object that raised it.             *)
Items == {{"SHUTDOWN", "ERROR", "ACCEPT_ERROR"}, {"CONNECTED", "ACCEPTED"}}
SameItem(e, f) == /\ e.src = f.src /\ e.ptr = f.ptr
                  /\ \/ e.type = f.type
                     \/ e.src = "USOCK" /\ \E i \in Items : {e.type, f.type} \subseteq i
Raise(w, owner, ptr, type) ==
    LET e == [to |-> owner.to, of |-> owner.of, src |-> owner.src,
              ptr |-> ptr, type |-> type]
    IN  IF \E f \in Range(w.events) : SameItem(e, f)
        THEN Fail(w, "event queued twice")
        ELSE [w EXCEPT !.events = Append(@, e)]

(* grid_fsm_isidle of a machine whose stopped event bears this source.     *)
StoppedQueued(w, src, ptr) ==
    \E e \in Range(w.events) : e.src = src /\ e.ptr = ptr /\ e.type = "STOPPED"

-----------------------------------------------------------------------------
(* Tasks of the worker: tasks is its queue, copy the local copy that its   *)
(* thread is going through.                                                *)
Execute(w, kind, on) ==
    LET t == [kind |-> kind, on |-> on]
    IN  IF t \in Range(w.tasks \o w.copy)
        THEN Fail(w, "task queued twice")
        ELSE [w EXCEPT !.tasks = Append(@, t)]
TaskCancel(w, kind, on) ==
    LET t == [kind |-> kind, on |-> on]
    IN  IF t \in Range(w.tasks)
        THEN [w EXCEPT !.tasks = RemoveAt(@, CHOOSE i \in DOMAIN w.tasks : w.tasks[i] = t)]
        ELSE w
TaskQueued(w, kind, on) == [kind |-> kind, on |-> on] \in Range(w.tasks \o w.copy)

(* The poller: reg is the presence of the descriptor in the pollset, in    *)
(* and out are the conditions polled for.                                  *)
PollerAdd(w, u) == [w EXCEPT !.us[u].reg = TRUE, !.us[u].in = FALSE, !.us[u].out = FALSE]
PollerRm(w, u) == [w EXCEPT !.us[u].reg = FALSE]
PollerIn(w, u, on) == [w EXCEPT !.us[u].in = on]
PollerOut(w, u, on) == [w EXCEPT !.us[u].out = on]

-----------------------------------------------------------------------------
(* Timers.  A timer is armed by its start task and stopped by its stop     *)
(* task; it expires once.                                                  *)
IdleTimer == [st |-> "IDLE", armed |-> FALSE]
TimerIdle(w, t) == w.tmr[t].st = "IDLE" /\ ~StoppedQueued(w, "TIMER", t)
TimerStart(w, t) ==
    IF ~TimerIdle(w, t) THEN Fail(w, "timer started twice")
    ELSE Execute([w EXCEPT !.tmr[t].st = "ACTIVE"], "timer_start", t)
TimerStop(w, t) ==
    IF w.tmr[t].st # "ACTIVE" THEN w
    ELSE Execute([w EXCEPT !.tmr[t].st = "STOPPING"], "timer_stop", t)
TimerTask(w, kind, t, owner) ==
    IF kind = "timer_start"
    THEN IF w.tmr[t].st = "ACTIVE" THEN [w EXCEPT !.tmr[t].armed = TRUE] ELSE w
    ELSE Raise([w EXCEPT !.tmr[t] = IdleTimer], owner, t, "STOPPED")

-----------------------------------------------------------------------------
(* The asynchronous socket. *)
UsockStates == {"IDLE", "STARTING", "BEING_ACCEPTED", "ACCEPTED", "CONNECTING",
                "ACTIVE", "REMOVING_FD", "DONE", "LISTENING", "ACCEPTING",
                "ACCEPTING_ERROR", "CANCELLING", "STOPPING", "STOPPING_ACCEPT"}
NewUsock(owner) ==
    [st |-> "IDLE", open |-> FALSE, reg |-> FALSE, in |-> FALSE, out |-> FALSE,
     asock |-> Nil, errnum |-> FALSE, owner |-> owner]

UsockIdle(w, u) == w.us[u].st = "IDLE" /\ ~StoppedQueued(w, "USOCK", u)
UsockRaise(w, u, type) == Raise(w, w.us[u].owner, u, type)
UsockMove(w, u, st) == [w EXCEPT !.us[u].st = st]
CloseFd(w, u) == [w EXCEPT !.us[u].open = FALSE]
SwapOwner(w, u, owner) == [w EXCEPT !.us[u].owner = owner]

(* grid_usock_term: only the receive task is cancelled, and only if the    *)
(* worker has not copied its queue yet; the others must not be queued.     *)
UsockTerm(w, u) ==
    LET v == TaskCancel(w, "recv", u)
    IN  IF \E t \in Range(v.tasks \o v.copy) : t.on = u
        THEN Fail(v, "task queued at term") ELSE v

InitFromFd(w, u) ==
    IF w.us[u].open THEN Fail(w, "usock started twice")
    ELSE [w EXCEPT !.us[u].open = TRUE]
UsockStart(w, u) ==
    IF w.us[u].open \/ ~UsockIdle(w, u) THEN Fail(w, "usock started twice")
    ELSE UsockMove(InitFromFd(w, u), u, "STARTING")

UsockListen(w, u) ==
    IF w.us[u].st # "STARTING" THEN Fail(w, "usock: bad action")
    ELSE UsockMove(w, u, "LISTENING")

AsyncStop(w, u) == UsockRaise(Execute(w, "stop", u), u, "SHUTDOWN")

(* Mutant: the listener is told to stop accepting, its worker is not.      *)
UsockCancelQuietly(w, l) == UsockMove(w, l, "CANCELLING")

(* grid_fsm_stop and grid_usock_shutdown. *)
UsockCancel(w, l) ==
    IF w.us[l].st # "ACCEPTING" THEN Fail(w, "usock: bad action")
    ELSE Execute(UsockMove(w, l, "CANCELLING"), "stop", l)
UsockStopped(w, u) == UsockRaise(UsockMove(w, u, "IDLE"), u, "STOPPED")
UsockStop(w, u) ==
    LET v == [w EXCEPT !.us[u].errnum = FALSE]
        st == w.us[u].st
    IN  IF st \in {"IDLE", "STOPPING", "STOPPING_ACCEPT"} THEN w
        ELSE IF st \in {"ACCEPTING", "CANCELLING"} THEN Fail(w, "usock: accepting")
        ELSE IF st = "DONE" THEN UsockStopped(v, u)
        ELSE IF st \in {"STARTING", "ACCEPTED", "ACCEPTING_ERROR", "LISTENING"}
             THEN UsockStopped(CloseFd(v, u), u)
        ELSE IF st = "BEING_ACCEPTED"
             THEN UsockMove(UsockCancel(v, v.us[u].asock), u, "STOPPING_ACCEPT")
        ELSE UsockMove(IF st = "REMOVING_FD" THEN v ELSE AsyncStop(v, u), u, "STOPPING")

(* The descriptor is lost in the worker: a connection that failed or that  *)
(* the peer reset.                                                         *)
UsockLost(w, u) ==
    UsockRaise(UsockMove(CloseFd(PollerRm(w, u), u), u, "DONE"), u, "ERROR")
(* GRID_USOCK_ACTION_ERROR in the state ACTIVE: a call of the owner failed.*)
UsockBroken(w, u) == AsyncStop(UsockMove(w, u, "REMOVING_FD"), u)

(* grid_usock_connect: set of outcomes. *)
UsockConnected(w, u) ==
    UsockRaise(Execute(UsockMove(w, u, "ACTIVE"), "connected", u), u, "CONNECTED")
UsockConnect(w, u) ==
    IF w.us[u].st # "STARTING" THEN {Fail(w, "usock: bad action")}
    ELSE {UsockConnected(w, u),
          UsockRaise(UsockMove(CloseFd(w, u), u, "DONE"), u, "ERROR"),
          Execute(UsockMove(w, u, "CONNECTING"), "connecting", u)}

(* What the operating system makes of a send or a receive: all of it, an   *)
(* error, or a part.                                                       *)
SendRaw == {"ALL", "ECONNRESET", "EAGAIN"}
RecvRaw == {"ALL", "ECONNRESET", "EAGAIN"}
Attempt(w, u, outcome, type, kind) ==
    CASE outcome = "ALL" -> UsockRaise(w, u, type)
      [] outcome = "ECONNRESET" -> UsockBroken(w, u)
      [] outcome = "EAGAIN" -> Execute(w, kind, u)

(* Mutant: the rest of a receive is not passed on to the worker.           *)
UsockRecvDropsRest(w, u) == {UsockRaise(w, u, "RECEIVED"), UsockBroken(w, u), w}

(* grid_usock_send and grid_usock_recv: the rest is left to the worker.    *)
UsockSend(w, u) ==
    IF w.us[u].st # "ACTIVE" THEN {Fail(w, "usock not active")}
    ELSE {Attempt(w, u, o, "SENT", "send") : o \in SendRaw}
UsockRecv(w, u) ==
    IF w.us[u].st # "ACTIVE" THEN {Fail(w, "usock not active")}
    ELSE {Attempt(w, u, o, "RECEIVED", "recv") : o \in RecvRaw}

(* grid_usock_accept: a connection is there, none is there yet, the        *)
(* process is short of descriptors (repeated: as on the latest attempt),   *)
(* or accept fails with an error that the code takes to be impossible.     *)
BeingAccepted(w, u) == IF UsockIdle(w, u) THEN UsockMove(w, u, "BEING_ACCEPTED") ELSE w
Accepting(w, l) ==
    IF w.us[l].st \notin {"LISTENING", "ACCEPTING_ERROR"}
    THEN Fail(w, "usock: bad action") ELSE UsockMove(w, l, "ACCEPTING")
Pair(w, u, l) ==
    IF ~(w.us[u].asock \in {Nil, l} /\ w.us[l].asock \in {Nil, u})
    THEN Fail(w, "usock: paired")
    ELSE [w EXCEPT !.us[u].asock = l, !.us[l].asock = u]
AcceptDone(w, l) == UsockMove(w, l, "LISTENING")
BecomeAccepted(w, u) == UsockRaise(UsockMove(w, u, "ACCEPTED"), u, "ACCEPTED")
AcceptSucceeds(w, u, l) ==
    LET v == [w EXCEPT !.us[u].asock = Nil, !.us[l].asock = Nil]
    IN  BecomeAccepted(AcceptDone(InitFromFd(v, u), l), u)
UsockAccept(w, u, l) ==
    LET v == Accepting(BeingAccepted(w, u), l)
        p == Pair(v, u, l)
        waiting == Execute(p, "accept", l)
        short == IF p.us[l].errnum THEN waiting
                 ELSE UsockRaise([p EXCEPT !.us[l].errnum = TRUE,
                                           !.us[l].st = "ACCEPTING_ERROR"], l, "ACCEPT_ERROR")
    IN  {AcceptSucceeds(v, u, l), waiting, short, Fail(v, "usock: accept")}

UsockActivate(w, u) ==
    IF w.us[u].st # "ACCEPTED" THEN Fail(w, "usock: bad action")
    ELSE UsockMove(PollerAdd(w, u), u, "ACTIVE")

-----------------------------------------------------------------------------
(* What the worker hands to a usock: its tasks ... *)
StopTask(w, u) ==
    CASE w.us[u].st = "STOPPING" -> UsockStopped(CloseFd(PollerRm(w, u), u), u)
      [] w.us[u].st = "REMOVING_FD" -> UsockLost(w, u)
      [] w.us[u].st = "CANCELLING" ->
            LET a == w.us[u].asock
                v == UsockMove(PollerRm(w, u), u, "LISTENING")
            IN  IF v.us[a].st # "STOPPING_ACCEPT" THEN Fail(v, "usock: bad action")
                ELSE UsockStopped(v, a)
      [] OTHER -> Fail(w, "usock: bad source")
UsockTask(w, kind, u) ==
    CASE kind = "send" -> PollerOut(w, u, TRUE)
      [] kind = "recv" -> PollerIn(w, u, TRUE)
      [] kind = "connected" -> PollerAdd(w, u)
      [] kind = "connecting" -> PollerOut(PollerAdd(w, u), u, TRUE)
      [] kind = "accept" -> PollerIn(PollerAdd(w, u), u, TRUE)
      [] OTHER -> StopTask(w, u)

(* ... and the events of its descriptor.  In the states STOPPING,          *)
(* REMOVING_FD and CANCELLING they are ignored.                            *)
Ignoring == {"STOPPING", "REMOVING_FD", "CANCELLING"}
(* Mutant: nobody is told that accepting failed.                           *)
AcceptInSilent(w, l) ==
    {w, PollerRm(AcceptSucceeds(w, w.us[l].asock, l), l),
     [PollerRm(w, l) EXCEPT !.us[l].errnum = TRUE, !.us[l].st = "ACCEPTING_ERROR"]}
AcceptIn(w, l) ==
    LET u == w.us[l].asock
        short == [PollerRm(w, l) EXCEPT !.us[l].errnum = TRUE, !.us[l].st = "ACCEPTING_ERROR"]
    IN  {w, PollerRm(AcceptSucceeds(w, u, l), l), UsockRaise(short, l, "ACCEPT_ERROR"),
         Fail(w, "usock: accept")}
FdIn(w, u) ==
    CASE w.us[u].st \in Ignoring -> {w}
      [] w.us[u].st = "ACTIVE" ->
            {w, UsockRaise(PollerIn(w, u, FALSE), u, "RECEIVED"), UsockLost(w, u)}
      [] w.us[u].st = "ACCEPTING" -> AcceptIn(w, u)
      [] OTHER -> {Fail(w, "usock: bad source")}
ConnectEnds(w, u) ==
    {UsockRaise(UsockMove(w, u, "ACTIVE"), u, "CONNECTED"), UsockLost(w, u)}
FdOut(w, u) ==
    CASE w.us[u].st \in Ignoring -> {w}
      [] w.us[u].st = "ACTIVE" ->
            {w, UsockRaise(PollerOut(w, u, FALSE), u, "SENT"), UsockLost(w, u)}
      [] w.us[u].st = "CONNECTING" -> ConnectEnds(PollerOut(w, u, FALSE), u)
      [] OTHER -> {Fail(w, "usock: bad source")}
FdErr(w, u) ==
    CASE w.us[u].st \in Ignoring -> {w}
      [] w.us[u].st \in {"CONNECTING", "ACTIVE"} -> {UsockLost(w, u)}
      [] OTHER -> {Fail(w, "usock: bad source")}
=============================================================================
