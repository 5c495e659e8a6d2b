----------------------------- MODULE Transport -----------------------------
(***************************************************************************)
(* One endpoint of TCP or IPC at work: the context of its socket           *)
(* (src/src/aio/ctx.c, fsm.c), the worker thread (aio/worker.c), the peer  *)
(* at the other end of each connection, the user and the resolver.         *)
(***************************************************************************)
EXTENDS Endpoint

CONSTANT Excused    \* failures the properties leave aside, see Documented

VARIABLES
    w,      \* the world of Usock: the objects, queues and counters
    stop    \* grid_sock asked the endpoint to stop, which it does once
vars == <<w, stop>>

(* The assertions that the code does fail, each described in the README.   *)
Documented == {"task queued at term", "streamhdr: usock event", "usock not active",
               "usock started twice", "stcp: event when done",
               "pipe: event after removal", "usock: accept", "sipc: message type"}
ASSUME ExcusedAssumption == Excused \subseteq Documented

Timers == Conns \cup {"retry"}
Machines == {"ep", "atcp", "stcp", "hdr", "pipe", "epfsm", "sock"}

TransportTypeOK ==
    /\ w.role \in {"bind", "connect"} /\ w.net \in {"tcp", "ipc"}
    /\ w.ep \in States /\ stop \in BOOLEAN
    /\ w.cur \in Conns \cup {Nil} /\ w.list \subseteq Conns
    /\ w.atcp \in [Conns -> AtcpStates]
    /\ w.dns \in {"IDLE", "RESOLVING", "DONE", "STOPPING"} /\ w.found \in BOOLEAN
    /\ w.fsm \in {"IDLE", "ACTIVE", "STOPPING"} /\ w.error \in BOOLEAN
    /\ w.stat \in [Stats -> Int]
    /\ \A u \in Socks : w.us[u].st \in UsockStates
    /\ \A t \in Timers : w.tmr[t].st \in {"IDLE", "ACTIVE", "STOPPING"}
    /\ \A e \in Range(w.events) : e.to \in Machines

TransportInit ==
    /\ stop = FALSE
    /\ \E role \in {"bind", "connect"}, net \in {"tcp", "ipc"} :
        w = [role |-> role, net |-> net, ep |-> "IDLE",
             cur |-> Nil, list |-> {}, atcp |-> [c \in Conns |-> "FREE"],
             dns |-> "IDLE", found |-> FALSE,
             us |-> [u \in Socks |->
                       NewUsock(IF u = Listener \/ role = "connect" THEN EpOwner("USOCK")
                                ELSE AtcpOwner(u, "USOCK"))],
             hdr |-> [c \in Conns |-> NewHdr], stcp |-> [c \in Conns |-> NewStcp],
             pipe |-> [c \in Conns |-> NewPipe],
             tmr |-> [t \in Timers |-> IdleTimer],
             fsm |-> "ACTIVE", error |-> FALSE, stat |-> [n \in Stats |-> 0],
             did |-> {}, events |-> <<>>, tasks |-> <<>>, copy |-> <<>>, failed |-> Nil]

-----------------------------------------------------------------------------
(* grid_ctx_leave: handle the oldest event. *)
Handle(v, e) ==
    CASE e.to = "ep" -> EpHandler(v, stop, e)
      [] e.to = "atcp" -> IF v.net = "tcp" THEN AtcpHandler(v, e.of, e)
                          ELSE AipcHandler(v, e.of, e)
      [] e.to = "stcp" -> IF v.net = "tcp" THEN StcpHandler(v, e.of, e)
                          ELSE SipcHandler(v, e.of, e)
      [] e.to = "hdr" -> HdrHandler(v, e.of, e)
      [] e.to = "pipe" -> PipeHandler(v, e.of, e)
      [] e.to = "epfsm" -> {EpShutdown(v)}
      [] e.to = "sock" -> {EpTerm(v)}

Process ==
    /\ w.failed = Nil /\ w.events # <<>> /\ UNCHANGED stop
    /\ \E v \in Handle([w EXCEPT !.events = Tail(@)], Head(w.events)) :
          w' = IF v.failed = Nil /\ v.events = <<>> THEN [v EXCEPT !.did = {}] ELSE v

Settled == w.failed = Nil /\ w.events = <<>>

-----------------------------------------------------------------------------
(* The worker thread: it copies the queue of its tasks and runs them, and  *)
(* otherwise serves timers and descriptors.                                *)
TakeTasks ==
    /\ Settled /\ w.copy = <<>> /\ w.tasks # <<>> /\ UNCHANGED stop
    /\ w' = [w EXCEPT !.copy = w.tasks, !.tasks = <<>>]

RunTask ==
    /\ Settled /\ w.copy # <<>> /\ UNCHANGED stop
    /\ LET t == Head(w.copy)
           v == [w EXCEPT !.copy = Tail(@)]
       IN  w' = IF t.kind \in {"timer_start", "timer_stop"}
                THEN TimerTask(v, t.kind, t.on, TimerOwner(t.on))
                ELSE UsockTask(v, t.kind, t.on)

Polling(u) == Settled /\ w.copy = <<>> /\ w.us[u].reg /\ UNCHANGED stop

Expire(t) ==
    /\ Settled /\ w.copy = <<>> /\ w.tmr[t].armed /\ UNCHANGED stop
    /\ LET v == [w EXCEPT !.tmr[t].armed = FALSE]
       IN  w' = IF v.tmr[t].st # "ACTIVE" THEN v
                ELSE Raise(v, TimerOwner(t), t, "TIMEOUT")

PollIn(u) == Polling(u) /\ w.us[u].in /\ w' \in InBound(FdIn(w, u))
PollOut(u) == Polling(u) /\ w.us[u].out /\ w' \in FdOut(w, u)
(* The peer resets the connection; a listening socket has none, and the    *)
(* failure of a connect is reported as OUT.                                *)
PollErr(c) == Polling(c) /\ w.us[c].st # "CONNECTING" /\ w' \in FdErr(w, c)

-----------------------------------------------------------------------------
(* Other entries into the context. *)
Start ==
    /\ Settled /\ w.ep = "IDLE" /\ ~stop /\ UNCHANGED stop
    /\ w' \in EpInit(w)
Stop ==
    /\ Settled /\ w.ep \notin {"IDLE", "GONE"} /\ ~stop
    /\ stop' = TRUE /\ w' \in EpStop(w)
UserSend(c) == Settled /\ w.pipe[c].canout /\ w' \in PipeSend(w, c) /\ UNCHANGED stop
UserRecv(c) == Settled /\ w.pipe[c].canin /\ w' \in PipeRecv(w, c) /\ UNCHANGED stop
DnsNotify ==
    /\ Settled /\ w.dns \in {"RESOLVING", "STOPPING"} /\ UNCHANGED stop
    /\ \E ok \in BOOLEAN : w' = DnsNotified(w, ok)

Worker == TakeTasks \/ RunTask
TransportNext ==
    \/ Process \/ TakeTasks \/ RunTask \/ Start \/ Stop \/ DnsNotify
    \/ \E t \in Timers : Expire(t)
    \/ \E u \in Socks : PollIn(u) \/ PollOut(u)
    \/ \E c \in Conns : PollErr(c) \/ UserSend(c) \/ UserRecv(c)

(* Fairness: the events of a context are handled; the worker thread goes   *)
(* on, and in every round of its loop serves the timers that expired, then *)
(* its tasks, whatever else it has to poll for, hence strong fairness;     *)
(* a lookup comes to an end.  Nothing is assumed of the peer or the user.  *)
TransportSpec == /\ TransportInit /\ [][TransportNext]_vars
        /\ WF_vars(Process) /\ SF_vars(Worker) /\ SF_vars(DnsNotify)
        /\ \A t \in Timers : SF_vars(Expire(t))

-----------------------------------------------------------------------------
(* No event reaches a state that has no use for it, nothing is started or  *)
(* queued twice and nothing is destroyed while in use, except where the    *)
(* code is known to fail.                                                  *)
NeverAborts == TransportTypeOK /\ w.failed \in Excused \cup {Nil}

(* Every send and every receive that was accepted is on its way: while the *)
(* usock is alive, its end is an event already queued, a condition polled  *)
(* for, or a task that will poll for it.                                   *)
SendPending(c) == \/ w.stcp[c].st = "ACTIVE" /\ w.stcp[c].out = "SENDING"
              \/ w.hdr[c].st = "SENDING"
RecvPending(c) == \/ w.stcp[c].st = "ACTIVE" /\ w.stcp[c].in \in {"HDR", "BODY"}
                \/ w.hdr[c].st = "RECEIVING"
Ending(c, types) == \E e \in Range(w.events) :
                        e.src = "USOCK" /\ e.ptr = c /\ e.type \in types
OnItsWay(c, polled, kind, type) ==
    \/ Ending(c, {type, "SHUTDOWN", "ERROR"})
    \/ TaskQueued(w, kind, c)
    \/ polled /\ (w.us[c].reg \/ TaskQueued(w, "connected", c))
OperationsEnd ==
    \A c \in Conns : w.failed = Nil /\ w.us[c].st = "ACTIVE" =>
        /\ SendPending(c) => OnItsWay(c, w.us[c].out, "send", "SENT")
        /\ RecvPending(c) => OnItsWay(c, w.us[c].in, "recv", "RECEIVED")

(* A bound endpoint that is not being stopped always waits for the next    *)
(* connection, one it was short of descriptors for included.               *)
Listening ==
    w.role = "bind" /\ w.ep = "ACTIVE" /\ ~stop /\ Settled =>
        /\ w.cur # Nil /\ w.us[w.cur].asock = Listener /\ w.us[Listener].asock = w.cur
        /\ w.us[Listener].st = "ACCEPTING"
        /\ \/ TaskQueued(w, "accept", Listener)
           \/ w.us[Listener].reg /\ w.us[Listener].in

(* The statistics tell the truth about an endpoint that is not being       *)
(* stopped: every connection is counted until it breaks, every attempt     *)
(* until it ends, every pipe until it is removed, and an endpoint that     *)
(* has a connection made after its last error is not in error.             *)
CountersTrue ==
    Settled /\ ~stop =>
        /\ w.stat["inprogress"] = IF w.role = "connect" /\ w.ep = "CONNECTING" THEN 1 ELSE 0
        /\ w.stat["alive"] = IF w.role = "bind"
                             THEN Cardinality({c \in Conns : w.atcp[c] = "ACTIVE"})
                             ELSE IF w.ep = "ACTIVE" THEN 1 ELSE 0
        /\ w.stat["current"] = Cardinality({c \in Conns : w.pipe[c].st = "ACTIVE"})
        /\ w.stat["errors"] = IF w.error THEN 1 ELSE 0
        /\ w.role = "connect" /\ w.ep = "ACTIVE" => ~w.error

(* An endpoint that was asked to stop stops, whatever it was doing.        *)
StopCompletes == stop ~> (w.ep = "GONE" \/ w.failed # Nil)

(* A connection that broke is made again after the interval, unless the    *)
(* endpoint is stopped; a peer that never sends its header is given up.    *)
KeepsGoing ==
    /\ (w.role = "connect" /\ w.us[Peer].st = "DONE")
           ~> (w.ep = "STOPPING_BACKOFF" \/ stop \/ w.failed # Nil)
    /\ \A c \in Conns : (w.hdr[c].st \in {"SENDING", "RECEIVING"})
           ~> (w.hdr[c].st \notin {"SENDING", "RECEIVING"} \/ w.failed # Nil)
=============================================================================
