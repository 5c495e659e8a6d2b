-------------------------------- MODULE Req --------------------------------
(***************************************************************************)
(* The REQ socket: src/src/protocols/reqrep/req.c on top of the raw socket *)
(* xreq.c, its load balancer and the resend timer.                         *)
(*                                                                         *)
(* Every action is one entry into the context of the socket: a call of the *)
(* user, a pipe event, a task or an expiry delivered by the worker thread. *)
(* Events raised inside (STOPPED and TIMEOUT of the timer, OUT of a pipe)  *)
(* are handled before grid_ctx_leave returns, hence in the same action.    *)
(*                                                                         *)
(* A pipe is added to the balancer and gets writable in one step           *)
(* (grid_pipebase_start raises OUT).  Which writable pipe takes a request  *)
(* is left open: the priority list has a module of its own to be.  So is   *)
(* the order in which the fair queue hands out received messages: unread   *)
(* is the set of pipes whose next message is still in it.                  *)
(*                                                                         *)
(* What uses a message after its chunk was released ends the process: the  *)
(* tag of a released chunk is checked by grid_chunk_getptr (chunk.c:211).  *)
(***************************************************************************)
EXTENDS TimerOps, Integers

CONSTANTS
    Pipes,      \* identities of the connections to peers
    MaxId,      \* bound: requests the user submits
    Intervals   \* values the user may set GRID_REQ_RESEND_IVL to

ASSUME MaxIdAssumption == MaxId \in Nat
GRID_REQ_DEFAULT_RESEND_IVL == 60000
ASSUME IntervalsAssumption == /\ Intervals \subseteq Int
                              /\ GRID_REQ_DEFAULT_RESEND_IVL \in Intervals

None == "none"
ASSUME PipesAssumption == None \notin Pipes

VARIABLES
    state,      \* grid_req.state
    id,         \* grid_req.task.id, counted from 0
    reply,      \* grid_req.task.reply
    sentTo,     \* grid_req.task.sent_to
    tmr,        \* grid_req.task.timer and its share of the worker
    resendIvl,  \* grid_req.resend_ivl
    lb,         \* pipe -> "absent", "busy" or "ready" (may be sent to)
    unread,     \* pipes with a message waiting in grid_xreq.fq
    sock,       \* grid_sock.state
    failed,     \* the assertion that aborted the process, or None
    asked,      \* environment: requests the peer on a pipe may answer
    reached,    \* ghost: the current request was passed to a peer
    taken       \* ghost: requests whose reply the user received

vars == <<state, id, reply, sentTo, tmr, resendIvl, lb, unread, sock, failed,
          asked, reached, taken>>

States == {"IDLE", "PASSIVE", "DELAYED", "ACTIVE", "TIMED_OUT", "CANCELLING",
           "STOPPING_TIMER", "DONE", "STOPPING"}

(* A message is empty, holds a reply to request n, or was terminated.      *)
(* grid_msg_term clears nothing: a body short enough to be kept inside the *)
(* message is still there (chunkref.c:67), and of a longer one the pointer *)
(* to the released chunk.                                                  *)
Empty    == [body |-> "empty", id |-> 0]
Whole(n) == [body |-> "whole", id |-> n]
Stale    == [body |-> "stale", id |-> 0]
Freed    == [body |-> "freed", id |-> 0]

TypeOK ==
    /\ state \in States
    /\ id \in 0..MaxId
    /\ reply \in {Empty, Stale, Freed} \cup {Whole(n) : n \in 1..MaxId}
    /\ sentTo \in Pipes \cup {None}
    /\ tmr \in Timers
    /\ resendIvl \in Intervals
    /\ lb \in [Pipes -> {"absent", "busy", "ready"}]
    /\ unread \subseteq Pipes
    /\ sock \in {"ACTIVE", "STOPPING_EPS", "STOPPING", "FINI"}
    /\ failed \in {None, "bad_action", "allow_delay", "timer_start", "reply freed"}
    /\ asked \in [Pipes -> SUBSET (1..MaxId)]
    /\ reached \in BOOLEAN
    /\ taken \in SUBSET (1..MaxId)

(* grid_req_init also starts the state machine: IDLE passes to PASSIVE.    *)
Init ==
    /\ state = "PASSIVE"
    /\ id = 0
    /\ reply = Empty
    /\ sentTo = None
    /\ tmr = IdleTimer
    /\ resendIvl = GRID_REQ_DEFAULT_RESEND_IVL
    /\ lb = [p \in Pipes |-> "absent"]
    /\ unread = {}
    /\ sock = "ACTIVE"
    /\ failed = None
    /\ asked = [p \in Pipes |-> {}]
    /\ reached = FALSE
    /\ taken = {}

-----------------------------------------------------------------------------
Running == failed = None

(* grid_req_inprogress *)
InProgress == state \notin {"IDLE", "PASSIVE", "STOPPING"}

Ready(l) == {p \in Pipes : l[p] = "ready"}

(* grid_fsm_bad_action and its kin end the process.                        *)
Abort(why) == failed' = why

(* grid_req_action_send of request n, with the balancer l and the timer t  *)
(* as the handler left them.  The pipe stays writable or is released.      *)
ActionSend(l, t, n, allowDelay) ==
    \/ /\ Ready(l) = {}
       /\ IF allowDelay THEN state' = "DELAYED" /\ UNCHANGED failed
                        ELSE Abort("allow_delay") /\ UNCHANGED state
       /\ lb' = l /\ tmr' = t
       /\ reached' = (reached /\ n = id)
       /\ UNCHANGED <<sentTo, asked>>
    \/ \E p \in Ready(l), after \in {"ready", "busy"} :
       /\ lb' = [l EXCEPT ![p] = after]
       /\ asked' = [asked EXCEPT ![p] = @ \cup {n}]
       /\ reached' = TRUE
       /\ IF StartAllowed(t, resendIvl)
          THEN /\ tmr' = Started(t)
               /\ sentTo' = p
               /\ state' = "ACTIVE"
               /\ UNCHANGED failed
          ELSE /\ Abort("timer_start")
               /\ tmr' = t
               /\ UNCHANGED <<sentTo, state>>

(* Mutant: the pipe is not forgotten.                                      *)
StopWaitingKeepsPipe(next) ==
    /\ tmr' = StopRequested(tmr)
    /\ state' = next
    /\ UNCHANGED sentTo

(* Leaving ACTIVE: the timer is stopped and the pipe forgotten.            *)
StopWaiting(next) ==
    /\ tmr' = StopRequested(tmr)
    /\ sentTo' = None
    /\ state' = next

-----------------------------------------------------------------------------
(* Calls of the user.                                                      *)

(* grid_req_csend: the request is stored, then the state machine is told.  *)
SendNow     == /\ state \in {"PASSIVE", "DONE"}
               /\ ActionSend(lb, tmr, id + 1, TRUE)
SendDelayed == /\ state \in {"DELAYED", "CANCELLING"}
               /\ UNCHANGED <<state, sentTo, tmr, lb, failed, asked>>
               /\ reached' = FALSE
SendCancels == /\ state = "ACTIVE"
               /\ StopWaiting("CANCELLING")
               /\ reached' = FALSE
               /\ UNCHANGED <<lb, failed, asked>>
SendAgain   == /\ state \in {"TIMED_OUT", "STOPPING_TIMER"}
               /\ state' = "CANCELLING"
               /\ reached' = FALSE
               /\ UNCHANGED <<sentTo, tmr, lb, failed, asked>>
SendBad     == /\ Abort("bad_action")
               /\ UNCHANGED <<state, sentTo, tmr, lb, asked, reached>>

Send ==
    /\ Running /\ sock = "ACTIVE" /\ id < MaxId
    /\ id' = id + 1
    /\ IF state \in {"IDLE", "STOPPING"} THEN SendBad
       ELSE SendNow \/ SendDelayed \/ SendCancels \/ SendAgain
    /\ UNCHANGED <<reply, resendIvl, unread, sock, taken>>

(* grid_req_crecv; without a reply it returns EFSM or EAGAIN and changes   *)
(* nothing.  It moves what the reply field holds to the user, a terminated *)
(* message too: its short body is handed out, its chunk fails when it is   *)
(* read.                                                                   *)
RecvFreed   == /\ reply = Freed
               /\ Abort("reply freed")
               /\ UNCHANGED <<state, reply, taken>>
RecvMessage == /\ reply # Freed
               /\ reply' = Empty
               /\ state' = "PASSIVE"
               /\ taken' = IF reply = Whole(id) THEN taken \cup {id} ELSE taken
               /\ UNCHANGED failed

Recv ==
    /\ Running /\ sock = "ACTIVE" /\ state = "DONE"
    /\ RecvFreed \/ RecvMessage
    /\ UNCHANGED <<id, sentTo, tmr, resendIvl, lb, unread, sock, asked, reached>>

(* grid_req_setopt takes any int.                                          *)
SetResendIvl ==
    /\ Running /\ sock = "ACTIVE"
    /\ resendIvl' \in Intervals
    /\ UNCHANGED <<state, id, reply, sentTo, tmr, lb, unread, sock, failed, asked,
                   reached, taken>>

-----------------------------------------------------------------------------
(* Pipe events, passed on by grid_sock_handler only while it is ACTIVE.    *)

(* Mutant: the state machine is not told that a pipe got writable.         *)
WritableSilent(p) ==
    /\ lb' = [lb EXCEPT ![p] = "ready"]
    /\ UNCHANGED <<state, sentTo, tmr, failed, asked, reached>>

(* Mutant: it is told before the pipe is added to the balancer.            *)
WritableEarly(p) ==
    IF state = "DELAYED"
    THEN ActionSend(lb, tmr, id, FALSE)
    ELSE /\ lb' = [lb EXCEPT ![p] = "ready"]
         /\ UNCHANGED <<state, sentTo, tmr, failed, asked, reached>>

(* grid_req_out on balancer l                                              *)
Writable(p) ==
    LET l == [lb EXCEPT ![p] = "ready"]
    IN  \/ /\ state = "DELAYED"
           /\ ActionSend(l, tmr, id, FALSE)
        \/ /\ state # "DELAYED"
           /\ lb' = l
           /\ UNCHANGED <<state, sentTo, tmr, failed, asked, reached>>

(* A connection is established: grid_xreq_add and the first OUT.           *)
PipeAdd(p) ==
    /\ Running /\ sock = "ACTIVE" /\ lb[p] = "absent"
    /\ Writable(p)
    /\ UNCHANGED <<id, reply, resendIvl, unread, sock, taken>>

(* The pipe finished sending an earlier message.                           *)
PipeOut(p) ==
    /\ Running /\ sock = "ACTIVE" /\ lb[p] = "busy"
    /\ Writable(p)
    /\ UNCHANGED <<id, reply, resendIvl, unread, sock, taken>>

(* The checks of grid_req_in on a reply to request n (0: malformed).       *)
AcceptsAny(n) == InProgress                             \* mutant: no id check
Accepts(n) == InProgress /\ n = id

(* grid_req_in, on the messages in the fair queue with the one pipe p just *)
(* got, last the one of pipe q to request n.  A message is received into   *)
(* task.reply whatever is stored there, and terminated in place when it is *)
(* not the reply waited for.  The handler returns at the first reply that  *)
(* it accepts, at a message too short for a header (xreq.c:190), or when   *)
(* the queue is empty; what is then left waits for the next event.         *)
InAccepts(n, left) ==
    /\ Accepts(n)
    /\ reply' = Whole(n)
    /\ unread' \in SUBSET left
    /\ IF state = "ACTIVE" THEN StopWaiting("STOPPING_TIMER")
                           ELSE UNCHANGED <<state, sentTo, tmr>>
InDiscards(n, left) ==
    /\ ~Accepts(n)
    /\ reply' \in {Stale, Freed}
    /\ IF n = 0 THEN unread' \in SUBSET left ELSE unread' = {}
    /\ UNCHANGED <<state, sentTo, tmr>>

PipeIn(p) ==
    /\ Running /\ sock = "ACTIVE" /\ lb[p] # "absent" /\ p \notin unread
    /\ \E q \in unread \cup {p} : \E n \in asked[q] \cup {0} :
          InAccepts(n, unread \cup {p}) \/ InDiscards(n, unread \cup {p})
    /\ UNCHANGED <<id, resendIvl, lb, sock, failed, asked, reached, taken>>

(* grid_req_rm: a removed pipe the request was sent to counts as a timeout.*)
PipeRm(p) ==
    /\ Running /\ sock \in {"ACTIVE", "STOPPING_EPS"} /\ lb[p] # "absent"
    /\ lb' = [lb EXCEPT ![p] = "absent"]
    /\ unread' = unread \ {p}
    /\ asked' = [asked EXCEPT ![p] = {}]
    /\ IF sentTo # p THEN UNCHANGED <<state, sentTo, tmr, failed>>
       ELSE IF state = "ACTIVE" THEN StopWaiting("TIMED_OUT") /\ UNCHANGED failed
       ELSE Abort("bad_action") /\ UNCHANGED <<state, sentTo, tmr>>
    /\ UNCHANGED <<id, reply, resendIvl, sock, reached, taken>>

-----------------------------------------------------------------------------
(* The worker thread.                                                      *)

StartTask ==
    /\ Running /\ StartTaskDue(tmr)
    /\ tmr' = AfterStartTask(tmr)
    /\ UNCHANGED <<state, id, reply, sentTo, resendIvl, lb, unread, sock, failed, asked,
                   reached, taken>>

Expire ==
    /\ Running /\ tmr.wtimer = "armed"
    /\ tmr' = Expired(tmr)
    /\ UNCHANGED <<state, id, reply, sentTo, resendIvl, lb, unread, sock, failed, asked,
                   reached, taken>>

(* The expiry reaches the context; a TIMEOUT it raises goes to the request.*)
Fire ==
    /\ Running /\ tmr.wtimer = "fired"
    /\ LET t == AfterFired(tmr) IN
       IF ~RaisesTimeout(tmr) \/ state = "STOPPING"
       THEN tmr' = t /\ UNCHANGED <<state, sentTo, failed>>
       ELSE IF state = "ACTIVE"
       THEN /\ tmr' = StopRequested(t)
            /\ sentTo' = None
            /\ state' = "TIMED_OUT"
            /\ UNCHANGED failed
       ELSE Abort("bad_action") /\ tmr' = t /\ UNCHANGED <<state, sentTo>>
    /\ UNCHANGED <<id, reply, resendIvl, lb, unread, sock, asked, reached, taken>>

(* grid_req_term, when the socket is destroyed, terminates the reply field *)
(* once more (req.c:113).                                                  *)
DestroyReq == IF reply = Freed THEN Abort("reply freed") ELSE UNCHANGED failed

(* The stop task: the timer is idle and STOPPED is handled at once.        *)
StoppedResends == /\ state \in {"TIMED_OUT", "CANCELLING"}
                  /\ ActionSend(lb, AfterStopTask(tmr), id, TRUE)
                  /\ UNCHANGED sock
StoppedDone    == /\ state = "STOPPING_TIMER"
                  /\ state' = "DONE"
                  /\ tmr' = AfterStopTask(tmr)
                  /\ UNCHANGED <<sentTo, lb, sock, failed, asked, reached>>
StoppedCloses  == /\ state = "STOPPING"
                  /\ state' = "IDLE" /\ sock' = "FINI"
                  /\ tmr' = AfterStopTask(tmr)
                  /\ DestroyReq
                  /\ UNCHANGED <<sentTo, lb, asked, reached>>
StoppedBad     == /\ Abort("bad_action")
                  /\ tmr' = AfterStopTask(tmr)
                  /\ UNCHANGED <<state, sentTo, lb, sock, asked, reached>>

(* The states with a case for GRID_REQ_SRC_RESEND_TIMER, STOPPED.           *)
TimerStoppingStates == {"TIMED_OUT", "CANCELLING", "STOPPING_TIMER", "STOPPING"}

StopTask ==
    /\ Running /\ StopTaskDue(tmr)
    /\ IF state \in TimerStoppingStates
       THEN StoppedResends \/ StoppedDone \/ StoppedCloses
       ELSE StoppedBad
    /\ UNCHANGED <<id, reply, resendIvl, unread, taken>>

-----------------------------------------------------------------------------
(* Closing.                                                                *)

(* grid_req_stop, once the last endpoint is gone: with an idle timer the   *)
(* socket is destroyed at once.                                            *)
ReqStop ==
    /\ tmr' = StopRequested(tmr)
    /\ IF TimerIsIdle(tmr)
       THEN state' = "IDLE" /\ sock' = "FINI" /\ DestroyReq
       ELSE state' = "STOPPING" /\ sock' = "STOPPING" /\ UNCHANGED failed

AllGone == \A p \in Pipes : lb[p] = "absent"

(* grid_sock_shutdown on grid_close: endpoints are asked to stop, and when *)
(* there are none the protocol is.                                         *)
Close ==
    /\ Running /\ sock = "ACTIVE"
    /\ \/ sock' = "STOPPING_EPS" /\ UNCHANGED <<state, tmr, failed>>
       \/ AllGone /\ ReqStop
    /\ UNCHANGED <<id, reply, sentTo, resendIvl, lb, unread, asked, reached, taken>>

(* The last endpoint reports STOPPED.                                      *)
EpsStopped ==
    /\ Running /\ sock = "STOPPING_EPS" /\ AllGone
    /\ ReqStop
    /\ UNCHANGED <<id, reply, sentTo, resendIvl, lb, unread, asked, reached, taken>>

-----------------------------------------------------------------------------
Next ==
    \/ Send \/ Recv \/ SetResendIvl
    \/ \E p \in Pipes : PipeAdd(p) \/ PipeOut(p) \/ PipeIn(p) \/ PipeRm(p)
    \/ StartTask \/ Expire \/ Fire \/ StopTask
    \/ Close \/ EpsStopped

(* The worker executes its tasks, time passes, and an endpoint that was    *)
(* asked to stop drops its pipes and stops.  Users and peers need not act. *)
Fairness ==
    /\ WF_vars(StartTask) /\ WF_vars(StopTask)
    /\ WF_vars(Expire) /\ WF_vars(Fire)
    /\ WF_vars(EpsStopped)
    /\ \A p \in Pipes : WF_vars(sock = "STOPPING_EPS" /\ PipeRm(p))

Safety == Init /\ [][Next]_vars
Spec   == Safety /\ Fairness

-----------------------------------------------------------------------------
(* Properties.                                                             *)

(* Whatever the order of calls, pipe events and worker steps, the process  *)
(* is ended by nothing but the use of a reply field whose message was      *)
(* discarded (handed out at req.c:288 or terminated again at req.c:113):   *)
(* every event finds a case in grid_req_handler, a request that may not be *)
(* delayed finds a pipe, and the resend timer is started only when it is   *)
(* idle (req.c:617, req.c:634, timer.c:79, fsm.c:112).                     *)
OnlyFreedReplyAborts == failed # None => failed = "reply freed" /\ reply = Freed

(* The resend timer runs exactly while a reply is awaited and is being     *)
(* stopped exactly in the states that wait for STOPPED, so no state waits  *)
(* for an event that cannot come.                                          *)
TimerFollowsRequest ==
    /\ TimerConsistent(tmr)
    /\ tmr.state = "active"   <=> state = "ACTIVE"
    /\ tmr.state = "stopping" <=> state \in TimerStoppingStates

(* The protocol is stopping or gone exactly when the socket is: it is      *)
(* destroyed once, with no pipe left and its timer idle (req.c:109).       *)
SockFollowsRequest ==
    /\ state = "STOPPING" <=> sock = "STOPPING"
    /\ state = "IDLE" <=> sock = "FINI"
    /\ sock \in {"STOPPING", "FINI"} => AllGone

(* A reply is awaited only from a connected pipe whose peer was given the  *)
(* current request; in every other state task.sent_to is NULL, so that the *)
(* removal of a pipe never finds a stale pointer (req.c:673).              *)
AwaitsPeer ==
    IF state = "ACTIVE"
    THEN sentTo \in Pipes /\ lb[sentTo] # "absent" /\ id \in asked[sentTo]
    ELSE sentTo = None

(* Types, timer, socket and pipes agree with the state of the request.     *)
Consistent == TypeOK /\ TimerFollowsRequest /\ SockFollowsRequest /\ AwaitsPeer

(* A request is never kept back while some pipe could take it: DELAYED     *)
(* means that there is "no peer available at the moment" (req.c:413).      *)
NeverIdleWithPeer == state = "DELAYED" => Ready(lb) = {}

(* Nothing is waited for in vain: every state that waits for the timer to  *)
(* stop is left, so a request cannot get stuck between two transmissions;  *)
(* a peer that never answers does not hold a request forever, the resend   *)
(* timer takes it out of ACTIVE; and grid_close gets through the protocol, *)
(* whatever the request was doing when the endpoints were asked to stop.   *)
WaitsEnd ==
    /\ state \in TimerStoppingStates ~> state \notin TimerStoppingStates
    /\ state = "ACTIVE" ~> state # "ACTIVE"
    /\ sock \in {"STOPPING_EPS", "STOPPING"} ~> sock = "FINI"

(* The socket keeps the promise of ReqClient: a reply becomes available    *)
(* only for the current request, only after it reached a peer, and is      *)
(* handed out at most once, across resends, cancellations and lost pipes;  *)
(* what is handed out as a reply is one to the current request unless a    *)
(* later message took its place.                                           *)
Phase == IF state \in {"IDLE", "STOPPING"} \/ sock # "ACTIVE" THEN "closed"
         ELSE IF state = "PASSIVE" THEN "none"
         ELSE IF state \in {"STOPPING_TIMER", "DONE"} THEN "answered"
         ELSE "waiting"

ReplyLost == Phase = "answered" /\ reply # Whole(id)

Client == INSTANCE ReqClient WITH phase <- Phase, cur <- id, lost <- ReplyLost

ImplementsClient == Client!Spec
=============================================================================
