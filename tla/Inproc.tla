------------------------------- MODULE Inproc -------------------------------
(***************************************************************************)
(* An in-process connection: the bound endpoint (binproc.c), the           *)
(* connecting endpoint (cinproc.c), the session on each side (sinproc.c)   *)
(* with its receive queue (msgqueue.c), and the repository of names that   *)
(* brings them together (ins.c).                                           *)
(*                                                                         *)
(* The two sockets have a context each.  A thread inside a context may     *)
(* only queue events for the other one; it delivers them after it left the *)
(* context, before it returns to its caller, and the events a delivery     *)
(* causes go first (grid_ctx_leave).  So every thread has a list of the    *)
(* events it still carries, and the threads interleave between events.     *)
(*                                                                         *)
(* One connection exists at a time: a socket connects only when the bound  *)
(* endpoint keeps no session of an earlier connection.                     *)
(***************************************************************************)
EXTENDS Naturals, SequencesExt

CONSTANTS
    Threads,
    Uses,       \* thread -> the sides whose socket it calls
    RcvBuf,     \* GRID_RCVBUF, all messages being of size 1
    MaxMsgs,    \* bound: messages sent in each direction
    MaxOpens    \* bound: calls of grid_bind and grid_connect

Sides    == {"b", "c"}      \* bound and connecting
Other(s) == CHOOSE t \in Sides : t # s

ASSUME UsesAssumption == Uses \in [Threads -> SUBSET Sides]
(* grid_sock_setopt refuses a receive buffer that is not positive.         *)
ASSUME BoundsAssumption == RcvBuf \in Nat \ {0} /\ MaxMsgs \in Nat /\ MaxOpens \in Nat

None == "none"

VARIABLES
    ep,         \* side -> state of binproc or cinproc
    ses,        \* side -> its sinproc
    carried,    \* thread -> events it has to deliver, next first
    failed,     \* the assertion or crash that ended the process, or None
    opens,      \* calls of grid_bind and grid_connect so far
    sent,       \* side -> messages sent by it, which are numbered
    got         \* side -> the latest message received by its user

vars == <<ep, ses, carried, failed, opens, sent, got>>

(* The session: state and flags of grid_sinproc, the state of its fsm,     *)
(* whether peer is set, its queue, the message exposed to the peer (0:     *)
(* none) and the instate and outstate of its pipe.                         *)
NoSession == [state |-> "IDLE", fsm |-> "idle", peer |-> FALSE,
              sending |-> FALSE, receiving |-> FALSE, queue |-> << >>,
              msg |-> 0, in |-> "off", out |-> "off"]

SessionStates == {"IDLE", "CONNECTING", "READY", "ACTIVE", "DISCONNECTED",
                  "STOPPING_PEER", "STOPPING"}
EventTypes == {"CONNECT", "READY", "ACCEPTED", "SENT", "RECEIVED", "DISCONNECT"}
Events == [type : EventTypes, to : Sides]
Event(type, to) == [type |-> type, to |-> to]

TypeOK ==
    /\ ep \in [Sides -> {None, "DISCONNECTED", "ACTIVE", "STOPPING"}]
    /\ \A s \in Sides :
          /\ ses[s].state \in SessionStates
          /\ ses[s].fsm \in {"idle", "active", "stopping"}
          /\ ses[s].msg \in 0..MaxMsgs
          /\ ses[s].in \in {"off", "idle", "async"}
          /\ ses[s].out \in {"off", "idle", "async"}
          /\ Len(ses[s].queue) <= (IF RcvBuf > 1 THEN RcvBuf - 1 ELSE 1)
    /\ \A th \in Threads : ToSet(carried[th]) \subseteq Events
    /\ failed \in {None, "bad_event", "null_peer", "freed", "reinit",
                   "queue_push", "pipe_state", "impossible_event"}

Init ==
    /\ ep = [s \in Sides |-> None]
    /\ ses = [s \in Sides |-> NoSession]
    /\ carried = [th \in Threads |-> << >>]
    /\ failed = None
    /\ opens = 0
    /\ sent = [s \in Sides |-> 0]
    /\ got = [s \in Sides |-> 0]

-----------------------------------------------------------------------------
(* Events between contexts.                                                *)

Running == failed = None

Abort(why) == failed' = why /\ UNCHANGED <<ep, ses, carried, opens, sent, got>>

(* The event objects of grid_sinproc: the three events of the handshake    *)
(* share the event_connect of the side that raises them.                   *)
Object(type) == IF type \in {"CONNECT", "READY", "ACCEPTED"} THEN "connect" ELSE type

Rest(th) == IF carried[th] = << >> THEN << >> ELSE Tail(carried[th])

Waiting(th) == ToSet(Rest(th)) \cup UNION {ToSet(carried[u]) : u \in Threads \ {th}}

IsWaiting(th, type, to) ==
    \E e \in Waiting(th) : e.to = to /\ Object(e.type) = Object(type)

(* The thread leaves the context with new events; pushing an event that is *)
(* in a queue already is an assertion of grid_queue_push.                  *)
Pushable(th, new) == \A i \in DOMAIN new : ~IsWaiting(th, new[i].type, new[i].to)

Leave(th, new) == carried' = [carried EXCEPT ![th] = new \o Rest(th)]

(* Thread th delivers an event of this type to side s.                     *)
Delivers(th, type, s) == /\ Running
                         /\ carried[th] # << >>
                         /\ Head(carried[th]) = Event(type, s)

(* A thread that has returned from its call may make another one.          *)
Calls(th, s) == Running /\ carried[th] = << >> /\ s \in Uses[th]

-----------------------------------------------------------------------------
(* Opening and closing endpoints.                                          *)

(* The session starts and asks the other endpoint for a connection.        *)
SessionConnect(s) == [NoSession EXCEPT !.state = "CONNECTING", !.fsm = "active"]
(* It accepts the session of its peer.                                     *)
SessionAccept(s) == [NoSession EXCEPT !.state = "READY", !.fsm = "active", !.peer = TRUE]

(* grid_ins_bind, grid_ins_connect: an endpoint of the other kind and of   *)
(* the same name is found until it stops.                                  *)
InsFindsConnected == ep["c"] \in {"DISCONNECTED", "ACTIVE"}
InsFindsBound == ep["b"] = "ACTIVE"

(* grid_binproc_create: a connecting endpoint that waits is found by name. *)
Bind(th) ==
    /\ Calls(th, "b") /\ ep["b"] = None /\ opens < MaxOpens
    /\ opens' = opens + 1
    /\ ep' = [ep EXCEPT !["b"] = "ACTIVE"]
    /\ IF InsFindsConnected
       THEN /\ ses' = [ses EXCEPT !["b"] = SessionConnect("b")]
            /\ Leave(th, <<Event("CONNECT", "c")>>)
       ELSE UNCHANGED <<ses, carried>>
    /\ UNCHANGED <<failed, sent, got>>

(* grid_cinproc_create: the endpoint bound to the name is found, if any.   *)
Connect(th) ==
    /\ Calls(th, "c") /\ ep["c"] = None /\ opens < MaxOpens
    /\ ses["b"].state = "IDLE"
    /\ opens' = opens + 1
    /\ IF InsFindsBound
       THEN /\ ses' = [ses EXCEPT !["c"] = SessionConnect("c")]
            /\ ep' = [ep EXCEPT !["c"] = "ACTIVE"]
            /\ Leave(th, <<Event("CONNECT", "b")>>)
       ELSE /\ ep' = [ep EXCEPT !["c"] = "DISCONNECTED"]
            /\ UNCHANGED <<ses, carried>>
    /\ UNCHANGED <<failed, sent, got>>

(* Mutant: a session the peer has left already waits for it.               *)
StopSessionAsks(n) == [n EXCEPT !.fsm = "stopping", !.state = "STOPPING_PEER",
                                !.in = "off", !.out = "off"]

(* GRID_FSM_STOP of a session that is connected: the pipe is removed and   *)
(* the peer is told.                                                       *)
StopSession(n) ==
    IF n.state = "DISCONNECTED"
    THEN [n EXCEPT !.fsm = "stopping", !.state = "STOPPING"]
    ELSE [n EXCEPT !.fsm = "stopping", !.state = "STOPPING_PEER",
                   !.in = "off", !.out = "off"]

(* The peer of a session that is stopping has answered.                    *)
PeerLeft(n) == [n EXCEPT !.state = "STOPPING"]

(* Session n of side s has nothing to wait for and reports STOPPED; its    *)
(* endpoint, which is stopping too, is destroyed with it.                  *)
Stopped(th, s, n) ==
    IF n.state # "STOPPING" \/ IsWaiting(th, "RECEIVED", s) \/ IsWaiting(th, "DISCONNECT", s)
    THEN /\ ses' = [ses EXCEPT ![s] = n]
         /\ ep' = [ep EXCEPT ![s] = "STOPPING"]
         /\ UNCHANGED failed
    ELSE IF IsWaiting(th, "CONNECT", Other(s)) \/ IsWaiting(th, "SENT", s)
    THEN failed' = "impossible_event" /\ UNCHANGED <<ses, ep>>
    ELSE /\ ses' = [ses EXCEPT ![s] = NoSession]
         /\ ep' = [ep EXCEPT ![s] = None]
         /\ UNCHANGED failed

(* grid_binproc_stop and grid_cinproc_stop, on grid_close or grid_shutdown *)
Close(th, s) ==
    LET n == StopSession(ses[s])
        tell == <<Event("DISCONNECT", Other(s))>>
    IN  /\ Calls(th, s) /\ ep[s] \in {"DISCONNECTED", "ACTIVE"}
        /\ IF ses[s].fsm # "active"
           THEN /\ ep' = [ep EXCEPT ![s] = None]
                /\ UNCHANGED <<ses, carried, failed, opens, sent, got>>
           ELSE IF ses[s].state = "CONNECTING" THEN Abort("null_peer")
           ELSE IF n.state = "STOPPING_PEER"
           THEN IF ~Pushable(th, tell) THEN Abort("queue_push")
                ELSE /\ ep' = [ep EXCEPT ![s] = "STOPPING"]
                     /\ ses' = [ses EXCEPT ![s] = n]
                     /\ Leave(th, tell)
                     /\ UNCHANGED <<failed, opens, sent, got>>
           ELSE Stopped(th, s, n) /\ UNCHANGED <<carried, opens, sent, got>>

-----------------------------------------------------------------------------
(* The handshake.                                                          *)

(* CONNECT reaches the endpoint: it accepts with a session of its own.     *)
DeliverConnect(th, s) ==
    LET ready == <<Event("READY", Other(s))>>
    IN  /\ Delivers(th, "CONNECT", s)
        /\ IF ep[s] = None THEN Abort("freed")
           ELSE IF s = "c" /\ ep[s] = "STOPPING"
           THEN Leave(th, << >>) /\ UNCHANGED <<ep, ses, failed, opens, sent, got>>
           ELSE IF ep[s] # (IF s = "c" THEN "DISCONNECTED" ELSE "ACTIVE")
           THEN Abort("bad_event")
           ELSE IF ~Pushable(th, ready) THEN Abort("queue_push")
           ELSE /\ ep' = [ep EXCEPT ![s] = "ACTIVE"]
                /\ ses' = [ses EXCEPT ![s] = SessionAccept(s)]
                /\ Leave(th, ready)
                /\ UNCHANGED <<failed, opens, sent, got>>

(* grid_pipebase_start: the pipe can be sent to at once.                   *)
WithPipe(n) == [n EXCEPT !.state = "ACTIVE", !.in = "async", !.out = "idle"]

(* READY: the peer has accepted; it is told that the pipe is up.           *)
DeliverReady(th, s) ==
    LET accepted == <<Event("ACCEPTED", Other(s))>>
    IN  /\ Delivers(th, "READY", s)
        /\ IF ses[s].fsm = "idle" \/ ep[s] = None THEN Abort("freed")
           ELSE IF ses[s].state # "CONNECTING" THEN Abort("bad_event")
           ELSE IF ~Pushable(th, accepted) THEN Abort("queue_push")
           ELSE /\ ses' = [ses EXCEPT ![s] = [WithPipe(@) EXCEPT !.peer = TRUE]]
                /\ Leave(th, accepted)
                /\ UNCHANGED <<ep, failed, opens, sent, got>>

DeliverAccepted(th, s) ==
    /\ Delivers(th, "ACCEPTED", s)
    /\ IF ses[s].fsm = "idle" THEN Abort("freed")
       ELSE IF ses[s].state # "READY" THEN Abort("bad_event")
       ELSE /\ ses' = [ses EXCEPT ![s] = WithPipe(@)]
            /\ Leave(th, << >>)
            /\ UNCHANGED <<ep, failed, opens, sent, got>>

-----------------------------------------------------------------------------
(* Transfer of messages.                                                   *)

(* grid_msgqueue_send has room: one message of any size always fits.       *)
Fits(queue) == queue = << >> \/ Len(queue) + 1 < RcvBuf

(* grid_sinproc_send, for a pipe the protocol has as writable.             *)
Send(th, s) ==
    LET tell == <<Event("SENT", Other(s))>>
    IN  /\ Calls(th, s) /\ ses[s].out = "idle" /\ sent[s] < MaxMsgs
        /\ IF ses[s].state # "ACTIVE" \/ ses[s].sending THEN Abort("bad_event")
           ELSE IF ~Pushable(th, tell) THEN Abort("queue_push")
           ELSE /\ sent' = [sent EXCEPT ![s] = @ + 1]
                /\ ses' = [ses EXCEPT ![s].msg = sent[s] + 1, ![s].sending = TRUE,
                                      ![s].out = "async"]
                /\ Leave(th, tell)
                /\ UNCHANGED <<ep, failed, opens, got>>

(* Mutant: the peer goes on exposing the message.                          *)
MovedKeeps(s) == [ses EXCEPT ![s].queue = Append(@, ses[Other(s)].msg)]

(* Session s moves the message its peer exposes to its own queue.          *)
Moved(s) == [ses EXCEPT ![s].queue = Append(@, ses[Other(s)].msg),
                        ![Other(s)].msg = 0]

(* SENT: the message is moved, or stays with the peer until there is room. *)
DeliverSent(th, s) ==
    LET reply == <<Event("RECEIVED", Other(s))>>
    IN  /\ Delivers(th, "SENT", s)
        /\ IF ses[s].fsm = "idle" THEN Abort("freed")
           ELSE IF ses[s].state # "ACTIVE" THEN Abort("bad_event")
           ELSE IF ~Fits(ses[s].queue)
           THEN /\ ses' = [ses EXCEPT ![s].receiving = TRUE]
                /\ Leave(th, << >>)
                /\ UNCHANGED <<ep, failed, opens, sent, got>>
           ELSE IF ses[s].queue = << >> /\ ses[s].in # "async" THEN Abort("pipe_state")
           ELSE IF ~Pushable(th, reply) THEN Abort("queue_push")
           ELSE /\ ses' = [Moved(s) EXCEPT ![s].in = "idle"]
                /\ Leave(th, reply)
                /\ UNCHANGED <<ep, failed, opens, sent, got>>

(* RECEIVED: the message is with the peer, the pipe is writable again.     *)
DeliverReceived(th, s) ==
    /\ Delivers(th, "RECEIVED", s)
    /\ IF ses[s].fsm = "stopping"
       THEN Stopped(th, s, ses[s]) /\ Leave(th, << >>) /\ UNCHANGED <<opens, sent, got>>
       ELSE IF ses[s].fsm = "idle" THEN Abort("freed")
       ELSE IF ses[s].state = "DISCONNECTED"
       THEN Leave(th, << >>) /\ UNCHANGED <<ep, ses, failed, opens, sent, got>>
       ELSE IF ses[s].state # "ACTIVE" \/ ~ses[s].sending THEN Abort("bad_event")
       ELSE IF ses[s].out # "async" THEN Abort("pipe_state")
       ELSE /\ ses' = [ses EXCEPT ![s].sending = FALSE, ![s].out = "idle"]
            /\ Leave(th, << >>)
            /\ UNCHANGED <<ep, failed, opens, sent, got>>

(* The sessions after side s received.  A message of the peer that waits   *)
(* for room is taken straight from the peer, and the pipe stays readable   *)
(* while the queue is not empty.                                           *)
Takes(s) == ses[s].receiving /\ Fits(Tail(ses[s].queue))

AfterRecvKeepsFlag(s) ==        \* mutant: the message stays marked as waiting
    LET n == [ses EXCEPT ![s].queue = Tail(@)]
        m == IF ~Takes(s) THEN n
             ELSE [n EXCEPT ![s].queue = Append(@, ses[Other(s)].msg), ![Other(s)].msg = 0]
    IN  [m EXCEPT ![s].in = IF m[s].queue = << >> THEN "async" ELSE "idle"]

AfterRecv(s) ==
    LET n == [ses EXCEPT ![s].queue = Tail(@)]
        m == IF ~Takes(s) THEN n
             ELSE [n EXCEPT ![s].queue = Append(@, ses[Other(s)].msg), ![Other(s)].msg = 0,
                            ![s].receiving = FALSE]
    IN  [m EXCEPT ![s].in = IF m[s].queue = << >> THEN "async" ELSE "idle"]

(* The peer of side s is told that its message was taken.                  *)
ReplyToMute(s) == << >>         \* mutant: it is not
ReplyTo(s) == IF Takes(s) THEN <<Event("RECEIVED", Other(s))>> ELSE << >>

(* grid_sinproc_recv, for a pipe the protocol has as readable.             *)
Recv(th, s) ==
    /\ Calls(th, s) /\ ses[s].in = "idle"
    /\ IF ses[s].state # "ACTIVE" THEN Abort("bad_event")
       ELSE IF ~Pushable(th, ReplyTo(s)) THEN Abort("queue_push")
       ELSE /\ ses' = AfterRecv(s)
            /\ got' = [got EXCEPT ![s] = Head(ses[s].queue)]
            /\ Leave(th, ReplyTo(s))
            /\ UNCHANGED <<ep, failed, opens, sent>>

-----------------------------------------------------------------------------
(* The answer of an active session to DISCONNECT.                          *)
Answer(s) == <<Event("DISCONNECT", Other(s))>>

(* DISCONNECT: an active session removes its pipe and answers; the         *)
(* connecting endpoint gets a fresh session, the bound one keeps it until  *)
(* it is closed.  A session that is stopping has its answer.               *)
DeliverDisconnect(th, s) ==
    LET own == {<<"CONNECT", Other(s)>>, <<"SENT", s>>, <<"RECEIVED", s>>}
    IN  /\ Delivers(th, "DISCONNECT", s)
        /\ IF ses[s].fsm = "stopping"
           THEN IF ses[s].state # "STOPPING_PEER" THEN Abort("bad_event")
                ELSE /\ Stopped(th, s, PeerLeft(ses[s]))
                     /\ Leave(th, << >>)
                     /\ UNCHANGED <<opens, sent, got>>
           ELSE IF ses[s].fsm = "idle" THEN Abort("freed")
           ELSE IF ses[s].state # "ACTIVE" THEN Abort("bad_event")
           ELSE IF ~Pushable(th, Answer(s)) THEN Abort("queue_push")
           ELSE IF s = "c" /\ \E o \in own : IsWaiting(th, o[1], o[2]) THEN Abort("reinit")
           ELSE /\ ep' = [ep EXCEPT ![s] = IF s = "c" THEN "DISCONNECTED" ELSE @]
                /\ ses' = [ses EXCEPT ![s] =
                             IF s = "c" THEN NoSession
                             ELSE [@ EXCEPT !.state = "DISCONNECTED", !.peer = FALSE,
                                            !.in = "off", !.out = "off"]]
                /\ Leave(th, Answer(s))
                /\ UNCHANGED <<failed, opens, sent, got>>

-----------------------------------------------------------------------------
Opening(th) == Bind(th) \/ Connect(th)
Closing(th) == \E s \in Sides : Close(th, s)
Sending(th) == \E s \in Sides : Send(th, s)
Receiving(th) == \E s \in Sides : Recv(th, s)

Delivering(th) == \E s \in Sides :
    \/ DeliverConnect(th, s) \/ DeliverReady(th, s) \/ DeliverAccepted(th, s)
    \/ DeliverSent(th, s) \/ DeliverReceived(th, s) \/ DeliverDisconnect(th, s)

(* Threads call the sockets whenever they like.                            *)
Next == \E th \in Threads :
            \/ Opening(th) \/ Closing(th) \/ Sending(th) \/ Receiving(th)
            \/ Delivering(th)

(* Threads open and close endpoints only while no other thread is inside   *)
(* the library, and transfer messages only when no connection is being     *)
(* made or broken.  One thread that makes all the calls always does so.    *)
Quiet == \A th \in Threads : carried[th] = << >>
Calm  == \A th \in Threads : ToSet(carried[th]) \subseteq
                                [type : {"SENT", "RECEIVED"}, to : Sides]

OrderlyNext == \E th \in Threads :
                   \/ Quiet /\ Opening(th)
                   \/ Quiet /\ Closing(th)
                   \/ Calm /\ Sending(th)
                   \/ Calm /\ Receiving(th)
                   \/ Delivering(th)

Spec == Init /\ [][Next]_vars

(* A thread that carries events delivers them; the user of a socket keeps  *)
(* receiving.                                                              *)
OrderlySpec ==
    /\ Init /\ [][OrderlyNext]_vars
    /\ \A th \in Threads : WF_vars(Delivering(th))
    /\ \A s \in Sides : SF_vars(\E th \in Threads : Calm /\ Recv(th, s))

-----------------------------------------------------------------------------
(* Properties.                                                             *)

(* No event finds a state without a case for it, no freed, re-initialised  *)
(* or NULL session is used, and no event object is queued twice.           *)
NoAbort == failed = None

(* While both sides are connected a message that was sent is in exactly    *)
(* one place on its way, so that its sender is neither told twice that it  *)
(* may go on nor never.                                                    *)
Carried == UNION {ToSet(carried[th]) : th \in Threads}

OneTokenPerSender ==
    (\A s \in Sides : ses[s].state = "ACTIVE") =>
        \A s \in Sides :
            LET announced == Event("SENT", Other(s)) \in Carried
                parked    == ses[Other(s)].receiving
                confirmed == Event("RECEIVED", s) \in Carried
            IN  /\ ses[s].sending <=> ses[s].out = "async"
                /\ ses[s].sending <=> announced \/ parked \/ confirmed
                /\ ~(announced /\ parked) /\ ~(announced /\ confirmed) /\ ~(parked /\ confirmed)
                /\ ses[s].msg # 0 <=> announced \/ parked

(* A readable pipe has a message and a connected session with messages is  *)
(* readable, so that no message is forgotten in the queue.                 *)
ReadableWhenQueued ==
    \A s \in Sides : ses[s].state = "ACTIVE" =>
        (ses[s].in = "idle" <=> ses[s].queue # << >>)

(* Types, assertions and queues are sound.                                 *)
Consistent == TypeOK /\ NoAbort /\ ReadableWhenQueued

(* Messages on their way to side s.                                        *)
Way(s) == IF ses[s].in = "off" \/ ses[Other(s)].out = "off" THEN << >>
          ELSE ses[s].queue \o (IF ses[Other(s)].msg = 0 THEN << >>
                                ELSE <<ses[Other(s)].msg>>)

Fifo == INSTANCE Channel WITH
            Ends <- Sides, Capacity <- RcvBuf + 1,
            way <- [s \in Sides |-> Way(s)], counted <- [s \in Sides |-> sent[Other(s)]],
            latest <- got

(* The connection is a channel: order, no loss, no duplicate while it      *)
(* lasts, across queues, parked messages and both flow-control events.     *)
ImplementsChannel == Fifo!Spec

(* A sender may send again as its peer keeps receiving, and a closed       *)
(* endpoint is destroyed once its peer had its say.                        *)
WaitsEnd ==
    \A s \in Sides :
        /\ ses[s].out = "async" ~> ses[s].out # "async"
        /\ ep[s] = "STOPPING" ~> ep[s] = None
=============================================================================
