------------------------------ MODULE Patterns ------------------------------
(***************************************************************************)
(* The sockets without a state machine: PUSH, PULL, PAIR, PUB, BUS and the *)
(* raw forms XBUS, XREQ and XSURVEYOR (src/src/protocols/pipeline, pair,   *)
(* pubsub, bus, reqrep, survey), on the load balancer and the fair queue   *)
(* (PrioList), the distributor dist.c and the exclusive pipe excl.c, with  *)
(* the halves of a pipe (core/pipe.c) and the reference counts of the      *)
(* messages that go through (utils/chunk.c).                               *)
(*                                                                         *)
(* The peers are sockets of the matching type: nothing arrives at a PUSH   *)
(* or a PUB socket, and what arrives at a socket that expects a header may *)
(* be too short to have one.                                               *)
(***************************************************************************)
EXTENDS PrioList, FiniteSets

CONSTANTS
    Chunks,     \* memory of message chunks
    Prio        \* pipe -> GRID_SNDPRIO and GRID_RCVPRIO of its endpoint

ASSUME PrioAssumption == Prio \in [Pipes -> Priorities]
ASSUME ChunksAssumption == None \notin Chunks
ASSUME FiniteAssumption == IsFiniteSet(Pipes)

VARIABLES
    proto,      \* the socket type
    up,         \* pipe -> grid_pipebase.state
    instate,    \* pipe -> grid_pipebase.instate
    outstate,   \* pipe -> grid_pipebase.outstate
    data,       \* pipe -> the priority in its grid_pipe_setdata, 0 before that
    fq, lb,     \* the priority lists
    dist,       \* the pipes of grid_dist.pipes (count shows one entered twice)
    count,      \* grid_dist.count
    excl,       \* grid_excl
    offered,    \* pipe -> the message it received, or None
    wire,       \* pipe -> the message it is sending, or None
    refs,       \* chunk -> grid_chunk.refcount
    leaked,     \* chunks nobody refers to that were never freed
    elsewhere,  \* chunks another socket of the process holds too
    user,       \* messages the user holds: [chunk, header]
    resizing,   \* those in a grid_reallocmsg that found their chunk shared
    failed      \* the assertion that ended the process, or "none"

vars == <<proto, up, instate, outstate, data, fq, lb, dist, count, excl, offered,
          wire, refs, leaked, elsewhere, user, resizing, failed>>
lists == <<fq, lb, dist, count, excl>>

Receivers == {"PULL", "PAIR", "BUS", "XBUS", "XREQ", "XSURVEYOR"}
Senders   == {"PUSH", "PAIR", "PUB", "BUS", "XBUS", "XREQ", "XSURVEYOR"}
Protos    == Receivers \cup Senders
Bus       == {"BUS", "XBUS"}
(* Who sends with the load balancer, with the distributor, and receives    *)
(* from the fair queue.                                                    *)
Balancers    == {"PUSH", "XREQ"}
Distributors == {"PUB", "BUS", "XBUS", "XSURVEYOR"}
FairQueues   == {"PULL", "BUS", "XBUS", "XREQ", "XSURVEYOR"}

(* The header of a message in the hands of the user: none, the pipe XBUS   *)
(* put there, or one that names no pipe.                                   *)
Wrong == "wrong"
ASSUME WrongAssumption == Wrong \notin Pipes \cup {None}
Headers == Pipes \cup {None, Wrong}
Message(c, h) == [chunk |-> c, header |-> h]

NoPipe == [pipe |-> None, inpipe |-> None, outpipe |-> None]

TypeOK ==
    /\ proto \in Protos
    /\ up \in [Pipes -> {"IDLE", "ACTIVE", "FAILED"}]
    /\ instate \in [Pipes -> {"DEACTIVATED", "IDLE", "ASYNC"}]
    /\ outstate \in [Pipes -> {"DEACTIVATED", "IDLE", "ASYNC"}]
    /\ data \in [Pipes -> 0..Slots]
    /\ dist \subseteq Pipes
    /\ count \in Int
    /\ excl \in [pipe : Pipes \cup {None}, inpipe : Pipes \cup {None},
                 outpipe : Pipes \cup {None}]
    /\ offered \in [Pipes -> Chunks \cup {None}]
    /\ wire \in [Pipes -> Chunks \cup {None}]
    /\ refs \in [Chunks -> Int]
    /\ leaked \subseteq Chunks
    /\ elsewhere \subseteq Chunks
    /\ user \subseteq [chunk : Chunks, header : Headers]
    /\ resizing \subseteq [chunk : Chunks, header : Headers]
    /\ failed \in {"none", "excl_in", "excl_out", "excl_rm", "pipe_send", "term"}

Init ==
    /\ proto \in Protos
    /\ up = [p \in Pipes |-> "IDLE"]
    /\ instate = [p \in Pipes |-> "DEACTIVATED"]
    /\ outstate = [p \in Pipes |-> "DEACTIVATED"]
    /\ data = [p \in Pipes |-> 0]
    /\ fq = EmptyList /\ lb = EmptyList
    /\ dist = {} /\ count = 0
    /\ excl = NoPipe
    /\ offered = [p \in Pipes |-> None]
    /\ wire = [p \in Pipes |-> None]
    /\ refs = [c \in Chunks |-> 0]
    /\ leaked = {}
    /\ elsewhere = {}
    /\ user = {}
    /\ resizing = {}
    /\ failed = "none"

Running == failed = "none"
Abort(why) == failed' = why
Free == {c \in Chunks : refs[c] = 0} \ leaked

-----------------------------------------------------------------------------
(* The distributor.                                                        *)

(* Mutant: the pipe leaves the list and is still counted.                  *)
DistRmUncounted(p) == dist' = dist \ {p} /\ UNCHANGED count

(* grid_dist_rm of a pipe that is in the list or not                       *)
DistRm(p) ==
    /\ dist' = dist \ {p}
    /\ count' = IF p \in dist THEN count - 1 ELSE count

(* grid_dist_out *)
DistOut(p) == dist' = dist \cup {p} /\ count' = count + 1

(* Mutant: the copy made for the excluded pipe is never terminated.        *)
BulkCopyLeaks(c, exclude, kept) == [refs EXCEPT ![c] = @ + count - 1
    - Cardinality(dist \ (kept \cup {exclude}))]

(* grid_msg_bulkcopy_start takes a reference for every pipe of the list    *)
(* and one goes with every copy, but for those the transport still keeps;  *)
(* grid_msg_term gives up the message itself.                              *)
BulkCopy(c, exclude, kept) == [refs EXCEPT ![c] = @ + count - 1
    - Cardinality(dist \ kept)]

(* grid_dist_send of chunk c: the pipes in kept are busy with it after.    *)
DistSend(c, exclude) ==
    LET to == dist \ {exclude}
    IN  IF \E p \in to : outstate[p] # "IDLE"
        THEN Abort("pipe_send") /\ UNCHANGED <<dist, count, outstate, wire, refs>>
        ELSE \E kept \in SUBSET to :
            /\ dist' = dist \ kept
            /\ count' = count - Cardinality(kept)
            /\ outstate' = [p \in Pipes |-> IF p \in kept THEN "ASYNC" ELSE outstate[p]]
            /\ wire' = [p \in Pipes |-> IF p \in kept THEN c ELSE wire[p]]
            /\ refs' = BulkCopy(c, exclude, kept)
            /\ UNCHANGED failed

-----------------------------------------------------------------------------
(* One pipe: what grid_lb_send and grid_excl_send have in common.  The     *)
(* transport may be done with the message at once.                         *)

(* grid_pipe_send *)
PipeSend(p, c, release) ==
    IF outstate[p] # "IDLE"
    THEN Abort("pipe_send") /\ UNCHANGED <<outstate, wire, refs>>
    ELSE /\ outstate' = [outstate EXCEPT ![p] = IF release THEN "ASYNC" ELSE "IDLE"]
         /\ wire' = [wire EXCEPT ![p] = IF release THEN c ELSE None]
         /\ refs' = [refs EXCEPT ![c] = IF release THEN @ ELSE @ - 1]
         /\ UNCHANGED failed

(* grid_pipe_recv: with release the pipe waits for its next message,       *)
(* without it the next one, n, is there already.                           *)
PipeRecv(p, n) ==
    /\ instate' = [instate EXCEPT ![p] = IF n = None THEN "ASYNC" ELSE "IDLE"]
    /\ offered' = [offered EXCEPT ![p] = n]
Arrived(n, counts) == IF n = None THEN counts ELSE [counts EXCEPT ![n] = 1]

(* grid_lb_send *)
LbSend(c) ==
    \E release \in BOOLEAN :
        /\ PipeSend(PrioListGetPipe(lb), c, release)
        /\ lb' = PrioListAdvance(lb, release)

(* grid_excl_send *)
ExclSend(c) ==
    \E release \in BOOLEAN :
        /\ PipeSend(excl.outpipe, c, release)
        /\ excl' = [excl EXCEPT !.outpipe = IF release THEN None ELSE @]

(* grid_fq_recv and grid_excl_recv *)
FqRecv(n) ==
    /\ PipeRecv(PrioListGetPipe(fq), n)
    /\ fq' = PrioListAdvance(fq, n = None)
ExclRecv(n) ==
    /\ PipeRecv(excl.inpipe, n)
    /\ excl' = [excl EXCEPT !.inpipe = IF n = None THEN None ELSE @]

(* grid_excl_rm *)
ExclRm(p) ==
    IF excl.pipe = None THEN Abort("excl_rm") /\ UNCHANGED excl
    ELSE excl' = NoPipe /\ UNCHANGED failed

(* grid_excl_in, grid_excl_out *)
ExclIn(p) ==
    IF excl.inpipe # None \/ p # excl.pipe THEN Abort("excl_in") /\ UNCHANGED excl
    ELSE excl' = [excl EXCEPT !.inpipe = p] /\ UNCHANGED failed
ExclOut(p) ==
    IF excl.outpipe # None \/ p # excl.pipe THEN Abort("excl_out") /\ UNCHANGED excl
    ELSE excl' = [excl EXCEPT !.outpipe = p] /\ UNCHANGED failed

-----------------------------------------------------------------------------
(* The handlers of the socket types.  q is the priority in the pipe data.  *)

(* grid_xpush_out and its likes; a PULL socket takes no note.              *)
XPushOut(p, q) == lb' = PrioListActivate(lb, p, q) /\ UNCHANGED <<fq, dist, count, excl, failed>>
XPubOut(p)  == DistOut(p) /\ UNCHANGED <<fq, lb, excl, failed>>
XBusOut(p)  == DistOut(p) /\ UNCHANGED <<fq, lb, excl, failed>>
XPairOut(p) == ExclOut(p) /\ UNCHANGED <<fq, lb, dist, count>>
XPullOut(p) == UNCHANGED <<lists, failed>>
XReqOut(p, q)    == XPushOut(p, q)
XSurveyorOut(p)  == XBusOut(p)

ProtoOut(p, q) ==
    \/ proto = "XREQ" /\ XReqOut(p, q)
    \/ proto = "XSURVEYOR" /\ XSurveyorOut(p)
    \/ proto = "PUSH" /\ XPushOut(p, q)
    \/ proto = "PUB"  /\ XPubOut(p)
    \/ proto \in Bus  /\ XBusOut(p)
    \/ proto = "PULL" /\ XPullOut(p)
    \/ proto = "PAIR" /\ XPairOut(p)

(* grid_xpull_in and its likes.                                            *)
XPullIn(p) == fq' = PrioListActivate(fq, p, data[p]) /\ UNCHANGED <<lb, dist, count, excl, failed>>
XBusIn(p)  == fq' = PrioListActivate(fq, p, data[p]) /\ UNCHANGED <<lb, dist, count, excl, failed>>
XPairIn(p) == ExclIn(p) /\ UNCHANGED <<fq, lb, dist, count>>
XReqIn(p)  == XPullIn(p)
XSurveyorIn(p) == XPullIn(p)

ProtoIn(p) ==
    \/ proto = "XREQ" /\ XReqIn(p)
    \/ proto = "XSURVEYOR" /\ XSurveyorIn(p)
    \/ proto = "PULL" /\ XPullIn(p)
    \/ proto \in Bus  /\ XBusIn(p)
    \/ proto = "PAIR" /\ XPairIn(p)

(* grid_xpush_add and its likes: the pipe gets its data, with the priority *)
(* of its endpoint where the socket type has one, and enters no list yet.  *)
(* The event OUT of grid_pipebase_start follows in the same section.       *)
DataSet(p, q) == data' = [data EXCEPT ![p] = q]
XPushAdd(p) == DataSet(p, Prio[p]) /\ XPushOut(p, Prio[p])
XPullAdd(p) == DataSet(p, Prio[p]) /\ XPullOut(p)
XPubAdd(p)  == DataSet(p, 1) /\ XPubOut(p)
XBusAdd(p)  == DataSet(p, Prio[p]) /\ XBusOut(p)
XReqAdd(p)  == DataSet(p, Prio[p]) /\ XReqOut(p, Prio[p])
XSurveyorAdd(p) == DataSet(p, Prio[p]) /\ XSurveyorOut(p)

(* grid_excl_add refuses a second pipe.                                    *)
ExclRefuses == excl.pipe # None
XPairAdd(p) ==
    /\ ~ExclRefuses
    /\ excl' = [excl EXCEPT !.pipe = p, !.outpipe = p]
    /\ UNCHANGED <<data, fq, lb, dist, count, failed>>

ProtoAdd(p) ==
    \/ proto = "XREQ" /\ XReqAdd(p)
    \/ proto = "XSURVEYOR" /\ XSurveyorAdd(p)
    \/ proto = "PUSH" /\ XPushAdd(p)
    \/ proto = "PULL" /\ XPullAdd(p)
    \/ proto = "PUB"  /\ XPubAdd(p)
    \/ proto \in Bus  /\ XBusAdd(p)
    \/ proto = "PAIR" /\ XPairAdd(p)

(* grid_xpush_rm and its likes.                                            *)
XPushRm(p) == lb' = PrioListRm(lb, p, data[p]) /\ UNCHANGED <<fq, dist, count, excl, failed>>
XPullRm(p) == fq' = PrioListRm(fq, p, data[p]) /\ UNCHANGED <<lb, dist, count, excl, failed>>
XPubRm(p)  == DistRm(p) /\ UNCHANGED <<fq, lb, excl, failed>>
XBusRm(p)  == /\ fq' = PrioListRm(fq, p, data[p])
              /\ DistRm(p)
              /\ UNCHANGED <<lb, excl, failed>>
XPairRm(p) == ExclRm(p) /\ UNCHANGED <<fq, lb, dist, count>>
XReqRm(p)  == /\ lb' = PrioListRm(lb, p, data[p])
              /\ fq' = PrioListRm(fq, p, data[p])
              /\ UNCHANGED <<dist, count, excl, failed>>
XSurveyorRm(p) == XBusRm(p)

ProtoRm(p) ==
    /\ DataSet(p, 0)
    /\ \/ proto = "XREQ" /\ XReqRm(p)
       \/ proto = "XSURVEYOR" /\ XSurveyorRm(p)
       \/ proto = "PUSH" /\ XPushRm(p)
       \/ proto = "PULL" /\ XPullRm(p)
       \/ proto = "PUB"  /\ XPubRm(p)
       \/ proto \in Bus  /\ XBusRm(p)
       \/ proto = "PAIR" /\ XPairRm(p)

(* grid_xpush_events and its likes: what the descriptors of the socket     *)
(* tell the user.                                                          *)
XPushEvents == {e \in {"OUT"} : PrioListIsActive(lb)}
XPullEvents == {e \in {"IN"} : PrioListIsActive(fq)}
XPubEvents  == {"OUT"}
XBusEvents  == XPullEvents \cup {"OUT"}
XPairEvents == {e \in {"IN", "OUT"} : (IF e = "IN" THEN excl.inpipe ELSE excl.outpipe) # None}
XReqEvents  == XPullEvents \cup XPushEvents
XSurveyorEvents == XPullEvents \cup {"OUT"}
Events == {e \in {"IN", "OUT"} :
    \/ proto = "XREQ" /\ e \in XReqEvents
    \/ proto = "XSURVEYOR" /\ e \in XSurveyorEvents
    \/ proto = "PUSH" /\ e \in XPushEvents
    \/ proto = "PULL" /\ e \in XPullEvents
    \/ proto = "PUB"  /\ e \in XPubEvents
    \/ proto \in Bus  /\ e \in XBusEvents
    \/ proto = "PAIR" /\ e \in XPairEvents}

-----------------------------------------------------------------------------
(* The pipe.                                                               *)

(* grid_pipebase_start, with the event OUT it raises.                      *)
Start(p) ==
    /\ Running /\ up[p] = "IDLE"
    /\ instate' = [instate EXCEPT ![p] = "ASYNC"]
    /\ outstate' = [outstate EXCEPT ![p] = "IDLE"]
    /\ IF proto = "PAIR" /\ ExclRefuses
       THEN up' = [up EXCEPT ![p] = "FAILED"] /\ UNCHANGED <<data, lists, failed>>
       ELSE up' = [up EXCEPT ![p] = "ACTIVE"] /\ ProtoAdd(p)
    /\ UNCHANGED <<proto, offered, wire, refs, leaked, elsewhere, user, resizing>>

MustRemove(p) == up[p] = "ACTIVE"

(* grid_pipebase_stop; the transport drops the messages it has.            *)
Stop(p) ==
    /\ Running /\ up[p] # "IDLE"
    /\ IF MustRemove(p) THEN ProtoRm(p) ELSE UNCHANGED <<data, lists, failed>>
    /\ up' = [up EXCEPT ![p] = "IDLE"]
    /\ instate' = [instate EXCEPT ![p] = "DEACTIVATED"]
    /\ outstate' = [outstate EXCEPT ![p] = "DEACTIVATED"]
    /\ refs' = [c \in Chunks |-> refs[c] - (IF offered[p] = c THEN 1 ELSE 0)
                                        - (IF wire[p] = c THEN 1 ELSE 0)]
    /\ offered' = [offered EXCEPT ![p] = None]
    /\ wire' = [wire EXCEPT ![p] = None]
    /\ UNCHANGED <<proto, leaked, elsewhere, user, resizing>>

(* grid_pipebase_received, outside of grid_pipe_recv.  A peer in the same  *)
(* process may have sent the same chunk to other sockets too.              *)
Received(p) ==
    /\ Running /\ proto \in Receivers
    /\ up[p] = "ACTIVE" /\ instate[p] = "ASYNC"
    /\ \E c \in Free, others \in {0, 1} :
          /\ refs' = [refs EXCEPT ![c] = 1 + others]
          /\ elsewhere' = IF others = 1 THEN elsewhere \cup {c} ELSE elsewhere
          /\ offered' = [offered EXCEPT ![p] = c]
    /\ instate' = [instate EXCEPT ![p] = "IDLE"]
    /\ ProtoIn(p)
    /\ UNCHANGED <<proto, up, outstate, data, wire, leaked, user, resizing>>

(* The other socket is done with the chunk.                                *)
OtherFrees ==
    /\ Running
    /\ \E c \in elsewhere : /\ refs' = [refs EXCEPT ![c] = @ - 1]
                            /\ elsewhere' = elsewhere \ {c}
    /\ UNCHANGED <<proto, up, instate, outstate, data, lists, offered, wire, leaked, user,
                   resizing, failed>>

(* grid_pipebase_sent, outside of grid_pipe_send                           *)
Sent(p) ==
    /\ Running /\ up[p] = "ACTIVE" /\ outstate[p] = "ASYNC"
    /\ refs' = [refs EXCEPT ![wire[p]] = @ - 1]
    /\ wire' = [wire EXCEPT ![p] = None]
    /\ outstate' = [outstate EXCEPT ![p] = "IDLE"]
    /\ ProtoOut(p, data[p])
    /\ UNCHANGED <<proto, up, instate, data, offered, leaked, elsewhere, user, resizing>>

-----------------------------------------------------------------------------
(* The user.                                                               *)

(* grid_allocmsg, grid_freemsg *)
AllocMsg ==
    /\ Running
    /\ \E c \in Free : /\ refs' = [refs EXCEPT ![c] = 1]
                       /\ user' = user \cup {Message(c, None)}
    /\ UNCHANGED <<proto, up, instate, outstate, data, lists, offered, wire, leaked, elsewhere,
                   resizing, failed>>

FreeMsg(m) ==
    /\ refs' = [refs EXCEPT ![m.chunk] = @ - 1]
    /\ user' = user \ {m}
    /\ UNCHANGED <<proto, up, instate, outstate, data, lists, offered, wire, leaked, elsewhere,
                   resizing, failed>>

(* grid_reallocmsg looks at the count without a lock.  Alone with its      *)
(* chunk the user keeps it or gets another block for it ...                *)
ReallocMsg(m) ==
    /\ refs[m.chunk] = 1
    /\ \E c \in Free : /\ refs' = [refs EXCEPT ![c] = 1, ![m.chunk] = 0]
                       /\ user' = (user \ {m}) \cup {Message(c, m.header)}
    /\ UNCHANGED <<proto, up, instate, outstate, data, lists, offered, wire, leaked, elsewhere,
                   resizing, failed>>

(* ... otherwise it is going to get a copy.                                *)
ReallocShared(m) ==
    /\ refs[m.chunk] > 1
    /\ user' = user \ {m}
    /\ resizing' = resizing \cup {m}
    /\ UNCHANGED <<proto, up, instate, outstate, data, lists, offered, wire, refs, leaked,
                   elsewhere, failed>>

(* The copy is made and the chunk left to the others.  What the count was  *)
(* is not looked at: if they are done with it meanwhile nobody frees it.   *)
ReallocCopy(m) ==
    /\ \E c \in Free : /\ refs' = [refs EXCEPT ![c] = 1, ![m.chunk] = @ - 1]
                       /\ user' = user \cup {Message(c, m.header)}
    /\ leaked' = IF refs[m.chunk] = 1 THEN leaked \cup {m.chunk} ELSE leaked
    /\ resizing' = resizing \ {m}
    /\ UNCHANGED <<proto, up, instate, outstate, data, lists, offered, wire, elsewhere, failed>>

(* grid_xpush_send and its likes, when they take the message.              *)
XPushSend(c) == LbSend(c) /\ UNCHANGED <<fq, dist, count, excl>>
XPubSend(c)  == DistSend(c, None) /\ UNCHANGED <<fq, lb, excl>>
XPairSend(c) == ExclSend(c) /\ UNCHANGED <<fq, lb, dist, count>>

(* grid_xbus_send: a message of XBUS is not sent where it came from.       *)
XBusSend(c, h) == DistSend(c, h) /\ UNCHANGED <<fq, lb, excl>>
BusSend(c)     == XBusSend(c, None)
XReqSend(c)      == LbSend(c) /\ UNCHANGED <<fq, dist, count, excl>>
XSurveyorSend(c) == DistSend(c, None) /\ UNCHANGED <<fq, lb, excl>>

(* -EAGAIN and -EINVAL: the user keeps the message (global.c:846).         *)
SendRefused(m) ==
    \/ proto \in Balancers /\ ~PrioListIsActive(lb)
    \/ proto = "PAIR" /\ excl.outpipe = None
    \/ proto = "BUS"  /\ m.header # None
    \/ proto = "XBUS" /\ m.header = Wrong

(* grid_sendmsg of a message from grid_allocmsg; the header is the one it  *)
(* was received with or any other.                                         *)
SendMsg(m) ==
    /\ proto \in Senders /\ ~SendRefused(m)
    /\ \/ proto = "PUSH" /\ XPushSend(m.chunk)
       \/ proto = "PUB"  /\ XPubSend(m.chunk)
       \/ proto = "PAIR" /\ XPairSend(m.chunk)
       \/ proto = "BUS"  /\ BusSend(m.chunk)
       \/ proto = "XBUS" /\ XBusSend(m.chunk, m.header)
       \/ proto = "XREQ" /\ XReqSend(m.chunk)
       \/ proto = "XSURVEYOR" /\ XSurveyorSend(m.chunk)
    /\ user' = user \ {m}
    /\ UNCHANGED <<proto, up, instate, data, offered, leaked, elsewhere, resizing>>

(* The user of a raw socket writes another header.                         *)
SetHeader(m) ==
    /\ proto = "XBUS"
    /\ \E h \in Headers : user' = (user \ {m}) \cup {Message(m.chunk, h)}
    /\ UNCHANGED <<proto, up, instate, outstate, data, lists, offered, wire, refs, leaked,
                   elsewhere, resizing, failed>>

UserStep ==
    /\ Running
    /\ \/ \E m \in user : \/ FreeMsg(m) \/ ReallocMsg(m) \/ ReallocShared(m)
                          \/ SendMsg(m) \/ SetHeader(m)
       \/ \E m \in resizing : ReallocCopy(m)

(* grid_xpull_recv and its likes, with what the user finds.                *)
XPullRecv(n) ==
    /\ PrioListIsActive(fq)
    /\ FqRecv(n)
    /\ user' = user \cup {Message(offered[PrioListGetPipe(fq)], None)}
    /\ refs' = Arrived(n, refs)
    /\ UNCHANGED <<lb, dist, count, excl>>
XPairRecv(n) ==
    /\ excl.inpipe # None
    /\ ExclRecv(n)
    /\ user' = user \cup {Message(offered[excl.inpipe], None)}
    /\ refs' = Arrived(n, refs)
    /\ UNCHANGED <<fq, lb, dist, count>>
XBusRecv(n) ==
    /\ PrioListIsActive(fq)
    /\ FqRecv(n)
    /\ user' = user \cup {Message(offered[PrioListGetPipe(fq)], PrioListGetPipe(fq))}
    /\ refs' = Arrived(n, refs)
    /\ UNCHANGED <<lb, dist, count, excl>>
BusRecv(n) == XPullRecv(n)

(* The header is split from the body; a message without one is dropped and *)
(* the user goes on waiting.                                               *)
XReqRecv(n) ==
    /\ PrioListIsActive(fq)
    /\ FqRecv(n)
    /\ LET c == offered[PrioListGetPipe(fq)]
       IN  \/ user' = user \cup {Message(c, Wrong)} /\ refs' = Arrived(n, refs)
           \/ refs' = Arrived(n, [refs EXCEPT ![c] = @ - 1]) /\ UNCHANGED user
    /\ UNCHANGED <<lb, dist, count, excl>>
XSurveyorRecv(n) == XReqRecv(n)

(* grid_recvmsg into a buffer of GRID_MSG bytes; n is what came next.      *)
RecvMsg ==
    /\ Running
    /\ \E n \in Free \cup {None} :
          \/ proto = "PULL" /\ XPullRecv(n)
          \/ proto = "PAIR" /\ XPairRecv(n)
          \/ proto = "BUS"  /\ BusRecv(n)
          \/ proto = "XBUS" /\ XBusRecv(n)
          \/ proto = "XREQ" /\ XReqRecv(n)
          \/ proto = "XSURVEYOR" /\ XSurveyorRecv(n)
    /\ UNCHANGED <<proto, up, outstate, data, wire, leaked, elsewhere, resizing, failed>>

(* The socket is closed once its pipes are gone: what grid_dist_term,      *)
(* grid_excl_term and grid_priolist_term assert; the user goes on with     *)
(* another socket.                                                         *)
Reopen ==
    /\ Running /\ \A p \in Pipes : up[p] = "IDLE"
    /\ IF count # 0 \/ dist # {} \/ excl # NoPipe \/ lb.current # -1 \/ fq.current # -1
       THEN Abort("term") /\ UNCHANGED proto
       ELSE proto' \in Protos /\ UNCHANGED failed
    /\ UNCHANGED <<up, instate, outstate, data, lists, offered, wire, refs, leaked, elsewhere,
                   user, resizing>>

Next == \/ \E p \in Pipes : Start(p) \/ Stop(p) \/ Received(p) \/ Sent(p)
        \/ OtherFrees \/ AllocMsg \/ UserStep \/ RecvMsg \/ Reopen

Spec == Init /\ [][Next]_vars

-----------------------------------------------------------------------------
(* Properties.                                                             *)

(* No assertion of excl.c, dist.c, priolist.c or pipe.c fails: no pipe is  *)
(* sent to while it is busy, and nothing is left when the socket closes    *)
(* (pipe.c:186, excl.c:57, 65, 72, dist.c:40).                             *)
NoAbort == failed = "none"

(* The count of a chunk is that of its holders: the user, also while it    *)
(* resizes the message, the pipes that still send it, the pipes that offer *)
(* it and the other sockets that were sent it, whatever the distributor    *)
(* copied and the user reallocated.  So no holder finds it freed, and the  *)
(* last frees it, unless that is a grid_reallocmsg that saw others: then   *)
(* the chunk is leaked, and nobody has it.                                 *)
ChunksCounted ==
    \A c \in Chunks :
       /\ refs[c] = Cardinality({m \in user : m.chunk = c})
                  + Cardinality({m \in resizing : m.chunk = c})
                  + Cardinality({p \in Pipes : wire[p] = c})
                  + Cardinality({p \in Pipes : offered[p] = c})
                  + Cardinality({c} \cap elsewhere)
       /\ c \in leaked => refs[c] = 0

Ready(dir) == {p \in Pipes : up[p] = "ACTIVE" /\ dir[p] = "IDLE"}

(* The lists of the socket hold exactly the pipes that can be used: a pipe *)
(* is never forgotten, never kept when it is busy or gone, never entered   *)
(* twice, and the distributor counts right; and what the descriptors of    *)
(* the socket tell is whether there is such a pipe.                        *)
ListsConsistent ==
    /\ TypeOK /\ NoAbort
    /\ proto \in Balancers => Ready(outstate) = UNION {Range(lb.pipes[s]) : s \in Priorities}
    /\ proto = "PAIR" => /\ Ready(outstate) = {excl.outpipe} \ {None}
                         /\ Ready(instate) = {excl.inpipe} \ {None}
    /\ proto \in Distributors =>
          dist = Ready(outstate) /\ count = Cardinality(dist)
    /\ proto \in FairQueues =>
          Ready(instate) = UNION {Range(fq.pipes[s]) : s \in Priorities}
    /\ proto \in Receivers => ("IN" \in Events <=> Ready(instate) # {})
    /\ proto \in Balancers \cup {"PAIR"} => ("OUT" \in Events <=> Ready(outstate) # {})
=============================================================================
