------------------------------- MODULE Stream -------------------------------
(***************************************************************************)
(* A connection once its usock is connected: the exchange of headers       *)
(* (src/src/transports/utils/streamhdr.c), the session (tcp/stcp.c, and    *)
(* ipc/sipc.c which differs in its header only) and the pipe it offers the *)
(* socket (core/pipe.c).  An operator is a call on the world of Usock.     *)
(*                                                                         *)
(* The three pass the ownership of the usock between them: the owner is    *)
(* whoever its events go to.                                               *)
(***************************************************************************)
EXTENDS Usock

StcpOwner(c) == [to |-> "stcp", of |-> c, src |-> "USOCK"]
HdrOwner(c) == [to |-> "hdr", of |-> c, src |-> "USOCK"]
(* The endpoint, or the atcp, that the session was started by.             *)
End(w, c, src) == IF w.role = "connect" THEN [to |-> "ep", of |-> Nil, src |-> src]
                  ELSE [to |-> "atcp", of |-> c, src |-> src]
TimerOwner(t) == IF t \in Conns THEN [to |-> "hdr", of |-> t, src |-> "TIMER"]
                 ELSE [to |-> "ep", of |-> Nil, src |-> "TIMER"]

Bad(w, who) == {Fail(w, who)}

-----------------------------------------------------------------------------
(* The exchange of headers.  has is streamhdr.usock # NULL.                *)
NewHdr == [st |-> "IDLE", has |-> FALSE]
HdrIdle(w, c) == w.hdr[c].st = "IDLE" /\ ~StoppedQueued(w, "HDR", c)
HdrRaise(w, c, type) == Raise(w, [to |-> "stcp", of |-> c, src |-> "HDR"], c, type)

HdrStart(w, c) ==
    IF w.hdr[c].has \/ ~HdrIdle(w, c) THEN Bad(w, "streamhdr started twice")
    ELSE UsockSend(TimerStart([SwapOwner(w, c, HdrOwner(c)) EXCEPT
                                  !.hdr[c] = [st |-> "SENDING", has |-> TRUE]], c), c)

HdrStopping(w, c) ==
    IF ~TimerIdle(w, c) THEN w
    ELSE HdrRaise([w EXCEPT !.hdr[c].st = "IDLE"], c, "STOPPED")
HdrStop(w, c) ==
    IF w.hdr[c].st \in {"IDLE", "STOPPING"} THEN w
    ELSE HdrStopping([TimerStop(w, c) EXCEPT !.hdr[c].st = "STOPPING"], c)

HdrEnd(w, c, st) == [TimerStop(w, c) EXCEPT !.hdr[c].st = st]
HdrDone(w, c, type) ==
    HdrRaise([SwapOwner(w, c, StcpOwner(c)) EXCEPT
                 !.hdr[c] = [st |-> "DONE", has |-> FALSE]], c, type)

HdrHandler(w, c, e) ==
    LET st == w.hdr[c].st
    IN  CASE st = "STOPPING" -> {HdrStopping(w, c)}
          [] st = "SENDING" /\ e.type = "SENT" ->
                UsockRecv([w EXCEPT !.hdr[c].st = "RECEIVING"], c)
          [] st = "RECEIVING" /\ e.type = "RECEIVED" ->
                {HdrEnd(w, c, "STOPPING_TIMER_DONE"), HdrEnd(w, c, "STOPPING_TIMER_ERROR")}
          [] st \in {"SENDING", "RECEIVING"} /\ e.type = "SHUTDOWN" -> {w}
          [] st \in {"SENDING", "RECEIVING"} /\ e.type \in {"ERROR", "TIMEOUT"} ->
                {HdrEnd(w, c, "STOPPING_TIMER_ERROR")}
          [] st \in {"STOPPING_TIMER_ERROR", "STOPPING_TIMER_DONE"} /\ e.src = "USOCK" ->
                IF e.type = "ERROR" THEN {w} ELSE Bad(w, "streamhdr: usock event")
          [] st = "STOPPING_TIMER_ERROR" /\ e.type = "STOPPED" -> {HdrDone(w, c, "ERROR")}
          [] st = "STOPPING_TIMER_DONE" /\ e.type = "STOPPED" -> {HdrDone(w, c, "OK")}
          [] OTHER -> Bad(w, "streamhdr: bad event")

-----------------------------------------------------------------------------
(* The pipe.  canin and canout say whether the protocol of the socket was  *)
(* told that it may receive or send and has not done so.                   *)
NewPipe == [st |-> "IDLE", in |-> "OFF", out |-> "OFF", canin |-> FALSE, canout |-> FALSE]
PipeRaise(w, c, type) == Raise(w, [to |-> "pipe", of |-> c, src |-> "PIPE"], c, type)

SockAdd(w) == StatIncrement(w, "current", 1)
SockRm(w) == StatIncrement(w, "current", -1)

(* grid_pipebase_start: the protocol may refuse the pipe. *)
PipeStart(w, c) ==
    IF w.pipe[c].st # "IDLE" THEN Bad(w, "pipe started twice")
    ELSE LET new == [NewPipe EXCEPT !.st = "ACTIVE", !.in = "ASYNC", !.out = "IDLE"]
         IN  {PipeRaise(SockAdd([w EXCEPT !.pipe[c] = new]), c, "OUT"),
              [w EXCEPT !.pipe[c] = [new EXCEPT !.st = "FAILED"]]}
PipeStop(w, c) ==
    [(IF w.pipe[c].st = "ACTIVE" THEN SockRm(w) ELSE w) EXCEPT !.pipe[c] = NewPipe]

PipeReceived(w, c) ==
    IF w.pipe[c].in # "ASYNC" THEN Fail(w, "pipe: not receiving")
    ELSE PipeRaise([w EXCEPT !.pipe[c].in = "IDLE"], c, "IN")
PipeSent(w, c) ==
    IF w.pipe[c].out # "ASYNC" THEN Fail(w, "pipe: not sending")
    ELSE PipeRaise([w EXCEPT !.pipe[c].out = "IDLE"], c, "OUT")

(* grid_pipe_send with grid_stcp_send, grid_pipe_recv with grid_stcp_recv. *)
StcpSend(w, c) ==
    IF w.stcp[c].st # "ACTIVE" \/ w.stcp[c].out # "IDLE" THEN Bad(w, "stcp: send")
    ELSE UsockSend([w EXCEPT !.stcp[c].out = "SENDING"], c)
SipcSend(w, c) == StcpSend(w, c)
SessionSend(w, c) == IF w.net = "tcp" THEN StcpSend(w, c) ELSE SipcSend(w, c)
PipeSend(w, c) ==
    IF w.pipe[c].out # "IDLE" THEN Bad(w, "pipe: send")
    ELSE SessionSend([w EXCEPT !.pipe[c].out = "ASYNC", !.pipe[c].canout = FALSE], c)
StcpRecv(w, c) ==
    IF w.stcp[c].st # "ACTIVE" \/ w.stcp[c].in # "HASMSG" THEN Bad(w, "stcp: recv")
    ELSE UsockRecv([w EXCEPT !.stcp[c].in = "HDR"], c)
SipcRecv(w, c) == StcpRecv(w, c)
SessionRecv(w, c) == IF w.net = "tcp" THEN StcpRecv(w, c) ELSE SipcRecv(w, c)
PipeRecv(w, c) ==
    IF w.pipe[c].in # "IDLE" THEN Bad(w, "pipe: recv")
    ELSE SessionRecv([w EXCEPT !.pipe[c].in = "ASYNC", !.pipe[c].canin = FALSE], c)

(* The protocol is told that it may send or receive: it does so at once or *)
(* waits for a call of the user.  Bound: at once at most one message each  *)
(* way in one entry into the context (REQ has one request to send; did     *)
(* says what was done).                                                    *)
AtOnce(w, what, S) == IF what \in w.did THEN {} ELSE {[v EXCEPT !.did = @ \cup {what}] : v \in S}
PipeHandler(w, c, e) ==
    IF w.pipe[c].st # "ACTIVE" THEN Bad(w, "pipe: event after removal")
    ELSE IF e.type = "OUT"
         THEN {[w EXCEPT !.pipe[c].canout = TRUE]} \cup AtOnce(w, "send", PipeSend(w, c))
         ELSE {[w EXCEPT !.pipe[c].canin = TRUE]} \cup AtOnce(w, "recv", PipeRecv(w, c))

-----------------------------------------------------------------------------
(* The session. *)
NewStcp == [st |-> "IDLE", in |-> "HDR", out |-> "IDLE"]
StcpIdle(w, c) == w.stcp[c].st = "IDLE" /\ ~StoppedQueued(w, "STCP", c)
StcpMove(w, c, st) == [w EXCEPT !.stcp[c].st = st]
StcpError(w, c) == Raise(StcpMove(w, c, "DONE"), End(w, c, "STCP"), c, "ERROR")

StcpStarted(w, c) == HdrStart(StcpMove(w, c, "PROTOHDR"), c)
StcpStart(w, c) ==
    IF ~StcpIdle(w, c) THEN Bad(w, "stcp started twice")
    ELSE StcpStarted(SwapOwner(w, c, StcpOwner(c)), c)

(* Mutant: the header exchange is not waited for.                          *)
StcpStoppingEarly(w, c) ==
    Raise(SwapOwner(StcpMove(w, c, "IDLE"), c, End(w, c, "USOCK")), End(w, c, "STCP"), c, "STOPPED")
StcpStopping(w, c) ==
    IF ~HdrIdle(w, c) THEN w
    ELSE Raise(SwapOwner(StcpMove(w, c, "IDLE"), c, End(w, c, "USOCK")),
               End(w, c, "STCP"), c, "STOPPED")
StcpStop(w, c) ==
    IF w.stcp[c].st \in {"IDLE", "STOPPING"} THEN w
    ELSE StcpStopping(StcpMove(HdrStop(PipeStop(w, c), c), c, "STOPPING"), c)

(* grid_sipc_start and grid_sipc_shutdown. *)
SipcStarted(w, c) == StcpStarted(w, c)
SipcStart(w, c) ==
    IF ~StcpIdle(w, c) THEN Bad(w, "sipc started twice")
    ELSE SipcStarted(SwapOwner(w, c, StcpOwner(c)), c)
SipcStop(w, c) == StcpStop(w, c)
SessionStart(w, c) == IF w.net = "tcp" THEN StcpStart(w, c) ELSE SipcStart(w, c)
SessionStop(w, c) == IF w.net = "tcp" THEN StcpStop(w, c) ELSE SipcStop(w, c)

(* GRID_STREAMHDR_STOPPED: offer the pipe and receive the first header.    *)
StcpActivate(w, c) ==
    UNION {IF v.failed # Nil THEN {v}
           ELSE IF v.pipe[c].st = "FAILED" THEN {StcpError(v, c)}
           ELSE UsockRecv([v EXCEPT !.stcp[c] = [NewStcp EXCEPT !.st = "ACTIVE"]], c)
           : v \in PipeStart(w, c)}

HasMsg(w, c) == PipeReceived([w EXCEPT !.stcp[c].in = "HASMSG"], c)
(* A message header: an empty message, one with a body, over TCP one       *)
(* longer than GRID_RCVMAXSIZE, or over IPC one that does not begin with   *)
(* the byte GRID_SIPC_MSG_NORMAL, which the peer decides.                  *)
GotAnyHeader(w, c) ==
    {HasMsg(w, c)} \cup UsockRecv([w EXCEPT !.stcp[c].in = "BODY"], c)
SipcGotHeader(w, c) == GotAnyHeader(w, c) \cup Bad(w, "sipc: message type")
StcpGotHeader(w, c) == GotAnyHeader(w, c) \cup {StcpError(w, c)}
GotHeader(w, c) == IF w.net = "tcp" THEN StcpGotHeader(w, c) ELSE SipcGotHeader(w, c)

StcpActive(w, c, e) ==
    LET s == w.stcp[c]
    IN  CASE e.type = "SENT" ->
                IF s.out # "SENDING" THEN Bad(w, "stcp: sent")
                ELSE {PipeSent([w EXCEPT !.stcp[c].out = "IDLE"], c)}
          [] e.type = "RECEIVED" ->
                CASE s.in = "HDR" -> GotHeader(w, c)
                  [] s.in = "BODY" -> {HasMsg(w, c)}
                  [] OTHER -> Bad(w, "stcp: received")
          [] e.type = "SHUTDOWN" -> {StcpMove(PipeStop(w, c), c, "SHUTTING_DOWN")}
          [] e.type = "ERROR" -> {StcpError(PipeStop(w, c), c)}
          [] OTHER -> Bad(w, "stcp: bad event")

(* The connection is closed: the session waits for its usock, then to be   *)
(* stopped.                                                                *)
StcpClosed(w, c, e) ==
    CASE w.stcp[c].st = "DONE" -> Bad(w, "stcp: event when done")
      [] e.type = "ERROR" -> {StcpError(w, c)}
      [] OTHER -> Bad(w, "stcp: bad event")

StcpHandler(w, c, e) ==
    LET st == w.stcp[c].st
    IN  CASE st = "STOPPING" -> {StcpStopping(w, c)}
          [] st = "PROTOHDR" /\ e.src = "HDR" /\ e.type = "OK" ->
                {HdrStop(StcpMove(w, c, "STOPPING_STREAMHDR"), c)}
          [] st = "PROTOHDR" /\ e.src = "HDR" /\ e.type = "ERROR" -> {StcpError(w, c)}
          [] st = "STOPPING_STREAMHDR" /\ e.src = "HDR" /\ e.type = "STOPPED" ->
                StcpActivate(w, c)
          [] st = "ACTIVE" -> StcpActive(w, c, e)
          [] st \in {"SHUTTING_DOWN", "DONE"} -> StcpClosed(w, c, e)
          [] OTHER -> Bad(w, "stcp: bad event")

(* ipc/sipc.c is the same machine but for the header of a message.         *)
SipcActive(w, c, e) == StcpActive(w, c, e)
SipcClosed(w, c, e) == StcpClosed(w, c, e)
SipcHandler(w, c, e) ==
    CASE w.stcp[c].st = "ACTIVE" -> SipcActive(w, c, e)
      [] w.stcp[c].st \in {"SHUTTING_DOWN", "DONE"} -> SipcClosed(w, c, e)
      [] OTHER -> StcpHandler(w, c, e)
=============================================================================
