------------------------------ MODULE Endpoint ------------------------------
(***************************************************************************)
(* Endpoints of the stream transports: a bound one (tcp/btcp.c and its     *)
(* accepted connections, tcp/atcp.c) or a connected one (tcp/ctcp.c with   *)
(* its resolver, utils/dns_getaddrinfo_a.inc, and utils/backoff.c); the    *)
(* field net tells TCP from IPC, whose bipc.c, aipc.c and cipc.c have no   *)
(* resolver, no local address and no limit on the size of a message.       *)
(*                                                                         *)
(* The context of the socket serialises everything: an entry into it is a  *)
(* step, and so is every event it handles before it leaves.  While events  *)
(* are queued nothing else happens.                                        *)
(***************************************************************************)
EXTENDS Stream, FiniteSets

States == {"IDLE", "GONE", "ACTIVE", "WAITING", "STOPPING_BACKOFF", "STOPPING_USOCK",
           "CLOSING", "STOPPING_ATCP", "STOPPING_ATCPS",
           "RESOLVING", "STOPPING_DNS", "CONNECTING", "STOPPING_STCP",
           "STOPPING_STCP_FINAL", "STOPPING"}
AtcpStates == {"FREE", "IDLE", "ACCEPTING", "ACTIVE", "STOPPING_STCP", "STOPPING_USOCK",
               "DONE", "STOPPING_STCP_FINAL", "STOPPING"}

EpOwner(src) == [to |-> "ep", of |-> Nil, src |-> src]
EpMove(v, st) == [v EXCEPT !.ep = st]

(* core/ep.c: the last error of the endpoint (whether there is one) and    *)
(* the events of its own machine, the field fsm.                           *)
SetError(v) ==
    IF v.error THEN v ELSE StatIncrement([v EXCEPT !.error = TRUE], "errors", 1)
ClearError(v) ==
    IF ~v.error THEN v ELSE StatIncrement([v EXCEPT !.error = FALSE], "errors", -1)
EpStopped(v) ==
    Raise(EpMove(v, "IDLE"), [to |-> "epfsm", of |-> Nil, src |-> "EPBASE"], Nil, "STOPPED")
EpShutdown(v) ==
    IF v.fsm # "STOPPING" THEN Fail(v, "ep: bad state")
    ELSE Raise([v EXCEPT !.fsm = "IDLE"], [to |-> "sock", of |-> Nil, src |-> "EP"],
               Nil, "STOPPED")

(* Mutant: the endpoint waits for a timer that nobody started.             *)
BackoffForgotten(v) == EpMove(v, "WAITING")
(* utils/backoff.c: the interval itself is left out. *)
BackoffWait(v) == EpMove(TimerStart(v, "retry"), "WAITING")
(* The endpoint waits, stops the timer that fired, and tries again.        *)
BackoffOver(v, e, again) ==
    CASE v.ep = "WAITING" /\ e.src = "TIMER" /\ e.type = "TIMEOUT" ->
            {EpMove(TimerStop(v, "retry"), "STOPPING_BACKOFF")}
      [] v.ep = "STOPPING_BACKOFF" /\ e.src = "TIMER" /\ e.type = "STOPPED" -> again
      [] OTHER -> Bad(v, "endpoint: bad event")

-----------------------------------------------------------------------------
(* Accepted connections. *)
AtcpOwner(c, src) == [to |-> "atcp", of |-> c, src |-> src]
AtcpMove(v, c, st) == [v EXCEPT !.atcp[c] = st]
AtcpIdle(v, c) == v.atcp[c] = "IDLE" /\ ~StoppedQueued(v, "ATCP", c)
HasListener(v, c) == v.us[Listener].owner = AtcpOwner(c, "LISTENER")
ReturnListener(v) == SwapOwner(v, Listener, EpOwner("USOCK"))

(* Bound: a connection arrives only while an atcp is free to wait for the  *)
(* next one.                                                               *)
Free(v) == {c \in Conns : v.atcp[c] = "FREE"}
InBound(S) == {v \in S : v.us[Listener].st = "LISTENING" => Free(v) # {}}

(* The session is told to stop: the connection counts as dropped, also one *)
(* that is being stopped because it broke.                                 *)
Dropped(v, c) == SessionStop(StatIncrement(v, "alive", -1), c)
Broken(v) == StatIncrement(v, "alive", -1)

Listens(v, c) == SwapOwner(v, Listener, AtcpOwner(c, "LISTENER"))
AtcpAccepting(v, c) == InBound(UsockAccept(AtcpMove(v, c, "ACCEPTING"), c, Listener))
AtcpStart(v, c) == AtcpAccepting(Listens(v, c), c)

AtcpStopping(v, c) ==
    LET asked == IF v.atcp[c] = "STOPPING_STCP_FINAL" /\ StcpIdle(v, c)
                 THEN AtcpMove(UsockStop(v, c), c, "STOPPING") ELSE v
        back == IF HasListener(asked, c) THEN ReturnListener(asked) ELSE asked
    IN  IF asked.atcp[c] = "STOPPING" /\ UsockIdle(asked, c)
        THEN Raise(AtcpMove(back, c, "IDLE"), EpOwner("ATCP"), c, "STOPPED")
        ELSE asked
AtcpStop(v, c) ==
    IF v.atcp[c] \in {"IDLE", "STOPPING_STCP_FINAL", "STOPPING"} THEN v
    ELSE AtcpStopping(AtcpMove(IF StcpIdle(v, c) THEN v ELSE Dropped(v, c),
                               c, "STOPPING_STCP_FINAL"), c)

(* grid_atcp_term and the memory of the object freed. *)
AtcpTerm(v, c) ==
    IF ~AtcpIdle(v, c) \/ v.us[c].st # "IDLE" THEN Fail(v, "atcp: term")
    ELSE [UsockTerm(v, c) EXCEPT
              !.atcp[c] = "FREE", !.us[c] = NewUsock(AtcpOwner(c, "USOCK")),
              !.hdr[c] = NewHdr, !.stcp[c] = NewStcp, !.pipe[c] = NewPipe]

(* ipc/aipc.c: the same machine. *)
AipcAccepting(v, c) == AtcpAccepting(v, c)
AipcStart(v, c) == AipcAccepting(Listens(v, c), c)
AipcStop(v, c) == AtcpStop(v, c)
AipcTerm(v, c) == AtcpTerm(v, c)
AcceptorStart(v, c) == IF v.net = "tcp" THEN AtcpStart(v, c) ELSE AipcStart(v, c)
AcceptorStop(v, c) == IF v.net = "tcp" THEN AtcpStop(v, c) ELSE AipcStop(v, c)
AcceptorTerm(v, c) == IF v.net = "tcp" THEN AtcpTerm(v, c) ELSE AipcTerm(v, c)

AtcpAccepted(v, c) ==
    LET x == StatIncrement(ClearError(ReturnListener(v)), "alive", 1)
    IN  SessionStart(UsockActivate(
            Raise(AtcpMove(x, c, "ACTIVE"), EpOwner("ATCP"), c, "ACCEPTED"), c), c)

AtcpHandler(v, c, e) ==
    LET st == v.atcp[c]
    IN  CASE st \in {"STOPPING_STCP_FINAL", "STOPPING"} -> {AtcpStopping(v, c)}
          [] st = "ACCEPTING" /\ e.type = "ACCEPTED" -> AtcpAccepted(v, c)
          [] st = "ACCEPTING" /\ e.type = "ACCEPT_ERROR" ->
                InBound(UsockAccept(SetError(v), c, Listener))
          [] st = "ACTIVE" /\ e.src = "STCP" /\ e.type = "ERROR" ->
                {SessionStop(AtcpMove(Broken(v), c, "STOPPING_STCP"), c)}
          [] st = "STOPPING_STCP" /\ e.src = "STCP" /\ e.type = "STOPPED" ->
                {UsockStop(AtcpMove(v, c, "STOPPING_USOCK"), c)}
          [] st = "STOPPING_USOCK" /\ e.src = "USOCK" /\ e.type = "SHUTDOWN" -> {v}
          [] st = "STOPPING_USOCK" /\ e.src = "USOCK" /\ e.type = "STOPPED" ->
                {Raise(AtcpMove(v, c, "DONE"), EpOwner("ATCP"), c, "ERROR")}
          [] OTHER -> Bad(v, "atcp: bad event")

-----------------------------------------------------------------------------
(* The bound endpoint.  cur is btcp.atcp, list is btcp.atcps.              *)
BtcpStartAccepting(v) ==
    IF v.cur # Nil THEN Bad(v, "btcp: accepting")
    ELSE UNION {AcceptorStart([v EXCEPT !.cur = c], c) : c \in Free(v)}

(* Opening the socket fails; binding or listening fails; it listens.       *)
BtcpStartListening(v) ==
    LET started == UsockStart(v, Listener)
    IN  {BackoffWait(v), EpMove(UsockStop(started, Listener), "CLOSING")}
        \cup BtcpStartAccepting(EpMove(UsockListen(started, Listener), "ACTIVE"))

StopAtcps(v) ==
    LET stopped == FoldSet(LAMBDA c, x : AcceptorStop(x, c), EpMove(v, "STOPPING_ATCPS"), v.list)
    IN  IF v.list = {} THEN EpStopped(v) ELSE stopped
BtcpStoppingUsock(v) ==
    IF ~UsockIdle(v, Listener) \/ ~TimerIdle(v, "retry")
    THEN EpMove(v, "STOPPING_USOCK") ELSE StopAtcps(v)
BtcpStoppingAtcp(v) ==
    IF ~AtcpIdle(v, v.cur) THEN EpMove(v, "STOPPING_ATCP")
    ELSE BtcpStoppingUsock(UsockStop([AcceptorTerm(v, v.cur) EXCEPT !.cur = Nil], Listener))
BtcpStop(v) ==
    LET x == TimerStop(v, "retry")
    IN  IF x.cur = Nil THEN BtcpStoppingUsock(x)
        ELSE BtcpStoppingAtcp(AcceptorStop(x, x.cur))

AtcpGone(v, c) == AcceptorTerm([v EXCEPT !.list = @ \ {c}], c)
BtcpShutdown(v, e) ==
    CASE v.ep = "STOPPING_ATCP" -> {BtcpStoppingAtcp(v)}
      [] v.ep = "STOPPING_USOCK" -> {BtcpStoppingUsock(v)}
      [] v.ep = "STOPPING_ATCPS" /\ e.src = "ATCP" /\ e.type = "STOPPED" ->
            LET x == AtcpGone(v, e.ptr)
            IN  {IF x.list = {} THEN EpStopped(x) ELSE x}
      [] OTHER -> Bad(v, "btcp: bad event")

(* The events of the atcp that waits, and of the others.                   *)
BtcpActive(v, e) ==
    IF e.ptr = v.cur
    THEN IF e.type # "ACCEPTED" THEN Bad(v, "btcp: bad event")
         ELSE BtcpStartAccepting([v EXCEPT !.list = @ \cup {v.cur}, !.cur = Nil])
    ELSE CASE e.type = "ERROR" -> {AcceptorStop(v, e.ptr)}
           [] e.type = "STOPPED" -> {AtcpGone(v, e.ptr)}
           [] OTHER -> Bad(v, "btcp: bad event")
BtcpHandler(v, e) ==
    CASE v.ep = "ACTIVE" /\ e.src = "ATCP" -> BtcpActive(v, e)
      [] v.ep = "CLOSING" /\ e.src = "USOCK" /\ e.type = "STOPPED" -> {BackoffWait(v)}
      [] OTHER -> BackoffOver(v, e, BtcpStartListening(v))

-----------------------------------------------------------------------------
(* The resolver.  found is dns_result.error = 0.                           *)
DnsIdle(v) == v.dns = "IDLE" /\ ~StoppedQueued(v, "DNS", Nil)
DnsRaise(v, st, type) == Raise([v EXCEPT !.dns = st], EpOwner("DNS"), Nil, type)
(* A literal address is there at once, a name too, or none, in a build     *)
(* without getaddrinfo_a; with it a name is looked up by another thread.   *)
DnsDone(v, ok) == DnsRaise([v EXCEPT !.found = ok], "DONE", "DONE")
DnsStopped(v) == DnsRaise(v, "IDLE", "STOPPED")
DnsLookup(v) == {DnsDone(v, ok) : ok \in BOOLEAN}
DnsStart(v) ==
    IF ~DnsIdle(v) THEN Bad(v, "dns started twice")
    ELSE DnsLookup(v) \cup {[v EXCEPT !.dns = "RESOLVING"]}
DnsStop(v) ==
    CASE v.dns \in {"IDLE", "STOPPING"} -> {v}
      [] v.dns = "DONE" -> {DnsStopped(v)}
      [] v.dns = "RESOLVING" -> {DnsStopped(v), [v EXCEPT !.dns = "STOPPING"]}
DnsNotified(v, ok) ==
    IF v.dns = "STOPPING" THEN DnsStopped(v) ELSE DnsDone(v, ok)

-----------------------------------------------------------------------------
(* The connected endpoint; its usock and session are those of Peer.        *)
Peer == CHOOSE c \in Conns : TRUE

UsockConnecting(v) ==
    {StatIncrement(EpMove(x, "CONNECTING"), "inprogress", 1) : x \in UsockConnect(v, Peer)}
(* grid_ctcp_start_connecting: the local interface is unknown or opening   *)
(* the socket fails; binding it fails; it connects.                        *)
CtcpStartConnecting(v) ==
    LET started == UsockStart(v, Peer)
    IN  {BackoffWait(v), BackoffWait(started)} \cup UsockConnecting(started)
CipcStartConnecting(v) == {BackoffWait(v)} \cup UsockConnecting(UsockStart(v, Peer))
CtcpStartResolving(v) == DnsStart(EpMove(v, "RESOLVING"))
CtcpWaiting(v, e) == BackoffOver(v, e, CtcpStartResolving(v))
CipcWaiting(v, e) == BackoffOver(v, e, CipcStartConnecting(v))

CtcpStopping(v) ==
    IF UsockIdle(v, Peer) /\ TimerIdle(v, "retry") /\ DnsIdle(v)
    THEN EpStopped(v) ELSE EpMove(v, "STOPPING")
CtcpStoppingStcp(v) ==
    IF ~StcpIdle(v, Peer) THEN {EpMove(v, "STOPPING_STCP_FINAL")}
    ELSE {CtcpStopping(x) : x \in DnsStop(UsockStop(TimerStop(v, "retry"), Peer))}
CtcpStop(v) ==
    CtcpStoppingStcp(IF StcpIdle(v, Peer) THEN v ELSE Dropped(v, Peer))
CtcpShutdown(v, e) ==
    CASE v.ep = "STOPPING_STCP_FINAL" -> CtcpStoppingStcp(v)
      [] v.ep = "STOPPING" -> {CtcpStopping(v)}
      [] OTHER -> Bad(v, "ctcp: bad event")

(* Mutant: an attempt that ended still counts as being made.               *)
TriedUncounted(v) == v
Tried(v) == StatIncrement(v, "inprogress", -1)
CtcpClosing(v, e) ==
    CASE v.ep = "ACTIVE" /\ e.src = "STCP" /\ e.type = "ERROR" ->
            {EpMove(SessionStop(Broken(v), Peer), "STOPPING_STCP")}
      [] v.ep = "STOPPING_STCP" /\ e.src = "STCP" /\ e.type = "STOPPED" ->
            {EpMove(UsockStop(v, Peer), "STOPPING_USOCK")}
      [] v.ep = "STOPPING_USOCK" /\ e.src = "USOCK" /\ e.type = "SHUTDOWN" -> {v}
      [] v.ep = "STOPPING_USOCK" /\ e.src = "USOCK" /\ e.type = "STOPPED" -> {BackoffWait(v)}
      [] OTHER -> Bad(v, "ctcp: bad event")
CtcpHandler(v, e) ==
    CASE v.ep = "RESOLVING" /\ e.src = "DNS" /\ e.type = "DONE" ->
            DnsStop(EpMove(v, "STOPPING_DNS"))
      [] v.ep = "STOPPING_DNS" /\ e.src = "DNS" /\ e.type = "STOPPED" ->
            IF v.found THEN CtcpStartConnecting(v) ELSE {BackoffWait(v)}
      [] v.ep = "CONNECTING" /\ e.src = "USOCK" /\ e.type = "CONNECTED" ->
            {ClearError(StatIncrement(x, "alive", 1))
                : x \in SessionStart(EpMove(Tried(v), "ACTIVE"), Peer)}
      [] v.ep = "CONNECTING" /\ e.src = "USOCK" /\ e.type = "ERROR" ->
            {Tried(EpMove(UsockStop(SetError(v), Peer), "STOPPING_USOCK"))}
      [] v.ep \in {"ACTIVE", "STOPPING_STCP", "STOPPING_USOCK"} -> CtcpClosing(v, e)
      [] v.ep \in {"WAITING", "STOPPING_BACKOFF"} -> CtcpWaiting(v, e)
      [] OTHER -> Bad(v, "ctcp: bad event")

-----------------------------------------------------------------------------
(* ipc/bipc.c, aipc.c and cipc.c are the same machines; a connected one    *)
(* has no resolver: it is never in RESOLVING or STOPPING_DNS.              *)
BipcStartListening(v) == BtcpStartListening(v)
BipcShutdown(v, e) == BtcpShutdown(v, e)
BipcHandler(v, e) == BtcpHandler(v, e)
AipcHandler(v, c, e) == AtcpHandler(v, c, e)
CipcShutdown(v, e) == CtcpShutdown(v, e)
CipcHandler(v, e) ==
    IF v.ep \in {"WAITING", "STOPPING_BACKOFF"} THEN CipcWaiting(v, e) ELSE CtcpHandler(v, e)

(* Creating an endpoint starts it.  An address of TCP that does not parse, *)
(* or that names no interface of this host, is refused.                    *)
Refused(v) == EpMove(v, "GONE")
BtcpCreate(v) == {Refused(v)} \cup BtcpStartListening(v)
CtcpCreate(v) == {Refused(v)} \cup CtcpStartResolving(v)
BipcCreate(v) == BipcStartListening(v)
CipcCreate(v) == CipcStartConnecting(v)
EpInit(v) ==
    CASE v.net = "tcp" /\ v.role = "bind" -> BtcpCreate(v)
      [] v.net = "tcp" /\ v.role = "connect" -> CtcpCreate(v)
      [] v.net = "ipc" /\ v.role = "bind" -> BipcCreate(v)
      [] v.net = "ipc" /\ v.role = "connect" -> CipcCreate(v)

(* Destroying it: nothing may be left behind.                              *)
BackoffTerm(v) ==
    IF \E t \in Range(v.tasks \o v.copy) : t.on = "retry"
    THEN Fail(v, "endpoint: term") ELSE v
BtcpDestroy(v) ==
    IF v.ep # "IDLE" \/ v.cur # Nil \/ v.list # {} THEN Fail(v, "endpoint: term")
    ELSE BackoffTerm(UsockTerm(v, Listener))
CtcpDestroy(v) ==
    IF ~DnsIdle(v) \/ ~StcpIdle(v, Peer) THEN Fail(v, "endpoint: term")
    ELSE UsockTerm(BackoffTerm(v), Peer)
BipcDestroy(v) == BtcpDestroy(v)
CipcDestroy(v) ==
    IF ~StcpIdle(v, Peer) THEN Fail(v, "endpoint: term") ELSE UsockTerm(BackoffTerm(v), Peer)
EpDestroy(v) ==
    IF v.role = "bind" THEN IF v.net = "tcp" THEN BtcpDestroy(v) ELSE BipcDestroy(v)
    ELSE IF v.net = "tcp" THEN CtcpDestroy(v) ELSE CipcDestroy(v)
EpTerm(v) == IF v.fsm # "IDLE" THEN Fail(v, "ep: term") ELSE EpMove(EpDestroy(v), "GONE")

BipcStop(v) == BtcpStop(v)
CipcStop(v) == CtcpStop(v)
EpStop(v) ==
    LET x == [v EXCEPT !.fsm = "STOPPING"]
    IN  IF v.role = "bind" THEN {IF v.net = "tcp" THEN BtcpStop(x) ELSE BipcStop(x)}
        ELSE IF v.net = "tcp" THEN CtcpStop(x) ELSE CipcStop(x)
(* stopping: the state of the machine of the endpoint is STOPPING.         *)
EpHandler(v, stopping, e) ==
    CASE v.net = "tcp" /\ v.role = "bind" ->
            IF stopping THEN BtcpShutdown(v, e) ELSE BtcpHandler(v, e)
      [] v.net = "ipc" /\ v.role = "bind" ->
            IF stopping THEN BipcShutdown(v, e) ELSE BipcHandler(v, e)
      [] v.net = "tcp" /\ v.role = "connect" ->
            IF stopping THEN CtcpShutdown(v, e) ELSE CtcpHandler(v, e)
      [] v.net = "ipc" /\ v.role = "connect" ->
            IF stopping THEN CipcShutdown(v, e) ELSE CipcHandler(v, e)
=============================================================================
