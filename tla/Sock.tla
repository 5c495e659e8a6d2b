-------------------------------- MODULE Sock --------------------------------
(***************************************************************************)
(* The socket table and the calls of the application (global.c), and the   *)
(* socket they act on (sock.c): holds, the blocking grid_send and          *)
(* grid_recv with their event descriptors (efd.c), grid_close waiting for  *)
(* the endpoints and for the other callers, and grid_term.                 *)
(*                                                                         *)
(* A section under the global lock, or inside the context of the socket,   *)
(* is one step.  The lock is a variable only where a thread waits inside   *)
(* it for the context, which the statistics timer keeps for long.          *)
(***************************************************************************)
EXTENDS Integers, FiniteSets

CONSTANTS
    Callers,    \* application threads
    MaxSockets, \* GRID_MAX_SOCKETS
    MaxEps,     \* bound: endpoints of a socket at a time
    Cap,        \* bound: messages that can be received, or sent, at once
    Dirs        \* the directions in use, of "recv" and "send"

Slots == 0 .. MaxSockets - 1

ASSUME SizesAssumption == /\ MaxSockets \in Nat \ {0}
                          /\ MaxEps \in Nat /\ Cap \in Nat \ {0}
ASSUME CallersAssumption == IsFiniteSet(Callers) /\ "none" \notin Callers
ASSUME DirsAssumption == Dirs \subseteq {"recv", "send"}

None == "none"
NoSlot == -1

VARIABLES
    inited,     \* self.socks is allocated
    zombie,     \* GRID_CTX_FLAG_ZOMBIE: grid_term was called
    sock,       \* self.socks: slot -> the socket in it, or NoSock
    unused,     \* self.unused: stack of free slots
    nsocks,
    call,       \* thread -> the call it is in
    glock,      \* the thread that waits for a context inside the global lock
    stat,       \* the slot whose context the statistics timer is in, or NoSlot
    failed      \* the assertion or crash that ended the process, or None

vars == <<inited, zombie, sock, unused, nsocks, call, glock, stat, failed>>

(* A socket: the state of grid_sock, the holds, the number of endpoints in *)
(* use and shutting down, the two semaphores, whether the protocol stops   *)
(* at once, whether grid_sock_term has released its context, how often it  *)
(* could receive or send now, and the event descriptors: signalled or not, *)
(* open or closed.                                                         *)
NoSock == [state |-> "NONE", holds |-> 0, eps |-> 0, sdeps |-> 0,
           termsem |-> 0, relesem |-> 0, atonce |-> TRUE, disposed |-> FALSE,
           ready |-> [d \in Dirs |-> 0], sig |-> [d \in Dirs |-> FALSE],
           fd |-> "open"]

States == {"NONE", "ACTIVE", "ZOMBIE", "STOPPING_EPS", "STOPPING", "FINI"}
Closing == {"STOPPING_EPS", "STOPPING", "FINI"}

(* A call: where it is, its socket, what it does, whether it may block,    *)
(* and the result of the latest call.                                      *)
Ops == Dirs \cup {"add_ep", "rm_ep", "setopt", "getopt", "close", None}
Idle == [pc |-> "idle", slot |-> 0, op |-> None, mode |-> "forever", res |-> None]
Ended(res) == [Idle EXCEPT !.res = res]
InCall  == {"enter", "wait", "poll", "rele"}
InClose == {"termsem", "relesem", "dispose", "free"}
Modes   == {"dontwait", "timed", "forever"}
Results == {None, "ok", "ETERM", "EBADF", "EAGAIN", "ETIMEDOUT", "EMFILE", "EINVAL",
            "ENOPROTOOPT"}

Socks == [state : States, holds : 0 .. Cardinality(Callers) + 2,
          eps : 0..MaxEps, sdeps : 0..MaxEps, termsem : 0..1, relesem : 0..1,
          atonce : BOOLEAN, disposed : BOOLEAN,
          ready : [Dirs -> 0..Cap], sig : [Dirs -> BOOLEAN], fd : {"open", "closed"}]

Calls == [pc : InCall \cup {"idle", "locked"} \cup InClose,
          slot : Slots, op : Ops, res : Results, mode : Modes]

TypeOK ==
    /\ inited \in BOOLEAN /\ zombie \in BOOLEAN
    /\ nsocks \in 0..MaxSockets
    /\ unused \in [Slots -> Slots]
    /\ sock \in [Slots -> Socks]
    /\ \A s \in Slots : sock[s].eps + sock[s].sdeps <= MaxEps
    /\ call \in [Callers -> Calls]
    /\ glock \in Callers \cup {None}
    /\ stat \in Slots \cup {NoSlot}

(* The stack of unused slots of grid_global_init.                          *)
AllUnused == [i \in Slots |-> MaxSockets - i - 1]

Init ==
    /\ inited = FALSE /\ zombie = FALSE
    /\ sock = [s \in Slots |-> NoSock]
    /\ unused = AllUnused
    /\ nsocks = 0
    /\ call = [c \in Callers |-> Idle]
    /\ glock = None /\ stat = NoSlot /\ failed = None

-----------------------------------------------------------------------------
(* The table and the holds.                                                *)

Running == failed = None
Global  == Running /\ glock = None      \* the global lock can be taken

Abort(why) == /\ failed' = why
              /\ UNCHANGED <<inited, zombie, sock, unused, nsocks, call, glock, stat>>

NoGlobalChange == UNCHANGED <<inited, zombie, unused, nsocks, glock, stat, failed>>

(* Mutant: a socket that is being closed is not refused.                   *)
HoldResultClosing(s) ==
    IF ~inited \/ zombie THEN "ETERM"
    ELSE IF sock[s].state \in {"NONE", "ZOMBIE"} THEN "EBADF" ELSE "ok"

(* The errno with which grid_global_hold_socket fails, or "ok".            *)
HoldResult(s) ==
    IF ~inited \/ zombie THEN "ETERM"
    ELSE IF sock[s].state \in {"NONE", "ZOMBIE"} \cup Closing THEN "EBADF"
    ELSE "ok"

(* grid_sock_rele *)
Rele(k) == [k EXCEPT !.holds = @ - 1,
                     !.relesem = IF k.holds = 1 THEN @ + 1 ELSE @]

(* Mutant: a descriptor is signalled and never cleared.                    *)
OnLeaveNeverClears(k) == IF k.state = "ACTIVE"
                         THEN [k EXCEPT !.sig = [d \in Dirs |-> @[d] \/ k.ready[d] > 0]]
                         ELSE k

(* Whether the socket is readable and writable is shown on the event       *)
(* descriptors whenever a thread leaves the context.                       *)
OnLeave(k) == IF k.state = "ACTIVE"
              THEN [k EXCEPT !.sig = [d \in Dirs |-> k.ready[d] > 0]]
              ELSE k

(* grid_sock_init: the socket has the hold of its creator and is started;  *)
(* its type says whether the protocol stops at once.                       *)
Created(once) == [NoSock EXCEPT !.state = "ACTIVE", !.holds = 1, !.atonce = once]

(* grid_socket; the type may be unknown, or no descriptor be left.         *)
Socket(c) ==
    /\ Global /\ call[c].pc = "idle"
    /\ LET s == unused[MaxSockets - nsocks - 1]
           Return(res) == call' = [call EXCEPT ![c] = Ended(res)]
       IN  IF zombie THEN Return("ETERM") /\ UNCHANGED <<inited, sock, nsocks>>
           ELSE \/ /\ Return(IF nsocks >= MaxSockets THEN "EMFILE" ELSE "EINVAL")
                   /\ UNCHANGED <<inited, sock, nsocks>>
                \/ \E once \in BOOLEAN :
                   /\ nsocks < MaxSockets
                   /\ sock' = [sock EXCEPT ![s] = Created(once)]
                   /\ nsocks' = nsocks + 1
                   /\ inited' = TRUE
                   /\ Return("ok")
    /\ UNCHANGED <<zombie, unused, glock, stat, failed>>

(* A call takes a hold on its socket, or fails.                            *)
Enter(c, s, op, mode) ==
    /\ Global /\ call[c].pc = "idle"
    /\ LET res == HoldResult(s) IN
       /\ call' = [call EXCEPT ![c] =
              IF res = "ok" THEN [Idle EXCEPT !.pc = "enter", !.slot = s, !.op = op,
                                              !.mode = mode]
              ELSE Ended(res)]
       /\ sock' = IF res = "ok" THEN [sock EXCEPT ![s].holds = @ + 1] ELSE sock
    /\ NoGlobalChange

(* grid_global_rele_socket, the end of every call.                         *)
Leave(c) ==
    /\ Global /\ call[c].pc = "rele"
    /\ sock' = [sock EXCEPT ![call[c].slot] = Rele(@)]
    /\ call' = [call EXCEPT ![c] = Ended(@.res)]
    /\ NoGlobalChange

-----------------------------------------------------------------------------
(* Calls inside the context of the socket.                                 *)

InContext(c) == Running /\ call[c].pc = "enter" /\ stat # call[c].slot

Result(c, res) == call' = [call EXCEPT ![c].pc = "rele", ![c].res = res]

(* grid_sock_send and grid_sock_recv, from entering the context until they *)
(* return or have to wait.                                                 *)
Transfer(c) ==
    /\ InContext(c) /\ call[c].op \in Dirs
    /\ LET s == call[c].slot
           k == sock[s]
           d == call[c].op
           Left(j) == sock' = [sock EXCEPT ![s] = OnLeave(j)]
       IN  IF k.state = "ZOMBIE" THEN Result(c, "ETERM") /\ Left(k)
           ELSE IF k.state \in Closing THEN Result(c, "EBADF") /\ Left(k)
           ELSE IF k.ready[d] > 0
           THEN Result(c, "ok") /\ Left([k EXCEPT !.ready[d] = @ - 1])
           ELSE /\ Left(k)
                /\ IF call[c].mode = "dontwait" THEN Result(c, "EAGAIN")
                   ELSE call' = [call EXCEPT ![c].pc = "wait"]
    /\ NoGlobalChange

(* grid_efd_wait reads the descriptor, and then polls the number it read.  *)
WaitFd(c) ==
    /\ Running /\ call[c].pc = "wait"
    /\ IF sock[call[c].slot].fd = "open"
       THEN call' = [call EXCEPT ![c].pc = "poll"]
       ELSE Result(c, "EBADF")
    /\ UNCHANGED sock /\ NoGlobalChange

Pollable(c) == LET k == sock[call[c].slot] IN
               (k.fd = "open" /\ k.sig[call[c].op]) \/ k.fd = "closed"

Woken(c) ==
    /\ Running /\ call[c].pc = "poll" /\ Pollable(c)
    /\ call' = [call EXCEPT ![c].pc = "enter"]
    /\ UNCHANGED sock /\ NoGlobalChange

TimedOut(c) ==
    /\ Running /\ call[c].pc = "poll" /\ call[c].mode = "timed" /\ ~Pollable(c)
    /\ Result(c, "ETIMEDOUT")
    /\ UNCHANGED sock /\ NoGlobalChange

(* grid_global_create_ep refuses what is no address of a known transport,  *)
(* before it enters the context.                                           *)
CreateEp(c) ==
    /\ Running /\ call[c].pc = "enter" /\ call[c].op = "add_ep"
    /\ Result(c, "EINVAL")
    /\ UNCHANGED sock /\ NoGlobalChange

(* grid_sock_add_ep: the transport may refuse the address.                 *)
AddEp(c) ==
    /\ InContext(c) /\ call[c].op = "add_ep"
    /\ LET s == call[c].slot
           k == sock[s]
       IN  \/ /\ k.eps + k.sdeps < MaxEps
              /\ sock' = [sock EXCEPT ![s] = OnLeave([k EXCEPT !.eps = @ + 1])]
              /\ Result(c, "ok")
           \/ UNCHANGED sock /\ Result(c, "EINVAL")
    /\ NoGlobalChange

(* grid_sock_rm_ep *)
RmEp(c) ==
    /\ InContext(c) /\ call[c].op = "rm_ep"
    /\ LET s == call[c].slot
           k == sock[s]
       IN  \/ /\ k.eps > 0
              /\ sock' = [sock EXCEPT ![s] =
                             OnLeave([k EXCEPT !.eps = @ - 1, !.sdeps = @ + 1])]
              /\ Result(c, "ok")
           \/ UNCHANGED sock /\ Result(c, "EINVAL")
    /\ NoGlobalChange

(* The end of a call for an option: set or read, a value out of range, an  *)
(* option that does not exist.                                             *)
OptionDone(c) == /\ \E res \in {"ok", "EINVAL", "ENOPROTOOPT"} : Result(c, res)
                 /\ UNCHANGED sock /\ NoGlobalChange

(* An option of the protocol is passed to the protocol.                    *)
ProtocolOption(c) ==
    IF sock[call[c].slot].state = "FINI" THEN Abort("destroyed_base") ELSE OptionDone(c)

InOption(c, op) == InContext(c) /\ call[c].op = op
Terminated(c) == /\ sock[call[c].slot].state = "ZOMBIE" /\ Result(c, "ETERM")
                 /\ UNCHANGED sock /\ NoGlobalChange

(* grid_sock_setopt: options of the socket and of the transports are the   *)
(* socket's own data; of the latter it creates a set when it needs one.    *)
SetOpt(c) ==
    /\ InOption(c, "setopt")
    /\ IF sock[call[c].slot].state = "ZOMBIE" THEN Terminated(c)
       ELSE OptionDone(c) \/ ProtocolOption(c)

(* grid_sock_getopt *)
GetOpt(c) ==
    /\ InOption(c, "getopt")
    /\ IF sock[call[c].slot].state = "ZOMBIE" THEN Terminated(c)
       ELSE OptionDone(c) \/ ProtocolOption(c)

-----------------------------------------------------------------------------
(* Closing.                                                                *)

(* The protocol is gone: descriptors are closed, grid_close may go on.     *)
Finished(k) == [k EXCEPT !.state = "FINI", !.fd = "closed", !.termsem = @ + 1]

(* The last endpoint is gone: the protocol stops, now or later.            *)
StopProtocol(k) == IF k.atonce THEN Finished(k) ELSE [k EXCEPT !.state = "STOPPING"]

(* Mutant: endpoints in use are not told to stop.                          *)
StopForgetsEps(k) ==
    LET stopping == [k EXCEPT !.state = "STOPPING_EPS", !.sig = [d \in Dirs |-> TRUE]]
    IN  IF stopping.sdeps = 0 THEN StopProtocol(stopping) ELSE stopping

(* grid_sock_stop *)
Stop(k) ==
    LET stopping == [k EXCEPT !.state = "STOPPING_EPS", !.eps = 0,
                              !.sdeps = k.eps + k.sdeps,
                              !.sig = [d \in Dirs |-> TRUE]]
    IN  IF stopping.sdeps = 0 THEN StopProtocol(stopping) ELSE stopping

(* Mutant: only the hold of grid_close itself is dropped.                  *)
StopAndReleOnce(k) == Rele(Stop([k EXCEPT !.holds = @ + 1]))

StopAndRele(k) == Rele(Rele(Stop([k EXCEPT !.holds = @ + 1])))

(* grid_close, its first section under the global lock: hold, stop, and    *)
(* drop this hold and the one of the creator.                              *)
Close(c, s) ==
    /\ Global /\ call[c].pc = "idle"
    /\ LET res == HoldResult(s) IN
       /\ res = "ok" => stat # s
       /\ call' = [call EXCEPT ![c] =
              IF res = "ok" THEN [Idle EXCEPT !.pc = "termsem", !.slot = s, !.op = "close"]
              ELSE [Ended(res) EXCEPT !.op = "close"]]
       /\ sock' = IF res = "ok" THEN [sock EXCEPT ![s] = StopAndRele(@)] ELSE sock
    /\ NoGlobalChange

(* The same when the statistics timer is in the context: the thread waits  *)
(* for it, and has the global lock.                                        *)
CloseWaits(c, s) ==
    /\ Global /\ call[c].pc = "idle" /\ HoldResult(s) = "ok" /\ stat = s
    /\ glock' = c
    /\ call' = [call EXCEPT ![c] = [Idle EXCEPT
           !.pc = "locked", !.slot = s, !.op = "close"]]
    /\ UNCHANGED <<inited, zombie, sock, unused, nsocks, stat, failed>>

CloseResumes(c) ==
    /\ Running /\ call[c].pc = "locked" /\ stat # call[c].slot
    /\ glock' = None
    /\ sock' = [sock EXCEPT ![call[c].slot] = StopAndRele(@)]
    /\ call' = [call EXCEPT ![c].pc = "termsem"]
    /\ UNCHANGED <<inited, zombie, unused, nsocks, stat, failed>>

(* grid_sock_term: the endpoints, the other callers, the context.          *)
WaitTerm(c) ==
    /\ Running /\ call[c].pc = "termsem" /\ sock[call[c].slot].termsem > 0
    /\ sock' = [sock EXCEPT ![call[c].slot].termsem = @ - 1]
    /\ call' = [call EXCEPT ![c].pc = "relesem"]
    /\ NoGlobalChange

(* Mutant: grid_sock_term does not wait for the other callers.             *)
WaitReleNot(c) ==
    /\ Running /\ call[c].pc = "relesem"
    /\ call' = [call EXCEPT ![c].pc = "dispose"]
    /\ UNCHANGED sock /\ NoGlobalChange

WaitRele(c) ==
    /\ Running /\ call[c].pc = "relesem" /\ sock[call[c].slot].relesem > 0
    /\ sock' = [sock EXCEPT ![call[c].slot].relesem = @ - 1]
    /\ call' = [call EXCEPT ![c].pc = "dispose"]
    /\ NoGlobalChange

Dispose(c) ==
    /\ Running /\ call[c].pc = "dispose" /\ stat # call[c].slot
    /\ IF sock[call[c].slot].eps + sock[call[c].slot].sdeps > 0
       THEN Abort("list_not_empty")
       ELSE /\ sock' = [sock EXCEPT ![call[c].slot].disposed = TRUE]
            /\ call' = [call EXCEPT ![c].pc = "free"]
            /\ NoGlobalChange

(* The stack of unused slots with this one on top.                         *)
Pushed(s) == [unused EXCEPT ![MaxSockets - nsocks] = s]

(* grid_global_term: the library goes with its last socket, and the table  *)
(* with it.                                                                *)
GlobalTerm(s) ==
    /\ inited' = (nsocks > 1)
    /\ unused' = IF nsocks = 1 THEN AllUnused ELSE Pushed(s)

(* grid_close, its second section: the slot is free again.                 *)
Free(c) ==
    /\ Global /\ call[c].pc = "free"
    /\ LET s == call[c].slot IN
       /\ sock' = [sock EXCEPT ![s] = NoSock]
       /\ nsocks' = nsocks - 1
       /\ GlobalTerm(s)
    /\ call' = [call EXCEPT ![c] = Ended("ok")]
    /\ UNCHANGED <<zombie, glock, stat, failed>>

-----------------------------------------------------------------------------
(* Events of the endpoints, the pipes and the protocol, from the workers.  *)

InSocket(s) == Running /\ stat # s
Changed(s, k) == /\ sock' = [sock EXCEPT ![s] = k]
                 /\ UNCHANGED call /\ NoGlobalChange

(* An event in a state without a transition for it.                        *)
BadState(k) == Abort(IF k.state = "ZOMBIE" THEN "zombie_event" ELSE "bad_state")

(* An endpoint that was shut down has stopped.                             *)
EpStopped(s) ==
    /\ InSocket(s) /\ sock[s].sdeps > 0
    /\ LET k == [sock[s] EXCEPT !.sdeps = @ - 1] IN
       IF k.state = "ACTIVE" THEN Changed(s, OnLeave(k))
       ELSE IF k.state # "STOPPING_EPS" THEN BadState(k)
       ELSE IF k.sdeps > 0 THEN Changed(s, k)
       ELSE IF k.eps > 0 THEN Abort("eps_not_empty")
       ELSE Changed(s, StopProtocol(k))

(* A pipe reports a message, or room for one.                              *)
PipeEvent(s, d) ==
    /\ InSocket(s) /\ sock[s].eps + sock[s].sdeps > 0
    /\ LET k == sock[s] IN
       IF k.state = "ACTIVE"
       THEN k.ready[d] < Cap /\ Changed(s, OnLeave([k EXCEPT !.ready[d] = @ + 1]))
       ELSE IF k.state = "STOPPING_EPS" THEN Changed(s, k)
       ELSE BadState(k)

(* A connection is lost, with the messages it had.                         *)
PipeGone(s, d) ==
    /\ InSocket(s) /\ sock[s].state = "ACTIVE" /\ sock[s].ready[d] > 0
    /\ Changed(s, OnLeave([sock[s] EXCEPT !.ready[d] = @ - 1]))

(* The protocol has stopped.                                               *)
ProtocolStopped(s) ==
    /\ InSocket(s) /\ sock[s].state = "STOPPING"
    /\ Changed(s, Finished(sock[s]))

(* grid_term: the flag, and ZOMBIFY to every socket.                       *)
Zombify(k) ==
    IF k.state = "ACTIVE"
    THEN [k EXCEPT !.state = "ZOMBIE", !.sig = [d \in Dirs |-> TRUE]]
    ELSE k

Term ==
    /\ Global /\ ~zombie /\ stat = NoSlot
    /\ IF \E s \in Slots : sock[s].state \in {"STOPPING", "FINI"}
       THEN Abort("late_zombify")
       ELSE /\ zombie' = TRUE
            /\ sock' = [s \in Slots |-> Zombify(sock[s])]
            /\ UNCHANGED <<inited, unused, nsocks, call, glock, stat, failed>>
-----------------------------------------------------------------------------
(* The statistics timer.                                                   *)

(* grid_global_submit_statistics enters the context of every socket in the *)
(* table; it has no hold on it.                                            *)
StatEnter(s) ==
    /\ Global /\ stat = NoSlot /\ sock[s].state # "NONE"
    /\ IF sock[s].disposed THEN Abort("dead_context")
       ELSE /\ stat' = s
            /\ UNCHANGED <<inited, zombie, sock, unused, nsocks, call, glock, failed>>

(* Inside, it calls grid_send on the statistics socket, for which it needs *)
(* the global lock.                                                        *)
StatLeave ==
    /\ Global /\ stat # NoSlot
    /\ stat' = NoSlot
    /\ UNCHANGED <<inited, zombie, sock, unused, nsocks, call, glock, failed>>

-----------------------------------------------------------------------------
(* Specifications.                                                         *)

Configure(c) == CreateEp(c) \/ AddEp(c) \/ RmEp(c) \/ SetOpt(c) \/ GetOpt(c)

(* The steps of a thread that is in a call, apart from timing out.         *)
Continue(c) ==
    \/ Leave(c) \/ Transfer(c) \/ WaitFd(c) \/ Woken(c)
    \/ Configure(c)
    \/ WaitTerm(c) \/ WaitRele(c) \/ Dispose(c) \/ Free(c)

Begin(c, s) ==
    \/ \E op \in Dirs, mode \in Modes : Enter(c, s, op, mode)
    \/ \E op \in {"add_ep", "rm_ep", "setopt", "getopt"} : Enter(c, s, op, "forever")

Calling == \E c \in Callers :
              \/ Socket(c) \/ Continue(c) \/ TimedOut(c)
              \/ \E s \in Slots : Begin(c, s)

Working == \E s \in Slots :
              \/ EpStopped(s) \/ ProtocolStopped(s)
              \/ \E d \in Dirs : PipeEvent(s, d) \/ PipeGone(s, d)

Next == Calling \/ Working \/ Term \/ \E c \in Callers, s \in Slots : Close(c, s)

(* The program keeps to what the code can stand: nobody is in grid_bind,   *)
(* grid_connect, grid_shutdown or grid_setsockopt while another thread     *)
(* closes the socket, and grid_term finds no socket that is being closed   *)
(* or has endpoints.                                                       *)
Quiet(s) == \A c \in Callers : call[c].slot = s /\ call[c].pc \in InCall
                                  => call[c].op \in Dirs
Calm(s) == Quiet(s) /\ sock[s].eps + sock[s].sdeps = 0 /\ sock[s].state \notin Closing

OrderlyNext ==
    \/ Calling \/ Working
    \/ (\A s \in Slots : Calm(s)) /\ Term
    \/ \E c \in Callers, s \in Slots : Quiet(s) /\ Close(c, s)

(* Threads run, endpoints and protocols that were told to stop do so.      *)
Fairness == /\ \A c \in Callers : WF_vars(Continue(c))
            /\ \A s \in Slots : WF_vars(EpStopped(s)) /\ WF_vars(ProtocolStopped(s))

Spec == Init /\ [][Next]_vars
OrderlySpec == Init /\ [][OrderlyNext]_vars /\ Fairness

(* The same with statistics being submitted, and without grid_term.        *)
StatNext ==
    \/ Calling \/ Working \/ StatLeave
    \/ \E s \in Slots : StatEnter(s)
    \/ \E c \in Callers : CloseResumes(c)
    \/ \E c \in Callers, s \in Slots : Quiet(s) /\ (Close(c, s) \/ CloseWaits(c, s))

(* The timer fires every ten seconds: it never keeps a thread from a       *)
(* context for good by coming back to it.                                  *)
StatSpec == Init /\ [][StatNext]_vars /\ Fairness /\ WF_vars(StatLeave)
                 /\ \A c \in Callers : SF_vars(Continue(c)) /\ SF_vars(CloseResumes(c))

-----------------------------------------------------------------------------
(* Properties.                                                             *)

(* No assertion of sock.c or list.c fails and nothing destroyed is used    *)
(* (sock.c:926, 937, 960, list.c:37).                                      *)
NoAbort == failed = None

(* The holds of a socket are those of the calls in progress and of the     *)
(* creator, until it closes; grid_close is let go once, when the last of   *)
(* them is dropped (grid_sock_hold, grid_sock_rele).                       *)
In(s) == {c \in Callers : call[c].slot = s /\ call[c].pc \in InCall}
ClosersOf(s) == {c \in Callers : call[c].slot = s /\ call[c].op = "close"
                                /\ call[c].pc # "idle"}
HoldsCounted ==
    Running /\ glock = None => \A s \in Slots :
        sock[s].state # "NONE" =>
            /\ sock[s].holds = Cardinality(In(s))
                               + (IF sock[s].state \in Closing THEN 0 ELSE 1)
            /\ Cardinality(ClosersOf(s)) = IF sock[s].state \in Closing THEN 1 ELSE 0
            /\ sock[s].relesem = 1 =>
                  sock[s].holds = 0
                  /\ \E c \in ClosersOf(s) : call[c].pc \in {"termsem", "relesem"}

(* The free part of the stack of unused slots holds exactly the slots that *)
(* have no socket, each once, so no slot is given out twice or lost        *)
(* (global.c:462 and 557).                                                 *)
FreeSlots == {s \in Slots : sock[s].state = "NONE"}
TableConsistent ==
    Running => /\ nsocks = MaxSockets - Cardinality(FreeSlots)
               /\ {unused[i] : i \in 0 .. MaxSockets - nsocks - 1} = FreeSlots

(* The event descriptors say whether an active socket can receive and      *)
(* send, so that a blocked caller is woken when it has a reason to be and  *)
(* does not spin; on any other socket they are signalled or closed, and    *)
(* stay so (grid_sock_onleave, grid_sock_action_zombify, grid_efd_stop).   *)
SignalsTellTruth ==
    Running => \A s \in Slots, d \in Dirs :
        /\ sock[s].state = "ACTIVE" => (sock[s].sig[d] <=> sock[s].ready[d] > 0)
        /\ sock[s].state \notin {"NONE", "ACTIVE"} => sock[s].sig[d]

(* The table of sockets is sound: types, holds and unused slots.           *)
TableSound == TypeOK /\ HoldsCounted /\ TableConsistent

Phase(s) == IF sock[s].state = "NONE" THEN "free"
            ELSE IF sock[s].state \in Closing THEN "closing" ELSE "open"

(* The table keeps the promise of Handles.                                 *)
Table == INSTANCE Handles WITH
    Threads <- Callers,
    Descriptors <- Slots,
    phase <- [s \in Slots |-> Phase(s)],
    users <- [s \in Slots |-> In(s)]

ImplementsHandles == Table!Spec

(* A grid_close that was admitted ends, whoever is blocked in a call on    *)
(* the socket: they are all woken (sock.c:203 "and wake any threads        *)
(* waiting to recv or send data"); and a caller blocked when grid_term is  *)
(* called returns ETERM, even one that would wait forever                  *)
(* (man/grid_term.txt).                                                    *)
CallsEnd ==
    \A c \in Callers :
        /\ call[c].pc \in {"locked", "termsem"} ~> call[c].pc = "idle"
        /\ zombie /\ call[c].pc = "poll" /\ call[c].mode = "forever"
              ~> call[c].pc = "idle" /\ call[c].res = "ETERM"
=============================================================================
