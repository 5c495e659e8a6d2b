-------------------------- MODULE TransportProofs ---------------------------
(***************************************************************************)
(* Proofs about the TCP and IPC endpoints, for every finite set of         *)
(* connections: a bound endpoint always waits for the next connection, and *)
(* the statistics count the connections, the attempts and the pipes that   *)
(* there are, as long as nobody asked the endpoint to stop.                *)
(*                                                                         *)
(* Two invariants carry it.  Core relates, at every event and not only     *)
(* when the context is left, each session to the endpoint that counts it,  *)
(* each counter to what it counts and each event on its way to who may     *)
(* still get it.  PhasesOk says how far the wait for the next connection   *)
(* is: a bound endpoint has asked the listener, or the connection, or the  *)
(* shortage of descriptors, is about to be reported to it.                 *)
(*                                                                         *)
(* A handler runs through several layers, so that the lemmas follow the    *)
(* layers: what the usock of one connection may do to the world (UsOp),    *)
(* then its header exchange, pipe and session (Turn), then the endpoint    *)
(* (Moved, Quiet), and for each kind of step what it leaves of the         *)
(* invariant.  ENABLED and liveness are not treated.                       *)
(***************************************************************************)
EXTENDS Transport, TLAPS, SequenceTheorems, FiniteSetTheorems

(***************************************************************************)
(* What a world consists of.                                               *)
(***************************************************************************)
Ptrs == Conns \cup {Listener, "retry", Nil}
ToOne == {"atcp", "stcp", "hdr", "pipe"}
Sources == {"USOCK", "LISTENER", "TIMER", "HDR", "PIPE", "STCP", "ATCP", "DNS", "EPBASE", "EP"}
UsOwners == [to : {"ep"}, of : {Nil}, src : {"USOCK", "LISTENER"}]
            \cup [to : ToOne, of : Conns, src : {"USOCK", "LISTENER"}]
EventTypes == {"SHUTDOWN", "ERROR", "ACCEPT_ERROR", "CONNECTED", "ACCEPTED", "STOPPED", "SENT",
               "RECEIVED", "TIMEOUT", "OUT", "IN", "OK", "DONE"}
SessTypes == EventTypes \ {"ACCEPT_ERROR"}
Owners == [to : {"ep", "epfsm", "sock"}, of : {Nil}, src : Sources]
          \cup [to : ToOne, of : Conns, src : Sources]
Events == [to : {"ep", "epfsm", "sock"}, of : {Nil}, src : Sources, ptr : Ptrs,
           type : EventTypes]
          \cup [to : ToOne, of : Conns, src : Sources, ptr : Ptrs, type : EventTypes]
TimerKinds == {"timer_start", "timer_stop"}
UsockKinds == {"send", "recv", "connected", "connecting", "accept", "stop"}
Tasks == [kind : TimerKinds, on : Timers] \cup [kind : UsockKinds, on : Socks]
UsockRecs == [st : UsockStates, open : BOOLEAN, reg : BOOLEAN, in : BOOLEAN, out : BOOLEAN,
              asock : Socks \cup {Nil}, errnum : BOOLEAN, owner : UsOwners]
HdrStates == {"IDLE", "SENDING", "RECEIVING", "STOPPING", "STOPPING_TIMER_DONE",
              "STOPPING_TIMER_ERROR", "DONE"}
StcpStates == {"IDLE", "PROTOHDR", "STOPPING_STREAMHDR", "ACTIVE", "SHUTTING_DOWN", "DONE",
               "STOPPING"}
HdrRecs == [st : HdrStates, has : BOOLEAN]
StcpRecs == [st : StcpStates, in : {"HDR", "BODY", "HASMSG"}, out : {"IDLE", "SENDING"}]
Ways == {"OFF", "ASYNC", "IDLE"}
PipeRecs == [st : {"IDLE", "ACTIVE", "FAILED"}, in : Ways, out : Ways, canin : BOOLEAN,
             canout : BOOLEAN]
TimerRecs == [st : {"IDLE", "ACTIVE", "STOPPING"}, armed : BOOLEAN]
DnsStates == {"IDLE", "RESOLVING", "DONE", "STOPPING"}
FsmStates == {"IDLE", "ACTIVE", "STOPPING"}
Failures == {
    "atcp: bad event", "atcp: term", "btcp: accepting", "btcp: bad event",
    "ctcp: bad event", "dns started twice", "endpoint: bad event",
    "endpoint: term", "ep: bad state", "ep: term", "event queued twice",
    "pipe started twice", "pipe: event after removal",
    "pipe: not receiving", "pipe: not sending", "pipe: recv",
    "pipe: send", "sipc started twice", "sipc: message type", "statistics",
    "stcp started twice", "stcp: bad event", "stcp: event when done",
    "stcp: received", "stcp: recv", "stcp: send", "stcp: sent",
    "streamhdr started twice", "streamhdr: bad event",
    "streamhdr: usock event", "task queued at term", "task queued twice",
    "timer started twice", "usock not active", "usock started twice",
    "usock: accept", "usock: accepting", "usock: bad action", "usock: bad source",
    "usock: paired"}
World == [role : {"bind", "connect"}, net : {"tcp", "ipc"}, ep : States,
          cur : Conns \cup {Nil}, list : SUBSET Conns, atcp : [Conns -> AtcpStates],
          dns : DnsStates, found : BOOLEAN,
          us : [Socks -> UsockRecs], hdr : [Conns -> HdrRecs], stcp : [Conns -> StcpRecs],
          pipe : [Conns -> PipeRecs], tmr : [Timers -> TimerRecs],
          fsm : FsmStates, error : BOOLEAN, stat : [Stats -> Int], did : SUBSET {"send", "recv"},
          events : Seq(Events), tasks : Seq(Tasks), copy : Seq(Tasks),
          failed : Failures \cup {Nil}]

(* Every failure is told apart from none.                                  *)
LEMMA Sites ==
  /\ "atcp: bad event" \in Failures \ {Nil}
  /\ "atcp: term" \in Failures \ {Nil}
  /\ "btcp: accepting" \in Failures \ {Nil}
  /\ "btcp: bad event" \in Failures \ {Nil}
  /\ "ctcp: bad event" \in Failures \ {Nil}
  /\ "dns started twice" \in Failures \ {Nil}
  /\ "endpoint: bad event" \in Failures \ {Nil}
  /\ "endpoint: term" \in Failures \ {Nil}
  /\ "ep: bad state" \in Failures \ {Nil}
  /\ "ep: term" \in Failures \ {Nil}
  /\ "event queued twice" \in Failures \ {Nil}
  /\ "pipe started twice" \in Failures \ {Nil}
  /\ "pipe: event after removal" \in Failures \ {Nil}
  /\ "pipe: not receiving" \in Failures \ {Nil}
  /\ "pipe: not sending" \in Failures \ {Nil}
  /\ "pipe: recv" \in Failures \ {Nil}
  /\ "pipe: send" \in Failures \ {Nil}
  /\ "sipc started twice" \in Failures \ {Nil}
  /\ "sipc: message type" \in Failures \ {Nil}
  /\ "statistics" \in Failures \ {Nil}
  /\ "stcp started twice" \in Failures \ {Nil}
  /\ "stcp: bad event" \in Failures \ {Nil}
  /\ "stcp: event when done" \in Failures \ {Nil}
  /\ "stcp: received" \in Failures \ {Nil}
  /\ "stcp: recv" \in Failures \ {Nil}
  /\ "stcp: send" \in Failures \ {Nil}
  /\ "stcp: sent" \in Failures \ {Nil}
  /\ "streamhdr started twice" \in Failures \ {Nil}
  /\ "streamhdr: bad event" \in Failures \ {Nil}
  /\ "streamhdr: usock event" \in Failures \ {Nil}
  /\ "task queued at term" \in Failures \ {Nil}
  /\ "task queued twice" \in Failures \ {Nil}
  /\ "timer started twice" \in Failures \ {Nil}
  /\ "usock not active" \in Failures \ {Nil}
  /\ "usock started twice" \in Failures \ {Nil}
  /\ "usock: accept" \in Failures \ {Nil}
  /\ "usock: accepting" \in Failures \ {Nil}
  /\ "usock: bad action" \in Failures \ {Nil}
  /\ "usock: bad source" \in Failures \ {Nil}
  /\ "usock: paired" \in Failures \ {Nil}
BY DEF Failures, Nil

(* A world with one field replaced by one of its kind is a world.          *)
LEMMA Put ==
  ASSUME NEW x \in World
  PROVE  /\ \A f \in [Socks -> UsockRecs] : [x EXCEPT !.us = f] \in World
         /\ \A f \in [Conns -> HdrRecs] : [x EXCEPT !.hdr = f] \in World
         /\ \A f \in [Conns -> StcpRecs] : [x EXCEPT !.stcp = f] \in World
         /\ \A f \in [Conns -> PipeRecs] : [x EXCEPT !.pipe = f] \in World
         /\ \A f \in [Timers -> TimerRecs] : [x EXCEPT !.tmr = f] \in World
         /\ \A f \in [Conns -> AtcpStates] : [x EXCEPT !.atcp = f] \in World
         /\ \A f \in [Stats -> Int] : [x EXCEPT !.stat = f] \in World
         /\ \A s \in Seq(Events) : [x EXCEPT !.events = s] \in World
         /\ \A s \in Seq(Tasks) : [x EXCEPT !.tasks = s] \in World
         /\ \A s \in Seq(Tasks) : [x EXCEPT !.copy = s] \in World
         /\ \A s \in States : [x EXCEPT !.ep = s] \in World
         /\ \A c \in Conns \cup {Nil} : [x EXCEPT !.cur = c] \in World
         /\ \A s \in SUBSET Conns : [x EXCEPT !.list = s] \in World
         /\ \A s \in DnsStates : [x EXCEPT !.dns = s] \in World
         /\ \A b \in BOOLEAN : [x EXCEPT !.found = b] \in World
         /\ \A b \in BOOLEAN : [x EXCEPT !.error = b] \in World
         /\ \A s \in FsmStates : [x EXCEPT !.fsm = s] \in World
         /\ \A s \in SUBSET {"send", "recv"} : [x EXCEPT !.did = s] \in World
         /\ \A s \in Failures \cup {Nil} : [x EXCEPT !.failed = s] \in World
BY ZenonT(60) DEF World

(* What the fields of a world are.                                         *)
LEMMA Has ==
  ASSUME NEW x \in World
  PROVE  /\ x.role \in {"bind", "connect"} /\ x.net \in {"tcp", "ipc"} /\ x.ep \in States
         /\ x.cur \in Conns \cup {Nil} /\ x.list \in SUBSET Conns
         /\ x.atcp \in [Conns -> AtcpStates]
         /\ x.dns \in DnsStates /\ x.found \in BOOLEAN
         /\ x.us \in [Socks -> UsockRecs] /\ x.hdr \in [Conns -> HdrRecs]
         /\ x.stcp \in [Conns -> StcpRecs] /\ x.pipe \in [Conns -> PipeRecs]
         /\ x.tmr \in [Timers -> TimerRecs]
         /\ x.fsm \in FsmStates /\ x.error \in BOOLEAN /\ x.stat \in [Stats -> Int]
         /\ x.did \in SUBSET {"send", "recv"}
         /\ x.events \in Seq(Events) /\ x.tasks \in Seq(Tasks) /\ x.copy \in Seq(Tasks)
         /\ x.failed \in Failures \cup {Nil}
BY DEF World

(* The constants of the identities are told apart.                         *)
LEMMA Names ==
  /\ Listener \notin Conns /\ Nil \notin Conns /\ "retry" \notin Conns
  /\ Listener # Nil /\ Listener # "retry" /\ Nil # "retry"
  /\ Conns \subseteq Socks /\ Listener \in Socks /\ Socks \subseteq Ptrs
  /\ Conns \subseteq Timers /\ "retry" \in Timers /\ Timers \subseteq Ptrs
  /\ Nil \in Ptrs /\ Nil \notin Socks /\ Conns # {} /\ IsFiniteSet(Conns)
BY ConnsAssumption DEF Listener, Nil, Socks, Ptrs, Timers

(***************************************************************************)
(* Sequences that only grow.                                               *)
(***************************************************************************)
Grows(s, t) == Len(s) <= Len(t) /\ \A i \in 1..Len(s) : t[i] = s[i]
New(s, t) == (Len(s) + 1)..Len(t)

(* Growth is transitive, nothing appended is growth, and so is one more.   *)
LEMMA GrowsTrans ==
  ASSUME NEW S, NEW s \in Seq(S), NEW t \in Seq(S), NEW z \in Seq(S),
         Grows(s, t), Grows(t, z)
  PROVE  /\ Grows(s, z)
         /\ \A i \in New(s, z) : (i \in New(s, t) /\ z[i] = t[i]) \/ i \in New(t, z)
<1>1. Len(s) \in Nat /\ Len(t) \in Nat /\ Len(z) \in Nat
  BY LenProperties
<1> QED BY <1>1 DEF Grows, New

LEMMA GrowsSame ==
  ASSUME NEW S, NEW s \in Seq(S)
  PROVE  Grows(s, s) /\ New(s, s) = {}
<1>1. Len(s) \in Nat
  BY LenProperties
<1> QED BY <1>1 DEF Grows, New

LEMMA GrowsOne ==
  ASSUME NEW S, NEW s \in Seq(S), NEW e \in S
  PROVE  /\ Append(s, e) \in Seq(S) /\ Grows(s, Append(s, e))
         /\ Len(Append(s, e)) = Len(s) + 1 /\ Append(s, e)[Len(s) + 1] = e
         /\ \A i \in New(s, Append(s, e)) : i = Len(s) + 1 /\ Append(s, e)[i] = e
<1>1. Len(s) \in Nat
  BY LenProperties
<1>2. Append(s, e) \in Seq(S) /\ Len(Append(s, e)) = Len(s) + 1
      /\ Append(s, e)[Len(s) + 1] = e
      /\ \A i \in 1..Len(s) : Append(s, e)[i] = s[i]
  BY AppendProperties
<1> QED BY <1>1, <1>2 DEF Grows, New

(* A descriptor shortage is reported by one event at a time.               *)
Distinct(x) ==
    \A i, j \in 1..Len(x.events) : i < j => ~SameItem(x.events[j], x.events[i])

(***************************************************************************)
(* The step of a session.                                                  *)
(***************************************************************************)
SameEp(x, y) ==
    /\ y.role = x.role /\ y.net = x.net /\ y.ep = x.ep /\ y.cur = x.cur /\ y.list = x.list
    /\ y.atcp = x.atcp /\ y.fsm = x.fsm /\ y.error = x.error
SameOthers(x, y, c) ==
    /\ \A u \in Socks \ {c} : y.us[u] = x.us[u]
    /\ \A d \in Conns \ {c} : /\ y.hdr[d] = x.hdr[d] /\ y.stcp[d] = x.stcp[d]
                              /\ y.pipe[d] = x.pipe[d]
Listened == {"CANCELLING", "ACCEPTING", "LISTENING", "ACCEPTING_ERROR"}
Fresh == {"IDLE", "BEING_ACCEPTED"}
UsStep(a, b) ==
    /\ b.asock = a.asock
    /\ \/ b.st = a.st
       \/ a.st \notin Fresh /\ b.st \notin Listened \cup {"BEING_ACCEPTED"}
Piped(x, c) == IF x.pipe[c].st = "ACTIVE" THEN 1 ELSE 0
SameStats(x, y, c) ==
    /\ \A n \in Stats \ {"current"} : y.stat[n] = x.stat[n]
    /\ y.stat["current"] - Piped(y, c) = x.stat["current"] - Piped(x, c)
SessEvent(x, e, c) ==
    /\ e.ptr = c /\ e.src \in {"USOCK", "LISTENER", "TIMER", "HDR", "PIPE", "STCP"}
    /\ e.type # "ACCEPT_ERROR"
    /\ e.src = "STCP" => e.to = End(x, c, "STCP").to /\ e.of = End(x, c, "STCP").of
Queues(x, y, c) ==
    /\ Grows(x.events, y.events) /\ Grows(x.tasks, y.tasks) /\ y.copy = x.copy
    /\ \A i \in New(x.events, y.events) : SessEvent(y, y.events[i], c)
    /\ \A i \in New(x.tasks, y.tasks) : y.tasks[i].on = c
    /\ Distinct(x) => Distinct(y)
Sess(x, y, c) ==
    /\ y \in World
    /\ y.failed = Nil =>
           /\ x.failed = Nil /\ SameEp(x, y) /\ SameOthers(x, y, c)
           /\ UsStep(x.us[c], y.us[c]) /\ SameStats(x, y, c) /\ Queues(x, y, c)

(* Steps of one session compose.                                           *)
LEMMA QueuesTrans ==
  ASSUME NEW x \in World, NEW y \in World, NEW z \in World, NEW c,
         SameEp(x, y), SameEp(y, z), Queues(x, y, c), Queues(y, z, c)
  PROVE  Queues(x, z, c)
<1>1. Grows(x.events, z.events) /\ \A i \in New(x.events, z.events) :
          (i \in New(x.events, y.events) /\ z.events[i] = y.events[i]) \/ i \in New(y.events, z.events)
  BY Has, GrowsTrans DEF Queues
<1>2. Grows(x.tasks, z.tasks) /\ \A i \in New(x.tasks, z.tasks) :
          (i \in New(x.tasks, y.tasks) /\ z.tasks[i] = y.tasks[i]) \/ i \in New(y.tasks, z.tasks)
  BY Has, GrowsTrans DEF Queues
<1>3. \A i \in New(x.events, z.events) : SessEvent(z, z.events[i], c)
  BY <1>1 DEF Queues, SessEvent, SameEp, End
<1>4. \A i \in New(x.tasks, z.tasks) : z.tasks[i].on = c
  BY <1>2 DEF Queues
<1> QED BY <1>1, <1>2, <1>3, <1>4 DEF Queues

LEMMA SessTrans ==
  ASSUME NEW x \in World, NEW y, NEW z, NEW c \in Conns, Sess(x, y, c), Sess(y, z, c)
  PROVE  Sess(x, z, c)
<1>1. y \in World /\ z \in World
  BY DEF Sess
<1>2. SUFFICES ASSUME z.failed = Nil
               PROVE  /\ x.failed = Nil /\ SameEp(x, z) /\ SameOthers(x, z, c)
                      /\ UsStep(x.us[c], z.us[c]) /\ SameStats(x, z, c) /\ Queues(x, z, c)
  BY <1>1 DEF Sess
<1>3. /\ x.failed = Nil /\ SameEp(x, y) /\ SameOthers(x, y, c)
      /\ UsStep(x.us[c], y.us[c]) /\ SameStats(x, y, c) /\ Queues(x, y, c)
      /\ SameEp(y, z) /\ SameOthers(y, z, c)
      /\ UsStep(y.us[c], z.us[c]) /\ SameStats(y, z, c) /\ Queues(y, z, c)
  BY <1>2 DEF Sess
<1>4. SameEp(x, z) /\ SameOthers(x, z, c)
  BY <1>3 DEF SameEp, SameOthers
<1>5. UsStep(x.us[c], z.us[c])
  BY <1>3 DEF UsStep, Fresh, Listened
<1>6. SameStats(x, z, c)
  <2>1. /\ x.stat["current"] \in Int /\ y.stat["current"] \in Int
        /\ z.stat["current"] \in Int
    BY <1>1, Has DEF Stats
  <2>2. Piped(x, c) \in Int /\ Piped(y, c) \in Int /\ Piped(z, c) \in Int
    BY DEF Piped
  <2> QED BY <1>3, <2>1, <2>2 DEF SameStats
<1>7. Queues(x, z, c)
  BY <1>1, <1>3, QueuesTrans
<1> QED BY <1>3, <1>4, <1>5, <1>6, <1>7

LEMMA SessSame ==
  ASSUME NEW x \in World, NEW c \in Conns
  PROVE  Sess(x, x, c)
<1>1. Queues(x, x, c)
  BY Has, GrowsSame DEF Queues
<1> QED BY <1>1 DEF Sess, SameEp, SameOthers, UsStep, SameStats


(***************************************************************************)
(* Primitive operations.                                                   *)
(***************************************************************************)
LEMMA FailIs ==
  ASSUME NEW x \in World, NEW s \in Failures \ {Nil}
  PROVE  Fail(x, s) \in World /\ Fail(x, s).failed # Nil
<1>1. Fail(x, s) = [x EXCEPT !.failed = IF x.failed = Nil THEN s ELSE x.failed]
  BY DEF Fail
<1>2. Fail(x, s) \in World
  BY <1>1, Put, Has
<1>3. Fail(x, s).failed # Nil
  BY <1>1 DEF World
<1> QED BY <1>2, <1>3

(* The event that owner o gets.                                            *)
Item(o, p, type) == [to |-> o.to, of |-> o.of, src |-> o.src, ptr |-> p, type |-> type]
(* The fields an event or a task in a queue does not change.               *)
SameParts(x, y) ==
    /\ y.us = x.us /\ y.hdr = x.hdr /\ y.stcp = x.stcp /\ y.pipe = x.pipe
    /\ y.stat = x.stat /\ y.dns = x.dns /\ y.found = x.found /\ y.did = x.did

(* One field is replaced.                                                  *)
LEMMA EventsPut ==
  ASSUME NEW x \in World, NEW s \in Seq(Events), NEW y, y = [x EXCEPT !.events = s]
  PROVE  /\ y \in World /\ y.failed = x.failed /\ SameEp(x, y) /\ SameParts(x, y)
         /\ y.events = s /\ y.tmr = x.tmr /\ y.tasks = x.tasks /\ y.copy = x.copy
<1>1. y \in World
  BY Put
<1> QED BY <1>1 DEF World, SameEp, SameParts

LEMMA TasksPut ==
  ASSUME NEW x \in World, NEW s \in Seq(Tasks), NEW y, y = [x EXCEPT !.tasks = s]
  PROVE  /\ y \in World /\ y.failed = x.failed /\ SameEp(x, y) /\ SameParts(x, y)
         /\ y.tasks = s /\ y.tmr = x.tmr /\ y.events = x.events /\ y.copy = x.copy
<1>1. y \in World
  BY Put
<1> QED BY <1>1 DEF World, SameEp, SameParts

LEMMA StatsPut ==
  ASSUME NEW x \in World, NEW f \in [Stats -> Int], NEW y, y = [x EXCEPT !.stat = f]
  PROVE  /\ y \in World /\ y.failed = x.failed /\ SameEp(x, y) /\ y.stat = f
         /\ y.us = x.us /\ y.hdr = x.hdr /\ y.stcp = x.stcp /\ y.pipe = x.pipe
         /\ y.tmr = x.tmr /\ y.dns = x.dns /\ y.found = x.found /\ y.did = x.did
         /\ y.events = x.events /\ y.tasks = x.tasks /\ y.copy = x.copy
<1>1. y \in World
  BY Put
<1> QED BY <1>1, ZenonT(60) DEF World, SameEp

(* usock.c, fsm.c: an event goes to the end of the queue of its owner's    *)
(* context.                                                                *)
LEMMA RaiseIs ==
  ASSUME NEW x \in World, NEW o \in Owners, NEW p \in Ptrs, NEW type \in EventTypes,
         NEW y, y = Raise(x, o, p, type)
  PROVE  /\ y \in World
         /\ y.failed = Nil =>
              /\ x.failed = Nil /\ SameEp(x, y) /\ SameParts(x, y)
              /\ y.tmr = x.tmr /\ y.tasks = x.tasks /\ y.copy = x.copy
              /\ y.events = Append(x.events, Item(o, p, type))
              /\ Item(o, p, type) \in Events
              /\ \A i \in 1..Len(x.events) : ~SameItem(Item(o, p, type), x.events[i])
              /\ Distinct(x) => Distinct(y)
<1> DEFINE e == Item(o, p, type)
<1>1. e \in Events
  BY DEF Events, Owners, Item
<1>2. CASE \E f \in Range(x.events) : SameItem(e, f)
  <2>1. y = Fail(x, "event queued twice")
    BY <1>2 DEF Raise, Item
  <2> QED BY <2>1, Sites, FailIs
<1>3. CASE ~ \E f \in Range(x.events) : SameItem(e, f)
  <2>1. y = [x EXCEPT !.events = Append(x.events, e)]
    BY <1>3 DEF Raise, Item
  <2>2. x.events \in Seq(Events) /\ Append(x.events, e) \in Seq(Events)
    BY <1>1, Has, AppendProperties
  <2>3. y \in World
    BY <2>1, <2>2, Put
  <2>4. /\ y.failed = x.failed /\ SameEp(x, y) /\ SameParts(x, y)
        /\ y.tmr = x.tmr /\ y.tasks = x.tasks /\ y.copy = x.copy
        /\ y.events = Append(x.events, e)
    BY <2>1, <2>2, EventsPut DEF SameEp, SameParts
  <2>5. \A i \in 1..Len(x.events) : ~SameItem(e, x.events[i])
    BY <1>3, <2>2, LenProperties DEF Range
  <2>6. Distinct(x) => Distinct(y)
    BY <2>4, <2>5, <2>2, <1>1, AppendProperties, LenProperties DEF Distinct
  <2> QED BY <1>1, <2>3, <2>4, <2>5, <2>6
<1> QED BY <1>2, <1>3

(* worker.c: a task goes to the end of the worker's queue unless it is in  *)
(* line already.                                                           *)
LEMMA ExecuteIs ==
  ASSUME NEW x \in World, NEW kind, NEW on, [kind |-> kind, on |-> on] \in Tasks,
         NEW y, y = Execute(x, kind, on)
  PROVE  /\ y \in World
         /\ y.failed = Nil =>
              /\ x.failed = Nil /\ SameEp(x, y) /\ SameParts(x, y)
              /\ y.tmr = x.tmr /\ y.events = x.events /\ y.copy = x.copy
              /\ y.tasks = Append(x.tasks, [kind |-> kind, on |-> on])
<1> DEFINE t == [kind |-> kind, on |-> on]
<1>1. CASE t \in Range(x.tasks \o x.copy)
  <2>1. y = Fail(x, "task queued twice")
    BY <1>1 DEF Execute
  <2> QED BY <2>1, Sites, FailIs
<1>2. CASE t \notin Range(x.tasks \o x.copy)
  <2>1. y = [x EXCEPT !.tasks = Append(x.tasks, t)]
    BY <1>2 DEF Execute
  <2>2. Append(x.tasks, t) \in Seq(Tasks)
    BY Has, AppendProperties
  <2>3. y \in World
    BY <2>1, <2>2, Put, ZenonT(60)
  <2>4. /\ y.failed = x.failed /\ SameEp(x, y) /\ SameParts(x, y)
        /\ y.tmr = x.tmr /\ y.events = x.events /\ y.copy = x.copy
        /\ y.tasks = Append(x.tasks, t)
    BY <2>1, <2>2, TasksPut DEF SameEp, SameParts
  <2> QED BY <2>3, <2>4
<1> QED BY <1>1, <1>2

(* One usock is replaced, or one header exchange, session, pipe or timer.  *)
LEMMA UsPut ==
  ASSUME NEW x \in World, NEW u \in Socks, NEW r \in UsockRecs,
         NEW y, y = [x EXCEPT !.us = [x.us EXCEPT ![u] = r]]
  PROVE  /\ y \in World /\ y.failed = x.failed /\ SameEp(x, y)
         /\ y.us[u] = r /\ \A z \in Socks \ {u} : y.us[z] = x.us[z]
         /\ y.hdr = x.hdr /\ y.stcp = x.stcp /\ y.pipe = x.pipe /\ y.tmr = x.tmr
         /\ y.stat = x.stat /\ y.dns = x.dns /\ y.found = x.found /\ y.did = x.did
         /\ y.events = x.events /\ y.tasks = x.tasks /\ y.copy = x.copy
<1>1. [x.us EXCEPT ![u] = r] \in [Socks -> UsockRecs]
  BY Has
<1>2. y \in World
  BY <1>1, Put
<1>3. y.us = [x.us EXCEPT ![u] = r] /\ x.us \in [Socks -> UsockRecs]
  BY Has DEF World
<1> QED BY <1>2, <1>3, ZenonT(60) DEF World, SameEp

LEMMA HdrPut ==
  ASSUME NEW x \in World, NEW u \in Conns, NEW r \in HdrRecs,
         NEW y, y = [x EXCEPT !.hdr = [x.hdr EXCEPT ![u] = r]]
  PROVE  /\ y \in World /\ y.failed = x.failed /\ SameEp(x, y)
         /\ y.hdr[u] = r /\ \A z \in Conns \ {u} : y.hdr[z] = x.hdr[z]
         /\ y.us = x.us /\ y.stcp = x.stcp /\ y.pipe = x.pipe /\ y.tmr = x.tmr
         /\ y.stat = x.stat /\ y.dns = x.dns /\ y.found = x.found /\ y.did = x.did
         /\ y.events = x.events /\ y.tasks = x.tasks /\ y.copy = x.copy
<1>1. [x.hdr EXCEPT ![u] = r] \in [Conns -> HdrRecs]
  BY Has
<1>2. y \in World
  BY <1>1, Put
<1>3. y.hdr = [x.hdr EXCEPT ![u] = r] /\ x.hdr \in [Conns -> HdrRecs]
  BY Has DEF World
<1> QED BY <1>2, <1>3, ZenonT(60) DEF World, SameEp

LEMMA StcpPut ==
  ASSUME NEW x \in World, NEW u \in Conns, NEW r \in StcpRecs,
         NEW y, y = [x EXCEPT !.stcp = [x.stcp EXCEPT ![u] = r]]
  PROVE  /\ y \in World /\ y.failed = x.failed /\ SameEp(x, y)
         /\ y.stcp[u] = r /\ \A z \in Conns \ {u} : y.stcp[z] = x.stcp[z]
         /\ y.us = x.us /\ y.hdr = x.hdr /\ y.pipe = x.pipe /\ y.tmr = x.tmr
         /\ y.stat = x.stat /\ y.dns = x.dns /\ y.found = x.found /\ y.did = x.did
         /\ y.events = x.events /\ y.tasks = x.tasks /\ y.copy = x.copy
<1>1. [x.stcp EXCEPT ![u] = r] \in [Conns -> StcpRecs]
  BY Has
<1>2. y \in World
  BY <1>1, Put
<1>3. y.stcp = [x.stcp EXCEPT ![u] = r] /\ x.stcp \in [Conns -> StcpRecs]
  BY Has DEF World
<1> QED BY <1>2, <1>3, ZenonT(60) DEF World, SameEp

LEMMA PipePut ==
  ASSUME NEW x \in World, NEW u \in Conns, NEW r \in PipeRecs,
         NEW y, y = [x EXCEPT !.pipe = [x.pipe EXCEPT ![u] = r]]
  PROVE  /\ y \in World /\ y.failed = x.failed /\ SameEp(x, y)
         /\ y.pipe[u] = r /\ \A z \in Conns \ {u} : y.pipe[z] = x.pipe[z]
         /\ y.us = x.us /\ y.hdr = x.hdr /\ y.stcp = x.stcp /\ y.tmr = x.tmr
         /\ y.stat = x.stat /\ y.dns = x.dns /\ y.found = x.found /\ y.did = x.did
         /\ y.events = x.events /\ y.tasks = x.tasks /\ y.copy = x.copy
<1>1. [x.pipe EXCEPT ![u] = r] \in [Conns -> PipeRecs]
  BY Has
<1>2. y \in World
  BY <1>1, Put
<1>3. y.pipe = [x.pipe EXCEPT ![u] = r] /\ x.pipe \in [Conns -> PipeRecs]
  BY Has DEF World
<1> QED BY <1>2, <1>3, ZenonT(60) DEF World, SameEp

LEMMA TmrPut ==
  ASSUME NEW x \in World, NEW u \in Timers, NEW r \in TimerRecs,
         NEW y, y = [x EXCEPT !.tmr = [x.tmr EXCEPT ![u] = r]]
  PROVE  /\ y \in World /\ y.failed = x.failed /\ SameEp(x, y) /\ SameParts(x, y)
         /\ y.tmr[u] = r /\ \A z \in Timers \ {u} : y.tmr[z] = x.tmr[z]
         /\ y.events = x.events /\ y.tasks = x.tasks /\ y.copy = x.copy
<1>1. [x.tmr EXCEPT ![u] = r] \in [Timers -> TimerRecs]
  BY Has
<1>2. y \in World
  BY <1>1, Put
<1>3. y.tmr = [x.tmr EXCEPT ![u] = r] /\ x.tmr \in [Timers -> TimerRecs]
  BY Has DEF World
<1> QED BY <1>2, <1>3 DEF World, SameEp, SameParts

LEMMA StatPut ==
  ASSUME NEW x \in World, NEW n \in Stats, NEW k \in Int,
         NEW y, y = StatIncrement(x, n, k)
  PROVE  /\ y \in World
         /\ y.failed = Nil =>
              /\ x.failed = Nil /\ SameEp(x, y)
              /\ y.stat[n] = x.stat[n] + k /\ \A m \in Stats \ {n} : y.stat[m] = x.stat[m]
              /\ y.us = x.us /\ y.hdr = x.hdr /\ y.stcp = x.stcp /\ y.pipe = x.pipe
              /\ y.tmr = x.tmr /\ y.dns = x.dns /\ y.found = x.found /\ y.did = x.did
              /\ y.events = x.events /\ y.tasks = x.tasks /\ y.copy = x.copy
<1>1. CASE n # "alive" /\ x.stat[n] + k < 0
  <2>1. y = Fail(x, "statistics")
    BY <1>1 DEF StatIncrement
  <2> QED BY <2>1, Sites, FailIs
<1>2. CASE ~(n # "alive" /\ x.stat[n] + k < 0)
  <2>1. y = [x EXCEPT !.stat = [x.stat EXCEPT ![n] = x.stat[n] + k]]
    BY <1>2 DEF StatIncrement
  <2>2. x.stat \in [Stats -> Int] /\ x.stat[n] + k \in Int
    BY Has
  <2>3. [x.stat EXCEPT ![n] = x.stat[n] + k] \in [Stats -> Int]
    BY <2>2
  <2>4. \A m \in Stats : [x.stat EXCEPT ![n] = x.stat[n] + k][m]
                             = IF m = n THEN x.stat[n] + k ELSE x.stat[m]
    BY <2>2
  <2>5. y \in World
    BY <2>1, <2>3, StatsPut
  <2>6. /\ y.failed = x.failed /\ y.stat = [x.stat EXCEPT ![n] = x.stat[n] + k]
        /\ y.us = x.us /\ y.hdr = x.hdr /\ y.stcp = x.stcp /\ y.pipe = x.pipe
        /\ y.tmr = x.tmr /\ y.dns = x.dns /\ y.found = x.found /\ y.did = x.did
        /\ y.events = x.events /\ y.tasks = x.tasks /\ y.copy = x.copy
    BY <2>1, <2>3, StatsPut
  <2>7. SameEp(x, y)
    BY <2>1, <2>3, StatsPut
  <2> QED BY <2>4, <2>5, <2>6, <2>7
<1> QED BY <1>1, <1>2


(***************************************************************************)
(* Primitive operations as steps of a session.                             *)
(***************************************************************************)
Calm(x, y, c) ==    \* no step of the session itself
    /\ y.stcp[c].st = x.stcp[c].st /\ y.pipe[c].st = x.pipe[c].st
    /\ \A i \in New(x.events, y.events) : y.events[i].src # "STCP"
Below(x, y, c) == Sess(x, y, c) /\ (y.failed = Nil => Calm(x, y, c))
UsOp(x, y, c) ==
    /\ Below(x, y, c)
    /\ y.failed = Nil => y.hdr[c] = x.hdr[c] /\ y.us[c].owner = x.us[c].owner

(* Calm steps and operations of the usock compose.                         *)
LEMMA CalmTrans ==
  ASSUME NEW x \in World, NEW y, NEW z, NEW c \in Conns, Below(x, y, c), Below(y, z, c)
  PROVE  Below(x, z, c)
<1>1. Sess(x, z, c)
  BY SessTrans DEF Below
<1>2. ASSUME z.failed = Nil PROVE Calm(x, z, c)
  <2>1. y \in World /\ z \in World /\ Queues(x, y, c) /\ Queues(y, z, c)
        /\ Calm(x, y, c) /\ Calm(y, z, c)
    BY <1>2 DEF Below, Sess
  <2>2. \A i \in New(x.events, z.events) :
          (i \in New(x.events, y.events) /\ z.events[i] = y.events[i]) \/ i \in New(y.events, z.events)
    BY <2>1, Has, GrowsTrans DEF Queues
  <2> QED BY <2>1, <2>2 DEF Calm
<1> QED BY <1>1, <1>2 DEF Below

LEMMA UsOpTrans ==
  ASSUME NEW x \in World, NEW y, NEW z, NEW c \in Conns, UsOp(x, y, c), UsOp(y, z, c)
  PROVE  UsOp(x, z, c)
<1>1. Below(x, z, c)
  BY CalmTrans DEF UsOp
<1>2. z.failed = Nil => y.failed = Nil
  BY DEF UsOp, Below, Sess
<1> QED BY <1>1, <1>2 DEF UsOp

LEMMA UsOpSame ==
  ASSUME NEW x \in World, NEW c \in Conns
  PROVE  UsOp(x, x, c) /\ Below(x, x, c)
<1>1. New(x.events, x.events) = {}
  BY Has, GrowsSame
<1> QED BY <1>1, SessSame DEF UsOp, Below, Calm

LEMMA QueuesSame ==
  ASSUME NEW x \in World, NEW y, y.events = x.events, y.tasks = x.tasks, y.copy = x.copy,
         NEW c
  PROVE  Queues(x, y, c) /\ New(x.events, y.events) = {}
<1>1. Grows(x.events, y.events) /\ Grows(x.tasks, y.tasks)
      /\ New(x.events, y.events) = {} /\ New(x.tasks, y.tasks) = {}
  BY Has, GrowsSame
<1> QED BY <1>1 DEF Queues, Distinct

LEMMA FailOp ==
  ASSUME NEW x \in World, NEW s \in Failures \ {Nil}, NEW c \in Conns
  PROVE  UsOp(x, Fail(x, s), c)
BY FailIs DEF UsOp, Below, Sess

LEMMA UsStepIs ==
  ASSUME NEW a, NEW b, b.asock = a.asock, b.st = a.st
  PROVE  UsStep(a, b)
BY DEF UsStep

(* One record of the connection is replaced, an event raised or a task     *)
(* queued by an operation below the session.                               *)
LEMMA UsSet ==
  ASSUME NEW x \in World, NEW c \in Conns, NEW r \in UsockRecs, UsStep(x.us[c], r),
         NEW y, y = [x EXCEPT !.us = [x.us EXCEPT ![c] = r]]
  PROVE  /\ Below(x, y, c) /\ y.failed = x.failed /\ y.us[c] = r /\ y.hdr[c] = x.hdr[c]
         /\ r.owner = x.us[c].owner => UsOp(x, y, c)
         /\ y.events = x.events /\ y.tasks = x.tasks
<1>1. c \in Socks
  BY Names
<1>2. y \in World /\ SameEp(x, y)
  BY <1>1, UsPut
<1>3. /\ y.failed = x.failed
      /\ y.us[c] = r /\ y.hdr = x.hdr /\ y.stcp = x.stcp /\ y.pipe = x.pipe
      /\ y.stat = x.stat /\ y.events = x.events /\ y.tasks = x.tasks /\ y.copy = x.copy
  BY <1>1, UsPut DEF World
<1>4. \A z \in Socks \ {c} : y.us[z] = x.us[z]
  BY <1>1, UsPut
<1>5. SameOthers(x, y, c) /\ SameStats(x, y, c) /\ UsStep(x.us[c], y.us[c])
  BY <1>3, <1>4 DEF SameOthers, SameStats, Piped
<1>6. Queues(x, y, c) /\ New(x.events, y.events) = {}
  BY <1>3, QueuesSame
<1> QED BY <1>2, <1>3, <1>5, <1>6 DEF Below, Calm, UsOp, Sess

LEMMA HdrSet ==
  ASSUME NEW x \in World, NEW c \in Conns, NEW r \in HdrRecs,
         NEW y, y = [x EXCEPT !.hdr = [x.hdr EXCEPT ![c] = r]]
  PROVE  /\ Below(x, y, c) /\ y.failed = x.failed /\ y.us[c] = x.us[c] /\ y.hdr[c] = r
         /\ y.events = x.events /\ y.tasks = x.tasks
<1>1. c \in Socks
  BY Names
<1>2. y \in World /\ SameEp(x, y)
  BY HdrPut
<1>3. /\ y.failed = x.failed
      /\ y.us = x.us /\ y.hdr[c] = r /\ y.stcp = x.stcp /\ y.pipe = x.pipe
      /\ y.stat = x.stat /\ y.events = x.events /\ y.tasks = x.tasks /\ y.copy = x.copy
  BY HdrPut DEF World
<1>4. \A z \in Conns \ {c} : y.hdr[z] = x.hdr[z]
  BY HdrPut
<1>5. SameOthers(x, y, c) /\ SameStats(x, y, c) /\ UsStep(x.us[c], y.us[c])
  BY <1>3, <1>4 DEF SameOthers, SameStats, Piped, UsStep
<1>6. Queues(x, y, c) /\ New(x.events, y.events) = {}
  BY <1>3, QueuesSame
<1> QED BY <1>2, <1>3, <1>5, <1>6 DEF Below, Calm, Sess

LEMMA StcpSet ==
  ASSUME NEW x \in World, NEW c \in Conns, NEW r \in StcpRecs,
         NEW y, y = [x EXCEPT !.stcp = [x.stcp EXCEPT ![c] = r]]
  PROVE  /\ Sess(x, y, c) /\ y.failed = x.failed /\ y.us[c] = x.us[c] /\ y.hdr[c] = x.hdr[c]
         /\ y.stcp[c] = r /\ y.pipe[c] = x.pipe[c] /\ y.events = x.events /\ y.tasks = x.tasks
<1>1. c \in Socks
  BY Names
<1>2. y \in World /\ SameEp(x, y)
  BY StcpPut
<1>3. /\ y.failed = x.failed
      /\ y.us = x.us /\ y.hdr = x.hdr /\ y.stcp[c] = r /\ y.pipe = x.pipe
      /\ y.stat = x.stat /\ y.events = x.events /\ y.tasks = x.tasks /\ y.copy = x.copy
  BY StcpPut DEF World
<1>4. \A z \in Conns \ {c} : y.stcp[z] = x.stcp[z]
  BY StcpPut
<1>5. SameOthers(x, y, c) /\ SameStats(x, y, c) /\ UsStep(x.us[c], y.us[c])
  BY <1>3, <1>4 DEF SameOthers, SameStats, Piped, UsStep
<1>6. Queues(x, y, c)
  BY <1>3, QueuesSame
<1> QED BY <1>2, <1>3, <1>5, <1>6 DEF Sess

LEMMA TmrSet ==
  ASSUME NEW x \in World, NEW c \in Conns, NEW t \in Timers, NEW r \in TimerRecs,
         NEW y, y = [x EXCEPT !.tmr = [x.tmr EXCEPT ![t] = r]]
  PROVE  UsOp(x, y, c) /\ y.failed = x.failed /\ y.us = x.us
<1>2. y \in World /\ SameEp(x, y) /\ SameParts(x, y)
  BY TmrPut
<1>3. y.failed = x.failed /\ y.events = x.events /\ y.tasks = x.tasks /\ y.copy = x.copy
  BY TmrPut
<1>5. SameOthers(x, y, c) /\ SameStats(x, y, c) /\ UsStep(x.us[c], y.us[c])
  BY <1>2 DEF SameOthers, SameStats, Piped, SameParts, UsStep
<1>6. Queues(x, y, c) /\ New(x.events, y.events) = {}
  BY <1>3, QueuesSame
<1>7. y.us = x.us /\ y.hdr = x.hdr /\ y.stcp = x.stcp /\ y.pipe = x.pipe
  BY <1>2 DEF SameParts
<1> QED BY <1>2, <1>3, <1>5, <1>6, <1>7 DEF UsOp, Below, Calm, Sess

LEMMA RaiseOp ==
  ASSUME NEW x \in World, NEW c \in Conns, NEW o \in Owners, NEW type \in SessTypes,
         SessEvent(x, Item(o, c, type), c), NEW y, y = Raise(x, o, c, type)
  PROVE  /\ Sess(x, y, c) /\ (o.src # "STCP" => UsOp(x, y, c))
         /\ y.failed = Nil =>
              /\ y.us = x.us /\ y.hdr = x.hdr /\ y.stcp = x.stcp /\ y.pipe = x.pipe
              /\ y.tasks = x.tasks /\ y.events = Append(x.events, Item(o, c, type))
<1>1. c \in Ptrs /\ type \in EventTypes
  BY Names DEF SessTypes
<1>2. y \in World
  BY <1>1, RaiseIs
<1>3. CASE y.failed # Nil
  BY <1>2, <1>3 DEF Sess, UsOp, Below
<1>4. CASE y.failed = Nil
  <2>1. /\ x.failed = Nil /\ y.tasks = x.tasks /\ y.copy = x.copy
        /\ y.events = Append(x.events, Item(o, c, type)) /\ Item(o, c, type) \in Events
    BY <1>1, <1>4, RaiseIs
  <2>2. SameEp(x, y) /\ SameParts(x, y) /\ (Distinct(x) => Distinct(y))
    BY <1>1, <1>4, RaiseIs
  <2>3. SameOthers(x, y, c) /\ SameStats(x, y, c) /\ UsStep(x.us[c], y.us[c])
    BY <2>2 DEF SameOthers, SameStats, Piped, SameParts, UsStep
  <2>4. /\ Grows(x.events, y.events) /\ Grows(x.tasks, y.tasks) /\ New(x.tasks, y.tasks) = {}
        /\ \A i \in New(x.events, y.events) : y.events[i] = Item(o, c, type)
    BY <2>1, Has, GrowsOne, GrowsSame
  <2>5. SessEvent(y, Item(o, c, type), c)
    BY <2>2 DEF SameEp, SessEvent, End
  <2>6. Queues(x, y, c)
    BY <2>1, <2>2, <2>4, <2>5 DEF Queues
  <2>7. Sess(x, y, c)
    BY <1>2, <2>1, <2>2, <2>3, <2>6 DEF Sess
  <2>8. o.src # "STCP" => Calm(x, y, c)
    BY <2>2, <2>4 DEF Calm, SameParts, Item
  <2> QED BY <2>1, <2>2, <2>7, <2>8 DEF UsOp, Below, SameParts
<1> QED BY <1>3, <1>4

LEMMA TaskOp ==
  ASSUME NEW x \in World, NEW c \in Conns, NEW kind \in TimerKinds \cup UsockKinds,
         NEW y, y = Execute(x, kind, c)
  PROVE  /\ UsOp(x, y, c)
         /\ y.failed = Nil => y.us = x.us /\ y.hdr = x.hdr /\ y.events = x.events
<1>1. [kind |-> kind, on |-> c] \in Tasks
  BY Names DEF Tasks
<1>2. y \in World
  BY <1>1, ExecuteIs
<1>3. CASE y.failed # Nil
  BY <1>2, <1>3 DEF Sess, UsOp, Below
<1>4. CASE y.failed = Nil
  <2>1. /\ x.failed = Nil /\ y.events = x.events /\ y.copy = x.copy
        /\ y.tasks = Append(x.tasks, [kind |-> kind, on |-> c])
    BY <1>1, <1>4, ExecuteIs
  <2>2. SameEp(x, y) /\ SameParts(x, y)
    BY <1>1, <1>4, ExecuteIs
  <2>3. SameOthers(x, y, c) /\ SameStats(x, y, c) /\ UsStep(x.us[c], y.us[c])
    BY <2>2 DEF SameOthers, SameStats, Piped, SameParts, UsStep
  <2>4. /\ Grows(x.events, y.events) /\ Grows(x.tasks, y.tasks) /\ New(x.events, y.events) = {}
        /\ \A i \in New(x.tasks, y.tasks) : y.tasks[i].on = c
    BY <2>1, <1>1, Has, GrowsOne, GrowsSame
  <2>6. Queues(x, y, c)
    BY <2>1, <2>4 DEF Queues, Distinct
  <2>7. Sess(x, y, c)
    BY <1>2, <2>1, <2>2, <2>3, <2>6 DEF Sess
  <2>8. Calm(x, y, c)
    BY <2>2, <2>4 DEF Calm, SameParts
  <2> QED BY <2>1, <2>2, <2>7, <2>8 DEF UsOp, Below, SameParts
<1> QED BY <1>3, <1>4


(***************************************************************************)
(* Calls on the usock of a connection.                                     *)
(***************************************************************************)
Movable(x, c) == x.failed = Nil => x.us[c].st \notin Fresh
Settable == UsockStates \ (Listened \cup {"BEING_ACCEPTED"})

LEMMA UsRec ==
  ASSUME NEW x \in World, NEW u \in Socks
  PROVE  /\ x.us[u] \in UsockRecs /\ x.us[u].st \in UsockStates
         /\ x.us[u].owner \in UsOwners /\ x.us[u].asock \in Socks \cup {Nil}
         /\ x.us[u].open \in BOOLEAN /\ x.us[u].reg \in BOOLEAN /\ x.us[u].in \in BOOLEAN
<1>1. x.us[u] \in UsockRecs
  BY Has
<1> QED BY <1>1 DEF UsockRecs

(* A record of the same state, owner and partner.                          *)
Like(r, s) ==
    r \in UsockRecs /\ r.st = s.st /\ r.asock = s.asock /\ r.owner = s.owner

LEMMA LikeIs ==
  ASSUME NEW s \in UsockRecs, NEW b \in BOOLEAN
  PROVE  /\ Like([s EXCEPT !.open = b], s) /\ Like([s EXCEPT !.reg = b], s)
         /\ Like([s EXCEPT !.in = b], s) /\ Like([s EXCEPT !.out = b], s)
         /\ Like([s EXCEPT !.errnum = b], s)
         /\ Like([s EXCEPT !.reg = TRUE, !.in = FALSE, !.out = FALSE], s)
BY DEF UsockRecs, Like

(* A flag of the usock changes.                                            *)
Flagged(x, y, c) ==
    /\ UsOp(x, y, c) /\ y.failed = x.failed /\ y.us[c].st = x.us[c].st
    /\ y.events = x.events /\ y.tasks = x.tasks

LEMMA FlagOps ==
  ASSUME NEW x \in World, NEW c \in Conns, NEW b \in BOOLEAN
  PROVE  /\ Flagged(x, PollerAdd(x, c), c)
         /\ Flagged(x, PollerRm(x, c), c)
         /\ Flagged(x, PollerIn(x, c, b), c)
         /\ Flagged(x, PollerOut(x, c, b), c)
         /\ Flagged(x, CloseFd(x, c), c)
         /\ Flagged(x, [x EXCEPT !.us[c].open = b], c)
         /\ Flagged(x, [x EXCEPT !.us[c].errnum = b], c)
<1>1. c \in Socks /\ x.us[c] \in UsockRecs
  BY Names, UsRec
<1>2. ASSUME NEW r, Like(r, x.us[c]), NEW y, y = [x EXCEPT !.us = [x.us EXCEPT ![c] = r]]
      PROVE  Flagged(x, y, c)
  <2>1. r \in UsockRecs /\ r.st = x.us[c].st /\ r.owner = x.us[c].owner /\ UsStep(x.us[c], r)
    BY <1>2, UsStepIs DEF Like
  <2>2. y.us = [x.us EXCEPT ![c] = r] /\ x.us \in [Socks -> UsockRecs]
    BY <1>2, Has DEF World
  <2>4. y.us[c] = r
    BY <1>1, <2>2
  <2>5. y.failed = x.failed /\ y.events = x.events /\ y.tasks = x.tasks
    BY <1>2 DEF World
  <2>3. UsOp(x, y, c)
    BY <1>2, <2>1, UsSet
  <2> QED BY <2>1, <2>3, <2>4, <2>5 DEF Flagged
<1>3. Flagged(x, PollerAdd(x, c), c)
  <2> DEFINE r == [x.us[c] EXCEPT !.reg = TRUE, !.in = FALSE, !.out = FALSE]
  <2>1. PollerAdd(x, c) = [x EXCEPT !.us = [x.us EXCEPT ![c] = r]]
    BY <1>1, Has DEF PollerAdd
  <2>2. Like(r, x.us[c])
    BY <1>1, LikeIs
  <2> QED BY <1>2, <2>1, <2>2
<1>4. Flagged(x, PollerRm(x, c), c)
  <2> DEFINE r == [x.us[c] EXCEPT !.reg = FALSE]
  <2>1. PollerRm(x, c) = [x EXCEPT !.us = [x.us EXCEPT ![c] = r]]
    BY DEF PollerRm
  <2>2. Like(r, x.us[c])
    BY <1>1, LikeIs
  <2> QED BY <1>2, <2>1, <2>2
<1>5. Flagged(x, PollerIn(x, c, b), c)
  <2> DEFINE r == [x.us[c] EXCEPT !.in = b]
  <2>1. PollerIn(x, c, b) = [x EXCEPT !.us = [x.us EXCEPT ![c] = r]]
    BY DEF PollerIn
  <2>2. Like(r, x.us[c])
    BY <1>1, LikeIs
  <2> QED BY <1>2, <2>1, <2>2
<1>6. Flagged(x, PollerOut(x, c, b), c)
  <2> DEFINE r == [x.us[c] EXCEPT !.out = b]
  <2>1. PollerOut(x, c, b) = [x EXCEPT !.us = [x.us EXCEPT ![c] = r]]
    BY DEF PollerOut
  <2>2. Like(r, x.us[c])
    BY <1>1, LikeIs
  <2> QED BY <1>2, <2>1, <2>2
<1>7. Flagged(x, CloseFd(x, c), c)
  <2> DEFINE r == [x.us[c] EXCEPT !.open = FALSE]
  <2>1. CloseFd(x, c) = [x EXCEPT !.us = [x.us EXCEPT ![c] = r]]
    BY DEF CloseFd
  <2>2. Like(r, x.us[c])
    BY <1>1, LikeIs
  <2> QED BY <1>2, <2>1, <2>2
<1>8. Flagged(x, [x EXCEPT !.us[c].open = b], c)
  <2> DEFINE r == [x.us[c] EXCEPT !.open = b]
  <2>1. [x EXCEPT !.us[c].open = b] = [x EXCEPT !.us = [x.us EXCEPT ![c] = r]]
    BY Has
  <2>2. Like(r, x.us[c])
    BY <1>1, LikeIs
  <2> QED BY <1>2, <2>1, <2>2
<1>9. Flagged(x, [x EXCEPT !.us[c].errnum = b], c)
  <2> DEFINE r == [x.us[c] EXCEPT !.errnum = b]
  <2>1. [x EXCEPT !.us[c].errnum = b] = [x EXCEPT !.us = [x.us EXCEPT ![c] = r]]
    BY Has
  <2>2. Like(r, x.us[c])
    BY <1>1, LikeIs
  <2> QED BY <1>2, <2>1, <2>2
<1> QED BY <1>3, <1>4, <1>5, <1>6, <1>7, <1>8, <1>9

LEMMA FlaggedIs ==
  ASSUME NEW x \in World, NEW c \in Conns, NEW y, Flagged(x, y, c)
  PROVE  /\ y \in World /\ UsOp(x, y, c) /\ y.failed = x.failed
         /\ y.us[c].st = x.us[c].st
         /\ (Movable(x, c) => Movable(y, c))
BY DEF Flagged, UsOp, Below, Sess, Movable

(* The usock of a connection goes from one state to another, raises an     *)
(* event or queues a task.                                                 *)
LEMMA MoveOp ==
  ASSUME NEW x \in World, NEW c \in Conns, NEW st \in Settable, Movable(x, c),
         NEW y, y = UsockMove(x, c, st)
  PROVE  /\ y \in World /\ UsOp(x, y, c) /\ y.failed = x.failed /\ y.us[c].st = st
         /\ y.events = x.events
<1> DEFINE r == [x.us[c] EXCEPT !.st = st]
<1>1. c \in Socks /\ st \in UsockStates
  BY Names DEF Settable
<1>2. y = [x EXCEPT !.us = [x.us EXCEPT ![c] = r]]
  BY DEF UsockMove
<1>3. r \in UsockRecs /\ r.st = st /\ r.asock = x.us[c].asock /\ r.owner = x.us[c].owner
  BY <1>1, UsRec DEF UsockRecs
<1>4. y \in World /\ y.failed = x.failed /\ y.us[c] = r
  <2>1. y \in World
    BY <1>1, <1>2, <1>3, UsPut
  <2>2. y.us = [x.us EXCEPT ![c] = r] /\ x.us \in [Socks -> UsockRecs]
    BY <1>2, Has DEF World
  <2>3. y.failed = x.failed
    BY <1>2 DEF World
  <2> QED BY <1>1, <2>1, <2>2, <2>3
<1>5. y.events = x.events
  BY <1>2 DEF World
<1>6. CASE x.failed # Nil
  BY <1>3, <1>4, <1>5, <1>6 DEF UsOp, Below, Sess
<1>7. CASE x.failed = Nil
  <2>1. UsStep(x.us[c], r)
    BY <1>3, <1>7 DEF UsStep, Movable, Settable
  <2> QED BY <1>2, <1>3, <1>4, <1>5, <2>1, UsSet
<1> QED BY <1>6, <1>7

LEMMA UsockRaiseOp ==
  ASSUME NEW x \in World, NEW c \in Conns, NEW type \in SessTypes,
         NEW y, y = UsockRaise(x, c, type)
  PROVE  y \in World /\ UsOp(x, y, c) /\ (y.failed = Nil => y.us[c].st = x.us[c].st)
<1> DEFINE o == x.us[c].owner
<1>1. o \in UsOwners
  BY Names, UsRec
<1>2. o \in Owners /\ o.src \in {"USOCK", "LISTENER"}
  BY <1>1 DEF UsOwners, Owners, Sources
<1>3. SessEvent(x, Item(o, c, type), c)
  BY <1>2 DEF SessEvent, Item, SessTypes
<1>4. y = Raise(x, o, c, type)
  BY DEF UsockRaise
<1>5. UsOp(x, y, c) /\ (y.failed = Nil => y.us = x.us)
  BY <1>2, <1>3, <1>4, RaiseOp
<1> QED BY <1>5 DEF UsOp, Below, Sess

LEMMA TaskOpIs ==
  ASSUME NEW x \in World, NEW c \in Conns, NEW kind \in TimerKinds \cup UsockKinds,
         NEW y, y = Execute(x, kind, c)
  PROVE  y \in World /\ UsOp(x, y, c) /\ (y.failed = Nil => y.us[c].st = x.us[c].st)
         /\ (Movable(x, c) => Movable(y, c))
<1>1. UsOp(x, y, c) /\ (y.failed = Nil => y.us = x.us)
  BY TaskOp
<1> QED BY <1>1 DEF UsOp, Below, Sess, Movable

(* usock.c: the stop of a usock, at once or by a task of the worker, and   *)
(* its end after a failure.                                                *)
LEMMA AsyncStopOp ==
  ASSUME NEW x \in World, NEW c \in Conns, NEW y, y = AsyncStop(x, c)
  PROVE  y \in World /\ UsOp(x, y, c) /\ (Movable(x, c) => Movable(y, c))
<1> DEFINE a == Execute(x, "stop", c)
<1>1. a \in World /\ UsOp(x, a, c) /\ (a.failed = Nil => a.us[c].st = x.us[c].st)
  BY TaskOpIs DEF UsockKinds
<1>2. y = UsockRaise(a, c, "SHUTDOWN")
  BY DEF AsyncStop
<1>3. y \in World /\ UsOp(a, y, c) /\ (y.failed = Nil => y.us[c].st = a.us[c].st)
  BY <1>1, <1>2, UsockRaiseOp DEF SessTypes, EventTypes
<1>4. UsOp(x, y, c)
  BY <1>1, <1>3, UsOpTrans
<1>5. y.failed = Nil => a.failed = Nil /\ x.failed = Nil
  BY <1>1, <1>3 DEF UsOp, Below, Sess
<1> QED BY <1>1, <1>3, <1>4, <1>5 DEF Movable

LEMMA UsockStoppedOp ==
  ASSUME NEW x \in World, NEW c \in Conns, Movable(x, c), NEW y, y = UsockStopped(x, c)
  PROVE  y \in World /\ UsOp(x, y, c)
<1> DEFINE a == UsockMove(x, c, "IDLE")
<1>1. a \in World /\ UsOp(x, a, c)
  BY MoveOp DEF Settable, UsockStates, Listened
<1>2. y = UsockRaise(a, c, "STOPPED")
  BY DEF UsockStopped
<1>3. y \in World /\ UsOp(a, y, c)
  BY <1>1, <1>2, UsockRaiseOp DEF SessTypes, EventTypes
<1> QED BY <1>1, <1>3, UsOpTrans

LEMMA UsockLostOp ==
  ASSUME NEW x \in World, NEW c \in Conns, Movable(x, c), NEW y, y = UsockLost(x, c)
  PROVE  y \in World /\ UsOp(x, y, c)
<1> DEFINE a == PollerRm(x, c)
           b == CloseFd(a, c)
           d == UsockMove(b, c, "DONE")
<1>1. a \in World /\ UsOp(x, a, c) /\ Movable(a, c)
  BY FlagOps, FlaggedIs
<1>2. b \in World /\ UsOp(a, b, c) /\ Movable(b, c)
  BY <1>1, FlagOps, FlaggedIs
<1>3. d \in World /\ UsOp(b, d, c)
  BY <1>2, MoveOp DEF Settable, UsockStates, Listened
<1>4. y \in World /\ UsOp(d, y, c)
  BY <1>3, UsockRaiseOp DEF UsockLost, SessTypes, EventTypes
<1>5. UsOp(x, b, c)
  BY <1>1, <1>2, UsOpTrans
<1>6. UsOp(x, d, c)
  BY <1>3, <1>5, UsOpTrans
<1> QED BY <1>4, <1>6, UsOpTrans

LEMMA UsockBrokenOp ==
  ASSUME NEW x \in World, NEW c \in Conns, Movable(x, c), NEW y, y = UsockBroken(x, c)
  PROVE  y \in World /\ UsOp(x, y, c)
<1> DEFINE a == UsockMove(x, c, "REMOVING_FD")
<1>1. a \in World /\ UsOp(x, a, c)
  BY MoveOp DEF Settable, UsockStates, Listened
<1>2. y \in World /\ UsOp(a, y, c)
  BY <1>1, AsyncStopOp DEF UsockBroken
<1> QED BY <1>1, <1>2, UsOpTrans

Stoppable(x, c) == x.us[c].st \notin Listened \cup {"BEING_ACCEPTED"}

LEMMA UsockStopOp ==
  ASSUME NEW x \in World, NEW c \in Conns, Stoppable(x, c), NEW y, y = UsockStop(x, c)
  PROVE  y \in World /\ UsOp(x, y, c)
<1> DEFINE v == [x EXCEPT !.us[c].errnum = FALSE]
           st == x.us[c].st
<1>0. Flagged(x, v, c)
  BY FlagOps
<1>1. v \in World /\ UsOp(x, v, c) /\ v.failed = x.failed /\ v.us[c].st = st
  BY <1>0, FlaggedIs
<1>2. CASE st \in {"IDLE", "STOPPING", "STOPPING_ACCEPT"}
  BY <1>2, UsOpSame DEF UsockStop
<1>3. CASE st \in {"ACCEPTING", "CANCELLING"}
  <2>1. y = Fail(x, "usock: accepting")
    BY <1>3 DEF UsockStop
  <2> QED BY <2>1, FailOp, FailIs, Sites
<1>4. CASE st = "DONE"
  <2>1. y = UsockStopped(v, c)
    BY <1>4 DEF UsockStop
  <2>2. Movable(v, c)
    BY <1>1, <1>4 DEF Movable, Fresh
  <2>3. y \in World /\ UsOp(v, y, c)
    BY <1>1, <2>1, <2>2, UsockStoppedOp
  <2> QED BY <1>1, <2>3, UsOpTrans
<1>5. CASE st \in {"STARTING", "ACCEPTED", "ACCEPTING_ERROR", "LISTENING"}
  <2>1. y = UsockStopped(CloseFd(v, c), c)
    BY <1>5 DEF UsockStop
  <2>2. Movable(v, c)
    BY <1>1, <1>5 DEF Movable, Fresh
  <2>3. CloseFd(v, c) \in World /\ UsOp(v, CloseFd(v, c), c) /\ Movable(CloseFd(v, c), c)
    <3>1. Flagged(v, CloseFd(v, c), c)
      BY <1>1, FlagOps
    <3> QED BY <1>1, <2>2, <3>1, FlaggedIs
  <2>4. y \in World /\ UsOp(CloseFd(v, c), y, c)
    BY <2>1, <2>3, UsockStoppedOp
  <2>5. UsOp(x, CloseFd(v, c), c)
    BY <1>1, <2>3, UsOpTrans
  <2> QED BY <2>4, <2>5, UsOpTrans
<1>6. CASE st = "BEING_ACCEPTED"
  BY <1>6 DEF Stoppable
<1>7. CASE st \notin {"IDLE", "STOPPING", "STOPPING_ACCEPT", "ACCEPTING", "CANCELLING", "DONE",
                      "STARTING", "ACCEPTED", "ACCEPTING_ERROR", "LISTENING", "BEING_ACCEPTED"}
  <2> DEFINE a == IF st = "REMOVING_FD" THEN v ELSE AsyncStop(v, c)
  <2>1. y = UsockMove(a, c, "STOPPING")
    BY <1>7 DEF UsockStop
  <2>2. Movable(v, c)
    BY <1>1, <1>7 DEF Movable, Fresh
  <2>3. a \in World /\ UsOp(v, a, c) /\ Movable(a, c)
    BY <1>1, <2>2, UsOpSame, AsyncStopOp
  <2>4. y \in World /\ UsOp(a, y, c)
    BY <2>1, <2>3, MoveOp DEF Settable, UsockStates, Listened
  <2>5. UsOp(x, a, c)
    BY <1>1, <2>3, UsOpTrans
  <2> QED BY <2>4, <2>5, UsOpTrans
<1> QED BY <1>2, <1>3, <1>4, <1>5, <1>6, <1>7


LEMMA UsOpWorld ==
  ASSUME NEW x, NEW y, NEW c, UsOp(x, y, c)
  PROVE  y \in World
BY DEF UsOp, Below, Sess

(* usock.c: grid_usock_send, _recv, _connect and _activate.                *)
LEMMA AttemptOp ==
  ASSUME NEW x \in World, NEW c \in Conns, Movable(x, c),
         NEW o \in {"ALL", "ECONNRESET", "EAGAIN"}, NEW type \in SessTypes,
         NEW kind \in UsockKinds
  PROVE  UsOp(x, Attempt(x, c, o, type, kind), c)
<1>1. CASE o = "ALL"
  BY <1>1, UsockRaiseOp DEF Attempt
<1>2. CASE o = "ECONNRESET"
  BY <1>2, UsockBrokenOp DEF Attempt
<1>3. CASE o = "EAGAIN"
  BY <1>3, TaskOpIs DEF Attempt
<1> QED BY <1>1, <1>2, <1>3

LEMMA UsockSendOp ==
  ASSUME NEW x \in World, NEW c \in Conns, NEW y \in UsockSend(x, c)
  PROVE  UsOp(x, y, c)
<1>1. CASE x.us[c].st # "ACTIVE"
  BY <1>1, FailOp, Sites DEF UsockSend
<1>2. CASE x.us[c].st = "ACTIVE"
  <2>1. Movable(x, c)
    BY <1>2 DEF Movable, Fresh
  <2> QED BY <1>2, <2>1, AttemptOp DEF UsockSend, SendRaw, SessTypes, EventTypes, UsockKinds
<1> QED BY <1>1, <1>2

LEMMA UsockRecvOp ==
  ASSUME NEW x \in World, NEW c \in Conns, NEW y \in UsockRecv(x, c)
  PROVE  UsOp(x, y, c)
<1>1. CASE x.us[c].st # "ACTIVE"
  BY <1>1, FailOp, Sites DEF UsockRecv
<1>2. CASE x.us[c].st = "ACTIVE"
  <2>1. Movable(x, c)
    BY <1>2 DEF Movable, Fresh
  <2> QED BY <1>2, <2>1, AttemptOp DEF UsockRecv, RecvRaw, SessTypes, EventTypes, UsockKinds
<1> QED BY <1>1, <1>2

LEMMA UsockConnectOp ==
  ASSUME NEW x \in World, NEW c \in Conns, NEW y \in UsockConnect(x, c)
  PROVE  UsOp(x, y, c)
<1>1. CASE x.us[c].st # "STARTING"
  BY <1>1, FailOp, Sites DEF UsockConnect
<1>2. CASE x.us[c].st = "STARTING"
  <2>1. Movable(x, c)
    BY <1>2 DEF Movable, Fresh
  <2>2. CASE y = UsockConnected(x, c)
    <3> DEFINE a == UsockMove(x, c, "ACTIVE")
               b == Execute(a, "connected", c)
    <3>1. a \in World /\ UsOp(x, a, c)
      BY <2>1, MoveOp DEF Settable, UsockStates, Listened
    <3>2. b \in World /\ UsOp(a, b, c)
      BY <3>1, TaskOpIs DEF UsockKinds
    <3>3. UsOp(b, y, c)
      BY <2>2, <3>2, UsockRaiseOp DEF UsockConnected, SessTypes, EventTypes
    <3>4. UsOp(x, b, c)
      BY <3>1, <3>2, UsOpTrans
    <3> QED BY <3>3, <3>4, UsOpTrans
  <2>3. CASE y = UsockRaise(UsockMove(CloseFd(x, c), c, "DONE"), c, "ERROR")
    <3> DEFINE a == CloseFd(x, c)
               b == UsockMove(a, c, "DONE")
    <3>1. Flagged(x, a, c)
      BY FlagOps
    <3>2. a \in World /\ UsOp(x, a, c) /\ Movable(a, c)
      BY <2>1, <3>1, FlaggedIs
    <3>3. b \in World /\ UsOp(a, b, c)
      BY <3>2, MoveOp DEF Settable, UsockStates, Listened
    <3>4. UsOp(b, y, c)
      BY <2>3, <3>3, UsockRaiseOp DEF SessTypes, EventTypes
    <3>5. UsOp(x, b, c)
      BY <3>2, <3>3, UsOpTrans
    <3> QED BY <3>4, <3>5, UsOpTrans
  <2>4. CASE y = Execute(UsockMove(x, c, "CONNECTING"), "connecting", c)
    <3> DEFINE a == UsockMove(x, c, "CONNECTING")
    <3>1. a \in World /\ UsOp(x, a, c)
      BY <2>1, MoveOp DEF Settable, UsockStates, Listened
    <3>2. UsOp(a, y, c)
      BY <2>4, <3>1, TaskOpIs DEF UsockKinds
    <3> QED BY <3>1, <3>2, UsOpTrans
  <2> QED BY <1>2, <2>2, <2>3, <2>4 DEF UsockConnect
<1> QED BY <1>1, <1>2

LEMMA UsockActivateOp ==
  ASSUME NEW x \in World, NEW c \in Conns, NEW y, y = UsockActivate(x, c)
  PROVE  UsOp(x, y, c)
<1>1. CASE x.us[c].st # "ACCEPTED"
  BY <1>1, FailOp, Sites DEF UsockActivate
<1>2. CASE x.us[c].st = "ACCEPTED"
  <2> DEFINE a == PollerAdd(x, c)
  <2>1. Flagged(x, a, c)
    BY FlagOps
  <2>2. Movable(x, c)
    BY <1>2 DEF Movable, Fresh
  <2>3. a \in World /\ UsOp(x, a, c) /\ Movable(a, c)
    BY <2>1, <2>2, FlaggedIs
  <2>4. UsOp(a, y, c)
    BY <1>2, <2>3, MoveOp DEF UsockActivate, Settable, UsockStates, Listened
  <2> QED BY <2>3, <2>4, UsOpTrans
<1> QED BY <1>1, <1>2

(* The tasks of the worker and the events of the descriptor.               *)
LEMMA StopTaskOp ==
  ASSUME NEW x \in World, NEW c \in Conns, x.us[c].st # "CANCELLING",
         NEW y, y = StopTask(x, c)
  PROVE  UsOp(x, y, c)
<1>1. CASE x.us[c].st = "STOPPING"
  <2> DEFINE a == PollerRm(x, c)
             b == CloseFd(a, c)
  <2>0. Movable(x, c)
    BY <1>1 DEF Movable, Fresh
  <2>1. Flagged(x, a, c)
    BY FlagOps
  <2>2. a \in World /\ UsOp(x, a, c) /\ Movable(a, c)
    BY <2>0, <2>1, FlaggedIs
  <2>3. Flagged(a, b, c)
    BY <2>2, FlagOps
  <2>4. b \in World /\ UsOp(a, b, c) /\ Movable(b, c)
    BY <2>2, <2>3, FlaggedIs
  <2>5. y = UsockStopped(b, c)
    BY <1>1 DEF StopTask
  <2>6. UsOp(b, y, c)
    BY <2>4, <2>5, UsockStoppedOp
  <2>7. UsOp(x, b, c)
    BY <2>2, <2>4, UsOpTrans
  <2> QED BY <2>6, <2>7, UsOpTrans
<1>2. CASE x.us[c].st = "REMOVING_FD"
  <2>1. Movable(x, c)
    BY <1>2 DEF Movable, Fresh
  <2> QED BY <1>2, <2>1, UsockLostOp DEF StopTask
<1>3. CASE x.us[c].st \notin {"STOPPING", "REMOVING_FD"}
  BY <1>3, FailOp, Sites DEF StopTask
<1> QED BY <1>1, <1>2, <1>3

LEMMA UsockTaskOp ==
  ASSUME NEW x \in World, NEW c \in Conns, x.us[c].st # "CANCELLING", NEW kind \in UsockKinds,
         NEW y, y = UsockTask(x, kind, c)
  PROVE  UsOp(x, y, c)
<1>0. /\ Flagged(x, PollerOut(x, c, TRUE), c) /\ Flagged(x, PollerIn(x, c, TRUE), c)
      /\ Flagged(x, PollerAdd(x, c), c)
  BY FlagOps
<1>1. UsOp(x, PollerAdd(x, c), c) /\ PollerAdd(x, c) \in World
  BY <1>0, FlaggedIs
<1>2. /\ Flagged(PollerAdd(x, c), PollerOut(PollerAdd(x, c), c, TRUE), c)
      /\ Flagged(PollerAdd(x, c), PollerIn(PollerAdd(x, c), c, TRUE), c)
  BY <1>1, FlagOps
<1>3. UsOp(x, PollerOut(x, c, TRUE), c) /\ UsOp(x, PollerIn(x, c, TRUE), c)
  BY <1>0 DEF Flagged
<1>4. UsOp(x, PollerOut(PollerAdd(x, c), c, TRUE), c) /\ UsOp(x, PollerIn(PollerAdd(x, c), c, TRUE), c)
  BY <1>1, <1>2, UsOpTrans DEF Flagged
<1>5. CASE kind \in {"send", "recv", "connected", "connecting", "accept"}
  BY <1>1, <1>3, <1>4, <1>5 DEF UsockTask
<1>6. CASE kind = "stop"
  <2>1. y = StopTask(x, c)
    BY <1>6 DEF UsockTask
  <2> QED BY <2>1, StopTaskOp
<1> QED BY <1>5, <1>6 DEF UsockKinds

(* usock.c: the descriptor is readable, writable or broken.                *)
LEMMA FdOp ==
  ASSUME NEW x \in World, NEW c \in Conns, x.us[c].st \notin Listened,
         NEW y \in FdIn(x, c) \cup FdOut(x, c) \cup FdErr(x, c)
  PROVE  UsOp(x, y, c)
<1> DEFINE i == PollerIn(x, c, FALSE)
           o == PollerOut(x, c, FALSE)
<1>1. Flagged(x, i, c) /\ Flagged(x, o, c)
  BY FlagOps
<1>2. i \in World /\ UsOp(x, i, c) /\ o \in World /\ UsOp(x, o, c)
      /\ o.us[c].st = x.us[c].st
  BY <1>1, FlaggedIs
<1>3. CASE y = x
  BY <1>3, UsOpSame
<1>4. CASE y = UsockRaise(i, c, "RECEIVED")
  <2>1. UsOp(i, y, c)
    BY <1>2, <1>4, UsockRaiseOp DEF SessTypes, EventTypes
  <2> QED BY <1>2, <2>1, UsOpTrans
<1>5. CASE y = UsockRaise(o, c, "SENT")
  <2>1. UsOp(o, y, c)
    BY <1>2, <1>5, UsockRaiseOp DEF SessTypes, EventTypes
  <2> QED BY <1>2, <2>1, UsOpTrans
<1>6. CASE x.us[c].st \in {"ACTIVE", "CONNECTING"} /\ y \in {UsockLost(x, c)}
  <2>1. Movable(x, c)
    BY <1>6 DEF Movable, Fresh
  <2> QED BY <1>6, <2>1, UsockLostOp
<1>7. CASE x.us[c].st = "CONNECTING" /\ y \in ConnectEnds(o, c)
  <2> DEFINE a == UsockMove(o, c, "ACTIVE")
  <2>1. Movable(o, c)
    BY <1>2, <1>7 DEF Movable, Fresh
  <2>2. a \in World /\ UsOp(o, a, c)
    BY <1>2, <2>1, MoveOp DEF Settable, UsockStates, Listened
  <2>3. CASE y = UsockRaise(a, c, "CONNECTED")
    <3>1. UsOp(a, y, c)
      BY <2>2, <2>3, UsockRaiseOp DEF SessTypes, EventTypes
    <3>2. UsOp(x, a, c)
      BY <1>2, <2>2, UsOpTrans
    <3> QED BY <3>1, <3>2, UsOpTrans
  <2>4. CASE y = UsockLost(o, c)
    <3>1. UsOp(o, y, c)
      BY <1>2, <2>1, <2>4, UsockLostOp
    <3> QED BY <1>2, <3>1, UsOpTrans
  <2> QED BY <1>7, <2>3, <2>4 DEF ConnectEnds
<1>8. CASE y = Fail(x, "usock: bad source")
  BY <1>8, FailOp, Sites
<1>9. x.us[c].st # "ACCEPTING"
  BY DEF Listened
<1>10. CASE y \in FdIn(x, c)
  BY <1>3, <1>4, <1>6, <1>8, <1>9, <1>10 DEF FdIn
<1>11. CASE y \in FdOut(x, c)
  BY <1>3, <1>5, <1>6, <1>7, <1>8, <1>11 DEF FdOut
<1>12. CASE y \in FdErr(x, c)
  BY <1>3, <1>6, <1>8, <1>12 DEF FdErr
<1> QED BY <1>10, <1>11, <1>12

(* Timers. *)
LEMMA TimerRec ==
  ASSUME NEW x \in World, NEW t \in Timers
  PROVE  /\ x.tmr[t] \in TimerRecs /\ IdleTimer \in TimerRecs
         /\ \A s \in {"IDLE", "ACTIVE", "STOPPING"} : [x.tmr[t] EXCEPT !.st = s] \in TimerRecs
         /\ \A b \in BOOLEAN : [x.tmr[t] EXCEPT !.armed = b] \in TimerRecs
<1>1. x.tmr[t] \in TimerRecs
  BY Has
<1> QED BY <1>1 DEF TimerRecs, IdleTimer

(* timer.c: the timer of a header exchange, its tasks and its expiry.      *)
LEMMA TimerSetOps ==
  ASSUME NEW x \in World, NEW t \in Timers, NEW c \in Conns,
         NEW s \in {"IDLE", "ACTIVE", "STOPPING"}, NEW b \in BOOLEAN
  PROVE  /\ UsOp(x, [x EXCEPT !.tmr[t].st = s], c)
         /\ UsOp(x, [x EXCEPT !.tmr[t].armed = b], c)
         /\ UsOp(x, [x EXCEPT !.tmr[t] = IdleTimer], c)
<1>1. \A r \in TimerRecs : UsOp(x, [x EXCEPT !.tmr = [x.tmr EXCEPT ![t] = r]], c)
  BY TmrSet
<1>2. [x EXCEPT !.tmr[t].st = s] = [x EXCEPT !.tmr = [x.tmr EXCEPT ![t] = [x.tmr[t] EXCEPT !.st = s]]]
  BY Has
<1>3. [x EXCEPT !.tmr[t].armed = b] = [x EXCEPT !.tmr = [x.tmr EXCEPT ![t] = [x.tmr[t] EXCEPT !.armed = b]]]
  BY Has
<1>4. [x EXCEPT !.tmr[t] = IdleTimer] = [x EXCEPT !.tmr = [x.tmr EXCEPT ![t] = IdleTimer]]
  BY Has
<1>5. UsOp(x, [x EXCEPT !.tmr[t].st = s], c)
  BY <1>1, <1>2, TimerRec
<1>6. UsOp(x, [x EXCEPT !.tmr[t].armed = b], c)
  BY <1>1, <1>3, TimerRec
<1>7. UsOp(x, [x EXCEPT !.tmr[t] = IdleTimer], c)
  BY <1>1, <1>4, TimerRec
<1> QED BY <1>5, <1>6, <1>7

LEMMA TimerOps ==
  ASSUME NEW x \in World, NEW c \in Conns
  PROVE  UsOp(x, TimerStart(x, c), c) /\ UsOp(x, TimerStop(x, c), c)
<1> DEFINE a == [x EXCEPT !.tmr[c].st = "ACTIVE"]
           b == [x EXCEPT !.tmr[c].st = "STOPPING"]
<1>0. c \in Timers
  BY Names
<1>1. UsOp(x, a, c) /\ UsOp(x, b, c)
  BY <1>0, TimerSetOps
<1>2. a \in World /\ b \in World
  BY <1>1, UsOpWorld
<1>3. UsOp(a, Execute(a, "timer_start", c), c) /\ UsOp(b, Execute(b, "timer_stop", c), c)
  BY <1>2, TaskOpIs DEF TimerKinds
<1>4. UsOp(x, Execute(a, "timer_start", c), c) /\ UsOp(x, Execute(b, "timer_stop", c), c)
  BY <1>1, <1>3, UsOpTrans
<1> QED BY <1>4, UsOpSame, FailOp, Sites DEF TimerStart, TimerStop

LEMMA TimerRaise ==
  ASSUME NEW x \in World, NEW c \in Conns, NEW type \in SessTypes
  PROVE  UsOp(x, Raise(x, TimerOwner(c), c, type), c)
<1> DEFINE o == TimerOwner(c)
<1>1. o = [to |-> "hdr", of |-> c, src |-> "TIMER"]
  BY DEF TimerOwner
<1>2. o \in Owners /\ o.src = "TIMER"
  BY <1>1 DEF Owners, ToOne, Sources
<1>3. SessEvent(x, Item(o, c, type), c)
  BY <1>1 DEF SessEvent, Item, SessTypes
<1> QED BY <1>2, <1>3, RaiseOp

LEMMA TimerTaskOp ==
  ASSUME NEW x \in World, NEW c \in Conns, NEW kind \in TimerKinds
  PROVE  UsOp(x, TimerTask(x, kind, c, TimerOwner(c)), c)
<1> DEFINE a == [x EXCEPT !.tmr[c].armed = TRUE]
           b == [x EXCEPT !.tmr[c] = IdleTimer]
<1>0. c \in Timers
  BY Names
<1>1. UsOp(x, a, c) /\ UsOp(x, b, c)
  BY <1>0, TimerSetOps
<1>2. b \in World
  BY <1>1, UsOpWorld
<1>3. UsOp(b, Raise(b, TimerOwner(c), c, "STOPPED"), c)
  BY <1>2, TimerRaise DEF SessTypes, EventTypes
<1>4. UsOp(x, Raise(b, TimerOwner(c), c, "STOPPED"), c)
  BY <1>1, <1>3, UsOpTrans
<1> QED BY <1>1, <1>4, UsOpSame DEF TimerTask


(***************************************************************************)
(* The exchange of headers.                                                *)
(***************************************************************************)
LEMMA BelowIs ==
  ASSUME NEW x, NEW y, NEW c
  PROVE  /\ UsOp(x, y, c) => Below(x, y, c)
         /\ Below(x, y, c) => y \in World /\ (y.failed = Nil => x.failed = Nil)
BY DEF UsOp, Below, Sess

LEMMA SwapOwnerIs ==
  ASSUME NEW x \in World, NEW c \in Conns, NEW o \in UsOwners, NEW y, y = SwapOwner(x, c, o)
  PROVE  /\ Below(x, y, c) /\ y.failed = x.failed
         /\ y.us[c].owner = o /\ y.us[c].st = x.us[c].st /\ y.events = x.events
         /\ y.hdr = x.hdr /\ y.stcp = x.stcp /\ y.pipe = x.pipe
<1> DEFINE r == [x.us[c] EXCEPT !.owner = o]
<1>1. c \in Socks /\ x.us[c] \in UsockRecs /\ x.us \in [Socks -> UsockRecs]
  BY Names, UsRec, Has
<1>2. r \in UsockRecs /\ r.st = x.us[c].st /\ r.asock = x.us[c].asock /\ r.owner = o
  BY <1>1 DEF UsockRecs
<1>3. y = [x EXCEPT !.us = [x.us EXCEPT ![c] = r]]
  BY DEF SwapOwner
<1>4. UsStep(x.us[c], r)
  BY <1>2, UsStepIs
<1>5. Below(x, y, c)
  BY <1>2, <1>3, <1>4, UsSet
<1>6. y.us = [x.us EXCEPT ![c] = r] /\ y.failed = x.failed /\ y.events = x.events
      /\ y.hdr = x.hdr /\ y.stcp = x.stcp /\ y.pipe = x.pipe
  BY <1>3 DEF World
<1>7. y.us[c] = r
  BY <1>1, <1>6
<1> QED BY <1>2, <1>5, <1>6, <1>7

LEMMA OwnersAre ==
  ASSUME NEW c \in Conns
  PROVE  StcpOwner(c) \in UsOwners /\ HdrOwner(c) \in UsOwners
         /\ \A x \in World : End(x, c, "USOCK") \in UsOwners
BY DEF StcpOwner, HdrOwner, End, UsOwners, ToOne

LEMMA HdrSetOps ==
  ASSUME NEW x \in World, NEW c \in Conns
  PROVE  /\ \A r \in HdrRecs : Below(x, [x EXCEPT !.hdr[c] = r], c)
         /\ \A s \in HdrStates : Below(x, [x EXCEPT !.hdr[c].st = s], c)
<1>1. ASSUME NEW r \in HdrRecs PROVE Below(x, [x EXCEPT !.hdr[c] = r], c)
  BY HdrSet
<1>2. ASSUME NEW s \in HdrStates PROVE Below(x, [x EXCEPT !.hdr[c].st = s], c)
  <2>1. x.hdr[c] \in HdrRecs
    BY Has
  <2>2. [x.hdr[c] EXCEPT !.st = s] \in HdrRecs
    BY <2>1 DEF HdrRecs
  <2>3. [x EXCEPT !.hdr[c].st = s] = [x EXCEPT !.hdr = [x.hdr EXCEPT ![c] = [x.hdr[c] EXCEPT !.st = s]]]
    OBVIOUS
  <2> QED BY <2>2, <2>3, HdrSet
<1> QED BY <1>1, <1>2

LEMMA HdrRaiseOp ==
  ASSUME NEW x \in World, NEW c \in Conns, NEW type \in SessTypes
  PROVE  UsOp(x, HdrRaise(x, c, type), c)
<1> DEFINE o == [to |-> "stcp", of |-> c, src |-> "HDR"]
<1>1. o \in Owners /\ o.src = "HDR"
  BY DEF Owners, ToOne, Sources
<1>2. SessEvent(x, Item(o, c, type), c)
  BY DEF SessEvent, Item, SessTypes
<1> QED BY <1>1, <1>2, RaiseOp DEF HdrRaise

(* hdr.c: the exchange starts, is stopped, ends, and gets its events.      *)
LEMMA HdrStartOp ==
  ASSUME NEW x \in World, NEW c \in Conns, NEW y \in HdrStart(x, c)
  PROVE  Below(x, y, c)
<1>1. CASE x.hdr[c].has \/ ~HdrIdle(x, c)
  <2>1. UsOp(x, Fail(x, "streamhdr started twice"), c)
    BY FailOp, Sites
  <2> QED BY <1>1, <2>1, BelowIs DEF HdrStart, Bad
<1>2. CASE ~(x.hdr[c].has \/ ~HdrIdle(x, c))
  <2> DEFINE a == SwapOwner(x, c, HdrOwner(c))
             b == [a EXCEPT !.hdr[c] = [st |-> "SENDING", has |-> TRUE]]
             d == TimerStart(b, c)
  <2>1. Below(x, a, c) /\ a \in World
    BY OwnersAre, SwapOwnerIs, BelowIs
  <2>2. Below(a, b, c) /\ b \in World
    BY <2>1, HdrSetOps, BelowIs DEF HdrRecs, HdrStates
  <2>3. Below(b, d, c) /\ d \in World
    BY <2>2, TimerOps, BelowIs
  <2>4. y \in UsockSend(d, c)
    BY <1>2 DEF HdrStart
  <2>5. Below(d, y, c)
    BY <2>3, <2>4, UsockSendOp, BelowIs
  <2>6. Below(x, b, c)
    BY <2>1, <2>2, CalmTrans
  <2>7. Below(x, d, c)
    BY <2>3, <2>6, CalmTrans
  <2> QED BY <2>5, <2>7, CalmTrans
<1> QED BY <1>1, <1>2

LEMMA HdrStoppingOp ==
  ASSUME NEW x \in World, NEW c \in Conns
  PROVE  Below(x, HdrStopping(x, c), c)
<1> DEFINE a == [x EXCEPT !.hdr[c].st = "IDLE"]
<1>1. Below(x, a, c) /\ a \in World
  BY HdrSetOps, BelowIs DEF HdrStates
<1>2. Below(a, HdrRaise(a, c, "STOPPED"), c)
  BY <1>1, HdrRaiseOp, BelowIs DEF SessTypes, EventTypes
<1>3. Below(x, HdrRaise(a, c, "STOPPED"), c)
  BY <1>1, <1>2, CalmTrans
<1> QED BY <1>3, UsOpSame DEF HdrStopping

LEMMA HdrEndOp ==
  ASSUME NEW x \in World, NEW c \in Conns, NEW s \in HdrStates
  PROVE  Below(x, HdrEnd(x, c, s), c)
<1> DEFINE a == TimerStop(x, c)
<1>1. Below(x, a, c) /\ a \in World
  BY TimerOps, BelowIs
<1>2. Below(a, [a EXCEPT !.hdr[c].st = s], c)
  BY <1>1, HdrSetOps
<1> QED BY <1>1, <1>2, CalmTrans DEF HdrEnd

LEMMA HdrStopOp ==
  ASSUME NEW x \in World, NEW c \in Conns
  PROVE  Below(x, HdrStop(x, c), c)
<1> DEFINE a == HdrEnd(x, c, "STOPPING")
<1>1. Below(x, a, c) /\ a \in World
  BY HdrEndOp, BelowIs DEF HdrStates
<1>2. Below(a, HdrStopping(a, c), c)
  BY <1>1, HdrStoppingOp
<1>3. Below(x, HdrStopping(a, c), c)
  BY <1>1, <1>2, CalmTrans
<1> QED BY <1>3, UsOpSame DEF HdrStop, HdrEnd

LEMMA HdrDoneOp ==
  ASSUME NEW x \in World, NEW c \in Conns, NEW type \in SessTypes
  PROVE  Below(x, HdrDone(x, c, type), c)
<1> DEFINE a == SwapOwner(x, c, StcpOwner(c))
           b == [a EXCEPT !.hdr[c] = [st |-> "DONE", has |-> FALSE]]
<1>1. Below(x, a, c) /\ a \in World
  BY OwnersAre, SwapOwnerIs, BelowIs
<1>2. Below(a, b, c) /\ b \in World
  BY <1>1, HdrSetOps, BelowIs DEF HdrRecs, HdrStates
<1>3. Below(b, HdrRaise(b, c, type), c)
  BY <1>2, HdrRaiseOp, BelowIs
<1>4. Below(x, b, c)
  BY <1>1, <1>2, CalmTrans
<1> QED BY <1>3, <1>4, CalmTrans DEF HdrDone

LEMMA HdrHandlerOp ==
  ASSUME NEW x \in World, NEW c \in Conns, NEW e, NEW y \in HdrHandler(x, c, e)
  PROVE  Below(x, y, c) /\ (x.hdr[c].st = "IDLE" => y.failed # Nil)
<1> DEFINE st == x.hdr[c].st
           a == [x EXCEPT !.hdr[c].st = "RECEIVING"]
<1>1. Below(x, a, c) /\ a \in World
  BY HdrSetOps, BelowIs DEF HdrStates
<1>2. \A z \in UsockRecv(a, c) : Below(x, z, c)
  BY <1>1, UsockRecvOp, BelowIs, CalmTrans
<1>3. \A s \in Failures \ {Nil} : Below(x, Fail(x, s), c) /\ Fail(x, s).failed # Nil
  BY FailOp, FailIs, BelowIs
<1>4. /\ Below(x, HdrStopping(x, c), c) /\ Below(x, x, c)
      /\ Below(x, HdrEnd(x, c, "STOPPING_TIMER_DONE"), c)
      /\ Below(x, HdrEnd(x, c, "STOPPING_TIMER_ERROR"), c)
      /\ Below(x, HdrDone(x, c, "ERROR"), c) /\ Below(x, HdrDone(x, c, "OK"), c)
  BY HdrStoppingOp, UsOpSame, HdrEndOp, HdrDoneOp DEF HdrStates, SessTypes, EventTypes
<1>5. \/ y = HdrStopping(x, c) /\ st # "IDLE"
      \/ y \in UsockRecv(a, c) /\ st # "IDLE"
      \/ y \in {HdrEnd(x, c, "STOPPING_TIMER_DONE"), HdrEnd(x, c, "STOPPING_TIMER_ERROR")} /\ st # "IDLE"
      \/ y \in {HdrDone(x, c, "ERROR"), HdrDone(x, c, "OK")} /\ st # "IDLE"
      \/ y = x /\ st # "IDLE"
      \/ y \in {Fail(x, "streamhdr: usock event"), Fail(x, "streamhdr: bad event")}
  BY DEF HdrHandler, Bad
<1> QED BY <1>2, <1>3, <1>4, <1>5, Sites


(***************************************************************************)
(* The pipe.                                                               *)
(***************************************************************************)
LEMMA PipeRaiseOp ==
  ASSUME NEW x \in World, NEW c \in Conns, NEW type \in SessTypes
  PROVE  UsOp(x, PipeRaise(x, c, type), c)
<1> DEFINE o == [to |-> "pipe", of |-> c, src |-> "PIPE"]
<1>1. o \in Owners /\ o.src = "PIPE"
  BY DEF Owners, ToOne, Sources
<1>2. SessEvent(x, Item(o, c, type), c)
  BY DEF SessEvent, Item, SessTypes
<1> QED BY <1>1, <1>2, RaiseOp DEF PipeRaise

(* The pipe keeps its state. *)
LEMMA PipeSetOp ==
  ASSUME NEW x \in World, NEW c \in Conns, NEW r \in PipeRecs, r.st = x.pipe[c].st,
         NEW y, y = [x EXCEPT !.pipe = [x.pipe EXCEPT ![c] = r]]
  PROVE  UsOp(x, y, c)
<1>1. y \in World /\ SameEp(x, y)
  BY PipePut
<1>2. /\ y.pipe = [x.pipe EXCEPT ![c] = r] /\ x.pipe \in [Conns -> PipeRecs]
      /\ y.failed = x.failed /\ y.us = x.us /\ y.hdr = x.hdr /\ y.stcp = x.stcp
      /\ y.stat = x.stat /\ y.events = x.events /\ y.tasks = x.tasks /\ y.copy = x.copy
  BY Has DEF World
<1>3. y.pipe[c] = r /\ \A d \in Conns \ {c} : y.pipe[d] = x.pipe[d]
  BY <1>2
<1>4. SameOthers(x, y, c) /\ SameStats(x, y, c) /\ UsStep(x.us[c], y.us[c])
  BY <1>2, <1>3 DEF SameOthers, SameStats, Piped, UsStep
<1>5. Queues(x, y, c) /\ New(x.events, y.events) = {}
  BY <1>2, QueuesSame
<1> QED BY <1>1, <1>2, <1>3, <1>4, <1>5 DEF UsOp, Below, Calm, Sess

LEMMA PipeFieldOps ==
  ASSUME NEW x \in World, NEW c \in Conns
  PROVE  /\ \A s \in Ways : UsOp(x, [x EXCEPT !.pipe[c].in = s], c)
                            /\ UsOp(x, [x EXCEPT !.pipe[c].out = s], c)
         /\ \A b \in BOOLEAN : UsOp(x, [x EXCEPT !.pipe[c].canin = b], c)
                               /\ UsOp(x, [x EXCEPT !.pipe[c].canout = b], c)
         /\ UsOp(x, [x EXCEPT !.pipe[c].out = "ASYNC", !.pipe[c].canout = FALSE], c)
         /\ UsOp(x, [x EXCEPT !.pipe[c].in = "ASYNC", !.pipe[c].canin = FALSE], c)
<1>1. x.pipe[c] \in PipeRecs /\ x.pipe \in [Conns -> PipeRecs]
  BY Has
<1>2. ASSUME NEW s \in Ways
      PROVE  UsOp(x, [x EXCEPT !.pipe[c].in = s], c) /\ UsOp(x, [x EXCEPT !.pipe[c].out = s], c)
  <2> DEFINE r == [x.pipe[c] EXCEPT !.in = s]
             q == [x.pipe[c] EXCEPT !.out = s]
  <2>1. r \in PipeRecs /\ r.st = x.pipe[c].st /\ q \in PipeRecs /\ q.st = x.pipe[c].st
    BY <1>1 DEF PipeRecs
  <2>2. /\ [x EXCEPT !.pipe[c].in = s] = [x EXCEPT !.pipe = [x.pipe EXCEPT ![c] = r]]
        /\ [x EXCEPT !.pipe[c].out = s] = [x EXCEPT !.pipe = [x.pipe EXCEPT ![c] = q]]
    OBVIOUS
  <2> QED BY <2>1, <2>2, PipeSetOp
<1>3. ASSUME NEW b \in BOOLEAN
      PROVE  UsOp(x, [x EXCEPT !.pipe[c].canin = b], c)
             /\ UsOp(x, [x EXCEPT !.pipe[c].canout = b], c)
  <2> DEFINE r == [x.pipe[c] EXCEPT !.canin = b]
             q == [x.pipe[c] EXCEPT !.canout = b]
  <2>1. r \in PipeRecs /\ r.st = x.pipe[c].st /\ q \in PipeRecs /\ q.st = x.pipe[c].st
    BY <1>1 DEF PipeRecs
  <2>2. /\ [x EXCEPT !.pipe[c].canin = b] = [x EXCEPT !.pipe = [x.pipe EXCEPT ![c] = r]]
        /\ [x EXCEPT !.pipe[c].canout = b] = [x EXCEPT !.pipe = [x.pipe EXCEPT ![c] = q]]
    OBVIOUS
  <2> QED BY <2>1, <2>2, PipeSetOp
<1>4. UsOp(x, [x EXCEPT !.pipe[c].out = "ASYNC", !.pipe[c].canout = FALSE], c)
  <2> DEFINE r == [x.pipe[c] EXCEPT !.out = "ASYNC", !.canout = FALSE]
  <2>1. r \in PipeRecs /\ r.st = x.pipe[c].st
    BY <1>1 DEF PipeRecs, Ways
  <2>2. [x EXCEPT !.pipe[c].out = "ASYNC", !.pipe[c].canout = FALSE]
            = [x EXCEPT !.pipe = [x.pipe EXCEPT ![c] = r]]
    BY <1>1 DEF World
  <2> QED BY <2>1, <2>2, PipeSetOp
<1>5. UsOp(x, [x EXCEPT !.pipe[c].in = "ASYNC", !.pipe[c].canin = FALSE], c)
  <2> DEFINE r == [x.pipe[c] EXCEPT !.in = "ASYNC", !.canin = FALSE]
  <2>1. r \in PipeRecs /\ r.st = x.pipe[c].st
    BY <1>1 DEF PipeRecs, Ways
  <2>2. [x EXCEPT !.pipe[c].in = "ASYNC", !.pipe[c].canin = FALSE]
            = [x EXCEPT !.pipe = [x.pipe EXCEPT ![c] = r]]
    BY <1>1 DEF World
  <2> QED BY <2>1, <2>2, PipeSetOp
<1> QED BY <1>2, <1>3, <1>4, <1>5

(* The session keeps its state. *)
LEMMA StcpSetOp ==
  ASSUME NEW x \in World, NEW c \in Conns, NEW r \in StcpRecs, r.st = x.stcp[c].st,
         NEW y, y = [x EXCEPT !.stcp = [x.stcp EXCEPT ![c] = r]]
  PROVE  UsOp(x, y, c)
<1>1. Sess(x, y, c)
  BY StcpSet
<1>2. /\ y.stcp = [x.stcp EXCEPT ![c] = r] /\ x.stcp \in [Conns -> StcpRecs]
      /\ y.failed = x.failed /\ y.us = x.us /\ y.hdr = x.hdr /\ y.pipe = x.pipe
      /\ y.events = x.events /\ y.tasks = x.tasks /\ y.copy = x.copy
  BY Has DEF World
<1>3. y.stcp[c] = r
  BY <1>2
<1>4. New(x.events, y.events) = {}
  BY <1>2, QueuesSame
<1> QED BY <1>1, <1>2, <1>3, <1>4 DEF UsOp, Below, Calm

LEMMA StcpFieldOps ==
  ASSUME NEW x \in World, NEW c \in Conns
  PROVE  /\ \A s \in {"HDR", "BODY", "HASMSG"} : UsOp(x, [x EXCEPT !.stcp[c].in = s], c)
         /\ \A s \in {"IDLE", "SENDING"} : UsOp(x, [x EXCEPT !.stcp[c].out = s], c)
<1>1. x.stcp[c] \in StcpRecs
  BY Has
<1>2. ASSUME NEW s \in {"HDR", "BODY", "HASMSG"} PROVE UsOp(x, [x EXCEPT !.stcp[c].in = s], c)
  <2> DEFINE r == [x.stcp[c] EXCEPT !.in = s]
  <2>1. r \in StcpRecs /\ r.st = x.stcp[c].st
    BY <1>1 DEF StcpRecs
  <2>2. [x EXCEPT !.stcp[c].in = s] = [x EXCEPT !.stcp = [x.stcp EXCEPT ![c] = r]]
    OBVIOUS
  <2> QED BY <2>1, <2>2, StcpSetOp
<1>3. ASSUME NEW s \in {"IDLE", "SENDING"} PROVE UsOp(x, [x EXCEPT !.stcp[c].out = s], c)
  <2> DEFINE r == [x.stcp[c] EXCEPT !.out = s]
  <2>1. r \in StcpRecs /\ r.st = x.stcp[c].st
    BY <1>1 DEF StcpRecs
  <2>2. [x EXCEPT !.stcp[c].out = s] = [x EXCEPT !.stcp = [x.stcp EXCEPT ![c] = r]]
    OBVIOUS
  <2> QED BY <2>1, <2>2, StcpSetOp
<1> QED BY <1>2, <1>3

LEMMA PipeAnswerOps ==
  ASSUME NEW x \in World, NEW c \in Conns
  PROVE  UsOp(x, PipeReceived(x, c), c) /\ UsOp(x, PipeSent(x, c), c)
<1> DEFINE a == [x EXCEPT !.pipe[c].in = "IDLE"]
           b == [x EXCEPT !.pipe[c].out = "IDLE"]
<1>1. UsOp(x, a, c) /\ UsOp(x, b, c)
  BY PipeFieldOps, Zenon DEF Ways
<1>2. a \in World /\ b \in World
  BY <1>1, UsOpWorld
<1>3. UsOp(a, PipeRaise(a, c, "IN"), c) /\ UsOp(b, PipeRaise(b, c, "OUT"), c)
  BY <1>2, PipeRaiseOp DEF SessTypes, EventTypes
<1>4. UsOp(x, PipeRaise(a, c, "IN"), c) /\ UsOp(x, PipeRaise(b, c, "OUT"), c)
  BY <1>1, <1>3, UsOpTrans
<1> QED BY <1>4, FailOp, Sites, ZenonT(60) DEF PipeReceived, PipeSent

(* stcp.c, pipe.c: send and receive of the user, down to the usock.        *)
LEMMA SessionSendOp ==
  ASSUME NEW x \in World, NEW c \in Conns, NEW y \in SessionSend(x, c)
  PROVE  UsOp(x, y, c)
<1> DEFINE a == [x EXCEPT !.stcp[c].out = "SENDING"]
<1>1. y \in StcpSend(x, c)
  BY DEF SessionSend, SipcSend
<1>2. UsOp(x, a, c) /\ a \in World
  BY StcpFieldOps, UsOpWorld
<1>3. \A z \in UsockSend(a, c) : UsOp(x, z, c)
  BY <1>2, UsockSendOp, UsOpTrans
<1> QED BY <1>1, <1>3, FailOp, Sites DEF StcpSend, Bad

LEMMA SessionRecvOp ==
  ASSUME NEW x \in World, NEW c \in Conns, NEW y \in SessionRecv(x, c)
  PROVE  UsOp(x, y, c)
<1> DEFINE a == [x EXCEPT !.stcp[c].in = "HDR"]
<1>1. y \in StcpRecv(x, c)
  BY DEF SessionRecv, SipcRecv
<1>2. UsOp(x, a, c) /\ a \in World
  BY StcpFieldOps, UsOpWorld
<1>3. \A z \in UsockRecv(a, c) : UsOp(x, z, c)
  BY <1>2, UsockRecvOp, UsOpTrans
<1> QED BY <1>1, <1>3, FailOp, Sites DEF StcpRecv, Bad

LEMMA PipeSendOp ==
  ASSUME NEW x \in World, NEW c \in Conns, NEW y \in PipeSend(x, c) \cup PipeRecv(x, c)
  PROVE  UsOp(x, y, c)
<1> DEFINE a == [x EXCEPT !.pipe[c].out = "ASYNC", !.pipe[c].canout = FALSE]
           b == [x EXCEPT !.pipe[c].in = "ASYNC", !.pipe[c].canin = FALSE]
<1>1. UsOp(x, a, c) /\ UsOp(x, b, c)
  BY PipeFieldOps, Zenon
<1>2. a \in World /\ b \in World
  BY <1>1, UsOpWorld
<1>3. \A z \in SessionSend(a, c) : UsOp(x, z, c)
  BY <1>1, <1>2, SessionSendOp, UsOpTrans
<1>4. \A z \in SessionRecv(b, c) : UsOp(x, z, c)
  BY <1>1, <1>2, SessionRecvOp, UsOpTrans
<1> QED BY <1>3, <1>4, FailOp, Sites, ZenonT(60) DEF PipeSend, PipeRecv, Bad

(* What the step remembers of a message done at once. *)
LEMMA DidIs ==
  ASSUME NEW x \in World, NEW s \in SUBSET {"send", "recv"}, NEW c \in Conns,
         NEW y, y = [x EXCEPT !.did = s]
  PROVE  UsOp(x, y, c)
<1>1. y \in World
  BY Put
<1>2. SameEp(x, y)
  BY DEF World, SameEp
<1>3. /\ y.failed = x.failed /\ y.us = x.us /\ y.hdr = x.hdr /\ y.stcp = x.stcp /\ y.pipe = x.pipe
      /\ y.stat = x.stat /\ y.events = x.events /\ y.tasks = x.tasks /\ y.copy = x.copy
  BY DEF World
<1>4. SameOthers(x, y, c) /\ SameStats(x, y, c) /\ UsStep(x.us[c], y.us[c])
  BY <1>3 DEF SameOthers, SameStats, Piped, UsStep
<1>5. Queues(x, y, c) /\ New(x.events, y.events) = {}
  BY <1>3, QueuesSame, Zenon
<1> QED BY <1>1, <1>2, <1>3, <1>4, <1>5 DEF UsOp, Below, Calm, Sess

LEMMA PipeHandlerOp ==
  ASSUME NEW x \in World, NEW c \in Conns, NEW e, NEW y \in PipeHandler(x, c, e)
  PROVE  UsOp(x, y, c)
<1>1. ASSUME NEW what \in {"send", "recv"}, NEW S, \A z \in S : UsOp(x, z, c),
             y \in AtOnce(x, what, S)
      PROVE  UsOp(x, y, c)
  <2>1. PICK v \in S : y = [v EXCEPT !.did = @ \cup {what}]
    BY <1>1 DEF AtOnce
  <2>2. v \in World /\ UsOp(x, v, c)
    BY <1>1, UsOpWorld
  <2>3. v.did \cup {what} \in SUBSET {"send", "recv"}
    BY <2>2, Has
  <2>4. UsOp(v, y, c)
    BY <2>1, <2>2, <2>3, DidIs
  <2> QED BY <2>2, <2>4, UsOpTrans
<1>2. \/ y = [x EXCEPT !.pipe[c].canout = TRUE] \/ y = [x EXCEPT !.pipe[c].canin = TRUE]
      \/ y \in AtOnce(x, "send", PipeSend(x, c)) \/ y \in AtOnce(x, "recv", PipeRecv(x, c))
      \/ y = Fail(x, "pipe: event after removal")
  BY DEF PipeHandler, Bad
<1> QED BY <1>1, <1>2, PipeFieldOps, PipeSendOp, FailOp, Sites, Zenon

(***************************************************************************)
(* The pipe is offered to the socket, and taken back.                      *)
(***************************************************************************)
Same(x, y, c) ==    \* of the session, but for the pipe
    y.us = x.us /\ y.hdr = x.hdr /\ y.stcp = x.stcp
NoStop(x, y) ==
    \A i \in New(x.events, y.events) : ~(y.events[i].src = "STCP" /\ y.events[i].type = "STOPPED")

LEMMA NewPipeIs ==
  NewPipe \in PipeRecs /\ NewPipe.st = "IDLE"
  /\ \A s \in {"ACTIVE", "FAILED"} :
        [[NewPipe EXCEPT !.st = "ACTIVE", !.in = "ASYNC", !.out = "IDLE"] EXCEPT !.st = s] \in PipeRecs
BY DEF NewPipe, PipeRecs, Ways

(* sock.c: the socket counts the pipe, and changes nothing else.           *)
LEMMA SockCount ==
  ASSUME NEW x \in World, NEW k \in {1, -1}, NEW y, y = StatIncrement(x, "current", k)
  PROVE  /\ y \in World
         /\ y.failed = Nil => x.failed = Nil /\ SameEp(x, y)
         /\ y.failed = Nil => y.stat["current"] = x.stat["current"] + k
                              /\ \A m \in Stats \ {"current"} : y.stat[m] = x.stat[m]
         /\ y.failed = Nil => y.us = x.us /\ y.hdr = x.hdr /\ y.stcp = x.stcp /\ y.pipe = x.pipe
         /\ y.failed = Nil => y.events = x.events /\ y.tasks = x.tasks /\ y.copy = x.copy
<1>1. k \in Int /\ "current" \in Stats
  BY DEF Stats
<1>2. y \in World
  BY <1>1, StatPut
<1>3. ASSUME y.failed = Nil
      PROVE  x.failed = Nil /\ SameEp(x, y)
  BY <1>1, <1>3, StatPut
<1>4. ASSUME y.failed = Nil
      PROVE  /\ y.stat["current"] = x.stat["current"] + k
             /\ \A m \in Stats \ {"current"} : y.stat[m] = x.stat[m]
  BY <1>1, <1>4, StatPut
<1>5. ASSUME y.failed = Nil
      PROVE  y.us = x.us /\ y.hdr = x.hdr /\ y.stcp = x.stcp /\ y.pipe = x.pipe
  BY <1>1, <1>5, StatPut
<1>6. ASSUME y.failed = Nil
      PROVE  y.events = x.events /\ y.tasks = x.tasks /\ y.copy = x.copy
  BY <1>1, <1>6, StatPut
<1> QED BY <1>2, <1>3, <1>4, <1>5, <1>6

(* pipe.c: grid_pipebase_stop takes an active pipe from the socket and the *)
(* count; grid_pipebase_start offers it and counts it if the socket takes  *)
(* it.                                                                     *)
LEMMA PipeStopIs ==
  ASSUME NEW x \in World, NEW c \in Conns, NEW y, y = PipeStop(x, c)
  PROVE  Sess(x, y, c) /\ (y.failed = Nil => Same(x, y, c) /\ y.pipe[c].st = "IDLE"
                                             /\ y.events = x.events)
<1> DEFINE a == IF x.pipe[c].st = "ACTIVE" THEN SockRm(x) ELSE x
<1>0. a \in World
  BY SockCount DEF SockRm
<1>1. y = [a EXCEPT !.pipe = [a.pipe EXCEPT ![c] = NewPipe]]
  BY DEF PipeStop
<1>2. y \in World /\ SameEp(a, y)
  BY <1>0, <1>1, NewPipeIs, PipePut
<1>3. /\ y.pipe = [a.pipe EXCEPT ![c] = NewPipe] /\ a.pipe \in [Conns -> PipeRecs]
      /\ y.failed = a.failed /\ y.us = a.us /\ y.hdr = a.hdr /\ y.stcp = a.stcp
      /\ y.stat = a.stat /\ y.events = a.events /\ y.tasks = a.tasks /\ y.copy = a.copy
  BY <1>0, <1>1, Has DEF World
<1>4. SUFFICES ASSUME y.failed = Nil
               PROVE  /\ x.failed = Nil /\ SameEp(x, y) /\ SameOthers(x, y, c)
                      /\ UsStep(x.us[c], y.us[c]) /\ SameStats(x, y, c) /\ Queues(x, y, c)
                      /\ Same(x, y, c) /\ y.pipe[c].st = "IDLE" /\ y.events = x.events
  BY <1>2 DEF Sess
<1>5. /\ x.failed = Nil /\ a.pipe = x.pipe /\ a.us = x.us /\ a.hdr = x.hdr /\ a.stcp = x.stcp
      /\ a.events = x.events /\ a.tasks = x.tasks /\ a.copy = x.copy
  <2>1. CASE x.pipe[c].st = "ACTIVE"
    <3>1. a = StatIncrement(x, "current", -1) /\ a.failed = Nil
      BY <1>3, <1>4, <2>1 DEF SockRm
    <3> QED BY <3>1, SockCount
  <2>2. CASE x.pipe[c].st # "ACTIVE"
    BY <1>3, <1>4, <2>2
  <2> QED BY <2>1, <2>2
<1>6. SameEp(x, a)
  <2>1. CASE x.pipe[c].st = "ACTIVE"
    <3>1. a = StatIncrement(x, "current", -1) /\ a.failed = Nil
      BY <1>3, <1>4, <2>1 DEF SockRm
    <3> QED BY <3>1, SockCount
  <2>2. CASE x.pipe[c].st # "ACTIVE"
    BY <2>2 DEF SameEp
  <2> QED BY <2>1, <2>2
<1>7. y.pipe[c].st = "IDLE" /\ \A d \in Conns \ {c} : y.pipe[d] = x.pipe[d]
  BY <1>3, <1>5, NewPipeIs
<1>8. SameStats(x, y, c)
  <2>0. Piped(y, c) = 0 /\ x.stat["current"] \in Int /\ -1 \in Int
    BY <1>7, Has DEF Piped, Stats
  <2>1. CASE x.pipe[c].st = "ACTIVE"
    <3>1. /\ a.stat["current"] = x.stat["current"] + (-1)
          /\ \A m \in Stats \ {"current"} : a.stat[m] = x.stat[m]
      <4>1. a = StatIncrement(x, "current", -1) /\ a.failed = Nil
        BY <1>3, <1>4, <2>1 DEF SockRm
      <4> QED BY <4>1, SockCount
    <3> QED BY <1>3, <2>0, <2>1, <3>1 DEF SameStats, Piped
  <2>2. CASE x.pipe[c].st # "ACTIVE"
    BY <1>3, <2>0, <2>2 DEF SameStats, Piped
  <2> QED BY <2>1, <2>2
<1>9. Queues(x, y, c)
  BY <1>3, <1>5, QueuesSame
<1>10. SameEp(x, y)
  BY <1>2, <1>6 DEF SameEp
<1>11. SameOthers(x, y, c) /\ UsStep(x.us[c], y.us[c]) /\ Same(x, y, c)
  BY <1>3, <1>5, <1>7 DEF SameOthers, UsStep, Same
<1> QED BY <1>3, <1>5, <1>7, <1>8, <1>9, <1>10, <1>11

LEMMA PipeStartIs ==
  ASSUME NEW x \in World, NEW c \in Conns, NEW y \in PipeStart(x, c)
  PROVE  Sess(x, y, c) /\ (y.failed = Nil => Same(x, y, c) /\ y.pipe[c].st \in {"ACTIVE", "FAILED"}
                                             /\ NoStop(x, y))
<1> DEFINE new == [NewPipe EXCEPT !.st = "ACTIVE", !.in = "ASYNC", !.out = "IDLE"]
           bad == [new EXCEPT !.st = "FAILED"]
           a == [x EXCEPT !.pipe[c] = new]
           b == SockAdd(a)
<1>0. new \in PipeRecs /\ bad \in PipeRecs /\ new.st = "ACTIVE" /\ bad.st = "FAILED"
  BY DEF NewPipe, PipeRecs, Ways
<1>1. CASE x.pipe[c].st # "IDLE"
  <2>1. UsOp(x, Fail(x, "pipe started twice"), c) /\ Fail(x, "pipe started twice").failed # Nil
    BY FailOp, FailIs, Sites
  <2>2. y = Fail(x, "pipe started twice")
    BY <1>1 DEF PipeStart, Bad
  <2> QED BY <2>1, <2>2 DEF UsOp, Below
<1>2. CASE x.pipe[c].st = "IDLE" /\ y = [x EXCEPT !.pipe[c] = bad]
  <2>1. y \in World /\ SameEp(x, y)
    BY <1>0, <1>2, PipePut
  <2>2. /\ y.pipe = [x.pipe EXCEPT ![c] = bad] /\ x.pipe \in [Conns -> PipeRecs]
        /\ y.failed = x.failed /\ y.us = x.us /\ y.hdr = x.hdr /\ y.stcp = x.stcp
        /\ y.stat = x.stat /\ y.events = x.events /\ y.tasks = x.tasks /\ y.copy = x.copy
    BY <1>2, Has DEF World
  <2>3. y.pipe[c].st = "FAILED" /\ \A d \in Conns \ {c} : y.pipe[d] = x.pipe[d]
    BY <1>0, <2>2
  <2>4. SameOthers(x, y, c) /\ SameStats(x, y, c) /\ UsStep(x.us[c], y.us[c]) /\ Same(x, y, c)
    BY <1>2, <2>2, <2>3 DEF SameOthers, SameStats, Piped, UsStep, Same
  <2>5. Queues(x, y, c) /\ New(x.events, y.events) = {}
    BY <2>2, QueuesSame
  <2> QED BY <2>1, <2>2, <2>3, <2>4, <2>5 DEF Sess, NoStop
<1>3. CASE x.pipe[c].st = "IDLE" /\ y = PipeRaise(b, c, "OUT")
  <2>1. a \in World /\ SameEp(x, a)
    BY <1>0, PipePut
  <2>2. /\ a.pipe = [x.pipe EXCEPT ![c] = new] /\ x.pipe \in [Conns -> PipeRecs]
        /\ a.failed = x.failed /\ a.us = x.us /\ a.hdr = x.hdr /\ a.stcp = x.stcp
        /\ a.stat = x.stat /\ a.events = x.events /\ a.tasks = x.tasks /\ a.copy = x.copy
    BY Has DEF World
  <2>3. a.pipe[c].st = "ACTIVE" /\ \A d \in Conns \ {c} : a.pipe[d] = x.pipe[d]
    BY <1>0, <2>2
  <2>4. b \in World
    BY <2>1, SockCount DEF SockAdd
  <2>5. ASSUME b.failed = Nil
        PROVE  /\ x.failed = Nil /\ b.us = x.us /\ b.hdr = x.hdr /\ b.stcp = x.stcp
               /\ b.pipe = a.pipe /\ b.events = x.events /\ b.tasks = x.tasks /\ b.copy = x.copy
    <3>1. b = StatIncrement(a, "current", 1)
      BY DEF SockAdd
    <3>2. a.failed = Nil /\ b.us = a.us /\ b.hdr = a.hdr /\ b.stcp = a.stcp /\ b.pipe = a.pipe
      BY <2>1, <2>5, <3>1, SockCount, ZenonT(60)
    <3>3. b.events = a.events /\ b.tasks = a.tasks /\ b.copy = a.copy
      BY <2>1, <2>5, <3>1, SockCount
    <3> QED BY <2>2, <3>2, <3>3
  <2>6. ASSUME b.failed = Nil
        PROVE  SameEp(x, b) /\ SameStats(x, b, c) /\ SameOthers(x, b, c)
               /\ UsStep(x.us[c], b.us[c]) /\ Queues(x, b, c)
    <3>1. SameEp(a, b)
      BY <2>1, <2>6, SockCount DEF SockAdd
    <3>2. x.stat["current"] \in Int /\ 1 \in Int
      BY Has DEF Stats
    <3>3. /\ b.stat["current"] = a.stat["current"] + 1
          /\ \A m \in Stats \ {"current"} : b.stat[m] = a.stat[m]
      <4>1. b = StatIncrement(a, "current", 1)
        BY DEF SockAdd
      <4> HIDE DEF a, b
      <4> QED BY <2>1, <2>6, <4>1, SockCount
    <3>4. Piped(b, c) = 1 /\ Piped(x, c) = 0
      BY <1>3, <2>3, <2>5, <2>6 DEF Piped
    <3>5. SameStats(x, b, c)
      BY <2>2, <3>2, <3>3, <3>4 DEF SameStats
    <3>6. SameEp(x, b)
      BY <2>1, <3>1 DEF SameEp
    <3>7. SameOthers(x, b, c) /\ UsStep(x.us[c], b.us[c])
      BY <2>3, <2>5, <2>6 DEF SameOthers, UsStep
    <3>8. Queues(x, b, c)
      BY <2>5, <2>6, QueuesSame
    <3> QED BY <3>5, <3>6, <3>7, <3>8
  <2>7. Sess(x, b, c)
    BY <2>4, <2>5, <2>6 DEF Sess
  <2>8. UsOp(b, y, c)
    BY <1>3, <2>4, PipeRaiseOp DEF SessTypes, EventTypes
  <2>9. Sess(x, y, c)
    BY <2>7, <2>8, SessTrans DEF UsOp, Below
  <2>10. ASSUME y.failed = Nil
         PROVE  Same(x, y, c) /\ y.pipe[c].st = "ACTIVE" /\ NoStop(x, y)
    <3>1. b.failed = Nil /\ y.pipe[c].st = b.pipe[c].st
      BY <2>8, <2>10 DEF UsOp, Below, Calm, Sess
    <3>2. \A i \in New(x.events, y.events) : y.events[i].src # "STCP"
      BY <2>5, <2>8, <2>10, <3>1 DEF UsOp, Below, Calm
    <3>3. y.us = b.us /\ y.hdr = b.hdr /\ y.stcp = b.stcp
      <4> DEFINE o == [to |-> "pipe", of |-> c, src |-> "PIPE"]
      <4>1. o \in Owners
        BY DEF Owners, ToOne, Sources
      <4>2. y = Raise(b, o, c, "OUT")
        BY <1>3 DEF PipeRaise
      <4>3. c \in Ptrs /\ "OUT" \in EventTypes
        BY Names DEF SessTypes, EventTypes
      <4>4. SameParts(b, y)
        BY <2>4, <2>10, <4>1, <4>2, <4>3, RaiseIs
      <4> QED BY <4>4 DEF SameParts
    <3> QED BY <2>3, <2>5, <3>1, <3>2, <3>3 DEF Same, NoStop
  <2> QED BY <2>9, <2>10
<1> QED BY <1>1, <1>2, <1>3 DEF PipeStart


(***************************************************************************)
(* The session.                                                            *)
(***************************************************************************)
LEMMA NoStopTrans ==
  ASSUME NEW x \in World, NEW y \in World, NEW z \in World, NEW c,
         Queues(x, y, c), Queues(y, z, c), NoStop(x, y), NoStop(y, z)
  PROVE  NoStop(x, z)
<1>1. \A i \in New(x.events, z.events) :
          (i \in New(x.events, y.events) /\ z.events[i] = y.events[i]) \/ i \in New(y.events, z.events)
  BY Has, GrowsTrans DEF Queues
<1> QED BY <1>1 DEF NoStop

LEMMA NoStopSame ==
  ASSUME NEW x \in World, NEW y, y.events = x.events
  PROVE  NoStop(x, y)
BY Has, GrowsSame DEF NoStop

LEMMA StcpMoveIs ==
  ASSUME NEW x \in World, NEW c \in Conns, NEW s \in StcpStates, NEW y, y = StcpMove(x, c, s)
  PROVE  /\ Sess(x, y, c) /\ y \in World /\ y.failed = x.failed /\ y.stcp[c].st = s
         /\ y.us = x.us /\ y.hdr = x.hdr /\ y.pipe = x.pipe /\ y.events = x.events
         /\ y.role = x.role
<1> DEFINE r == [x.stcp[c] EXCEPT !.st = s]
<1>1. x.stcp[c] \in StcpRecs /\ x.stcp \in [Conns -> StcpRecs]
  BY Has
<1>2. r \in StcpRecs /\ r.st = s
  BY <1>1 DEF StcpRecs
<1>3. y = [x EXCEPT !.stcp = [x.stcp EXCEPT ![c] = r]]
  BY DEF StcpMove
<1>4. Sess(x, y, c)
  BY <1>2, <1>3, StcpSet
<1>5. /\ y.failed = x.failed /\ y.us = x.us /\ y.hdr = x.hdr /\ y.pipe = x.pipe
      /\ y.events = x.events /\ y.role = x.role /\ y.stcp = [x.stcp EXCEPT ![c] = r]
  BY <1>3 DEF World
<1>6. y.stcp[c] = r
  BY <1>1, <1>5
<1> QED BY <1>2, <1>4, <1>5, <1>6 DEF Sess

(* A session that ends tells whoever runs it.                              *)
LEMMA StcpRaiseIs ==
  ASSUME NEW x \in World, NEW c \in Conns, NEW type \in SessTypes, NEW v, v.role = x.role,
         NEW y, y = Raise(x, End(v, c, "STCP"), c, type)
  PROVE  /\ Sess(x, y, c) /\ y \in World
         /\ y.failed = Nil => /\ x.failed = Nil /\ y.us = x.us /\ y.hdr = x.hdr
                              /\ y.stcp = x.stcp /\ y.pipe = x.pipe
         /\ y.failed = Nil /\ type # "STOPPED" => NoStop(x, y)
<1> DEFINE o == End(v, c, "STCP")
<1>1. o = End(x, c, "STCP") /\ o \in Owners /\ o.src = "STCP"
  BY DEF End, Owners, ToOne, Sources
<1>2. SessEvent(x, Item(o, c, type), c)
  BY <1>1 DEF SessEvent, Item, SessTypes
<1>3. Sess(x, y, c)
  BY <1>1, <1>2, RaiseOp
<1>4. ASSUME y.failed = Nil
      PROVE  y.us = x.us /\ y.hdr = x.hdr /\ y.stcp = x.stcp /\ y.pipe = x.pipe
             /\ y.events = Append(x.events, Item(o, c, type))
  BY <1>1, <1>2, <1>4, RaiseOp
<1>5. Item(o, c, type) \in Events
  BY <1>1, Names DEF Item, Events, Owners, SessTypes
<1>6. ASSUME y.failed = Nil, type # "STOPPED"
      PROVE  NoStop(x, y)
  <2>1. \A i \in New(x.events, y.events) : y.events[i] = Item(o, c, type)
    <3> DEFINE it == Item(o, c, type)
    <3>1. y.events = Append(x.events, it) /\ it \in Events /\ x.events \in Seq(Events)
      BY <1>4, <1>5, <1>6, Has
    <3> HIDE DEF it
    <3>2. \A i \in New(x.events, Append(x.events, it)) : Append(x.events, it)[i] = it
      BY <3>1, GrowsOne
    <3>3. \A i \in New(x.events, y.events) : y.events[i] = it
      BY <3>1, <3>2
    <3> QED BY <3>3 DEF it
  <2>2. Item(o, c, type).type # "STOPPED"
    BY <1>6 DEF Item
  <2> QED BY <2>1, <2>2 DEF NoStop
<1> QED BY <1>3, <1>4, <1>6 DEF Sess

LEMMA StcpErrorIs ==
  ASSUME NEW x \in World, NEW c \in Conns, NEW y, y = StcpError(x, c)
  PROVE  /\ Sess(x, y, c)
         /\ y.failed = Nil => /\ y.us = x.us /\ y.hdr = x.hdr /\ y.pipe = x.pipe
                              /\ y.stcp[c].st = "DONE" /\ NoStop(x, y)
<1> DEFINE a == StcpMove(x, c, "DONE")
<1>1. /\ Sess(x, a, c) /\ a \in World /\ a.stcp[c].st = "DONE" /\ a.us = x.us /\ a.hdr = x.hdr
      /\ a.pipe = x.pipe /\ a.events = x.events /\ a.role = x.role
  BY StcpMoveIs DEF StcpStates
<1>2. y = Raise(a, End(x, c, "STCP"), c, "ERROR")
  BY DEF StcpError
<1>6. "ERROR" \in SessTypes
  BY DEF SessTypes, EventTypes
<1>3. Sess(a, y, c)
  BY <1>1, <1>2, <1>6, StcpRaiseIs
<1>7. y.failed = Nil => y.us = a.us /\ y.hdr = a.hdr /\ y.stcp = a.stcp /\ y.pipe = a.pipe
  <2> HIDE DEF a
  <2> QED BY <1>1, <1>2, <1>6, StcpRaiseIs
<1>4. y.failed = Nil => NoStop(a, y)
  BY <1>1, <1>2, StcpRaiseIs DEF SessTypes, EventTypes
<1>5. Sess(x, y, c)
  BY <1>1, <1>3, SessTrans
<1> QED BY <1>1, <1>4, <1>5, <1>7 DEF NoStop

PipeOk(x, c) == x.pipe[c].st = "ACTIVE" => x.stcp[c].st \in {"ACTIVE", "DONE"}
Restful(x, c) == x.hdr[c].st = "IDLE" /\ x.us[c].owner = End(x, c, "USOCK")

(* stcp.c: grid_stcp_shutdown, when the header exchange is over.           *)
LEMMA StcpStoppingIs ==
  ASSUME NEW x \in World, NEW c \in Conns, NEW y, y = StcpStopping(x, c)
  PROVE  /\ Sess(x, y, c)
         /\ y.failed = Nil =>
              /\ y.pipe = x.pipe
              /\ y = x \/ (y.stcp[c].st = "IDLE" /\ Restful(y, c))
<1>1. CASE ~HdrIdle(x, c)
  BY <1>1, SessSame DEF StcpStopping
<1>2. CASE HdrIdle(x, c)
  <2> DEFINE a == StcpMove(x, c, "IDLE")
             b == SwapOwner(a, c, End(x, c, "USOCK"))
  <2>1. /\ Sess(x, a, c) /\ a \in World /\ a.stcp[c].st = "IDLE" /\ a.us = x.us /\ a.hdr = x.hdr
        /\ a.pipe = x.pipe /\ a.role = x.role
    BY StcpMoveIs DEF StcpStates
  <2>2. /\ Below(a, b, c) /\ b.failed = a.failed /\ b.us[c].owner = End(x, c, "USOCK")
        /\ b.hdr = a.hdr /\ b.stcp = a.stcp /\ b.pipe = a.pipe
    BY <2>1, OwnersAre, SwapOwnerIs
  <2>3. b.role = x.role /\ b \in World
    <3>1. b.role = a.role
      BY <2>1 DEF SwapOwner, World
    <3> QED BY <2>1, <2>2, <3>1, BelowIs
  <2>4. y = Raise(b, End(x, c, "STCP"), c, "STOPPED")
    BY <1>2 DEF StcpStopping
  <2>9. "STOPPED" \in SessTypes
    BY DEF SessTypes, EventTypes
  <2>10. Sess(b, y, c) /\ y \in World
    <3> HIDE DEF b
    <3> QED BY <2>3, <2>4, <2>9, StcpRaiseIs
  <2>5. y.failed = Nil => y.us = b.us /\ y.hdr = b.hdr /\ y.stcp = b.stcp /\ y.pipe = b.pipe
    <3> HIDE DEF b
    <3> QED BY <2>3, <2>4, <2>9, StcpRaiseIs
  <2>6. Sess(x, b, c)
    BY <2>1, <2>2, SessTrans DEF Below
  <2>7. Sess(x, y, c)
    BY <2>6, <2>10, SessTrans
  <2>8. y.failed = Nil => y.role = x.role
    BY <2>7 DEF Sess, SameEp
  <2> QED BY <1>2, <2>1, <2>2, <2>5, <2>7, <2>8 DEF Restful, HdrIdle, End
<1> QED BY <1>1, <1>2

(* The step of a session that was neither started nor stopped from outside.*)
Turn(x, y, c) ==
    /\ Sess(x, y, c)
    /\ y.failed = Nil =>
         /\ x.stcp[c].st = "IDLE" => y.stcp[c].st = "IDLE"
         /\ x.stcp[c].st = "IDLE" /\ Restful(x, c) => Restful(y, c)
         /\ x.stcp[c].st # "IDLE" /\ y.stcp[c].st = "IDLE" =>
                x.stcp[c].st = "STOPPING" /\ Restful(y, c)
         /\ y.stcp[c].st = "STOPPING" => x.stcp[c].st = "STOPPING"
         /\ y.stcp[c].st \notin {"IDLE", "STOPPING"} => x.stcp[c].st \notin {"IDLE", "STOPPING"}
         /\ NoStop(x, y) \/ (x.stcp[c].st = "STOPPING" /\ y.stcp[c].st = "IDLE")
         /\ PipeOk(x, c) => PipeOk(y, c)

LEMMA BelowTurn ==
  ASSUME NEW x \in World, NEW y, NEW c \in Conns, Below(x, y, c),
         y.failed = Nil /\ x.stcp[c].st = "IDLE" /\ Restful(x, c) => Restful(y, c)
  PROVE  Turn(x, y, c)
<1> SUFFICES ASSUME y.failed = Nil
             PROVE  /\ y.stcp[c].st = x.stcp[c].st /\ NoStop(x, y)
                    /\ PipeOk(x, c) => PipeOk(y, c)
  BY DEF Turn, Below
<1> QED BY DEF Below, Calm, NoStop, PipeOk

LEMMA UsOpTurn ==
  ASSUME NEW x \in World, NEW y, NEW c \in Conns, UsOp(x, y, c)
  PROVE  Turn(x, y, c)
<1>1. Below(x, y, c) /\ (y.failed = Nil => y.hdr[c] = x.hdr[c] /\ y.us[c].owner = x.us[c].owner)
  BY DEF UsOp
<1>2. y.failed = Nil => End(y, c, "USOCK") = End(x, c, "USOCK")
  BY <1>1 DEF Below, Sess, SameEp, End
<1> QED BY <1>1, <1>2, BelowTurn DEF Restful

LEMMA HdrHandlerTurn ==
  ASSUME NEW x \in World, NEW c \in Conns, NEW e, NEW y \in HdrHandler(x, c, e)
  PROVE  Turn(x, y, c)
<1>1. Below(x, y, c) /\ (x.hdr[c].st = "IDLE" => y.failed # Nil)
  BY HdrHandlerOp
<1> QED BY <1>1, BelowTurn DEF Restful

LEMMA PipeHandlerTurn ==
  ASSUME NEW x \in World, NEW c \in Conns, NEW e, NEW y \in PipeHandler(x, c, e)
  PROVE  Turn(x, y, c)
BY PipeHandlerOp, UsOpTurn

Live == {"PROTOHDR", "STOPPING_STREAMHDR", "ACTIVE", "SHUTTING_DOWN", "DONE"}

(* From one live state to another. *)
LEMMA LiveTurn ==
  ASSUME NEW x \in World, NEW y, NEW c \in Conns, Sess(x, y, c), x.stcp[c].st \in Live,
         y.failed = Nil => /\ y.stcp[c].st \in Live /\ NoStop(x, y)
                           /\ PipeOk(x, c) => PipeOk(y, c)
  PROVE  Turn(x, y, c)
BY DEF Turn, Live

(* stcp.c: an error takes the pipe back, an exchanged header offers it.    *)
LEMMA StcpErrorTurn ==
  ASSUME NEW x \in World, NEW c \in Conns, x.stcp[c].st \in Live, NEW y, y = StcpError(x, c)
  PROVE  Turn(x, y, c)
<1>1. /\ Sess(x, y, c)
      /\ y.failed = Nil => y.pipe = x.pipe /\ y.stcp[c].st = "DONE" /\ NoStop(x, y)
  BY StcpErrorIs
<1> QED BY <1>1, LiveTurn DEF Live, PipeOk

LEMMA StcpActivateTurn ==
  ASSUME NEW x \in World, NEW c \in Conns, x.stcp[c].st \in Live, NEW y \in StcpActivate(x, c)
  PROVE  Turn(x, y, c)
<1>1. PICK v \in PipeStart(x, c) :
          y \in IF v.failed # Nil THEN {v}
                ELSE IF v.pipe[c].st = "FAILED" THEN {StcpError(v, c)}
                ELSE UsockRecv([v EXCEPT !.stcp[c] = [NewStcp EXCEPT !.st = "ACTIVE"]], c)
  BY DEF StcpActivate
<1>2. /\ Sess(x, v, c)
      /\ v.failed = Nil => Same(x, v, c) /\ v.pipe[c].st \in {"ACTIVE", "FAILED"} /\ NoStop(x, v)
  BY PipeStartIs
<1>3. CASE v.failed # Nil
  BY <1>1, <1>2, <1>3, LiveTurn
<1>4. CASE v.failed = Nil /\ v.pipe[c].st = "FAILED"
  <2>1. y = StcpError(v, c) /\ v \in World
    BY <1>1, <1>2, <1>4 DEF Sess
  <2>2. /\ Sess(v, y, c)
        /\ y.failed = Nil => y.pipe = v.pipe /\ y.stcp[c].st = "DONE" /\ NoStop(v, y)
    BY <2>1, StcpErrorIs
  <2>3. Sess(x, y, c)
    BY <1>2, <2>2, SessTrans
  <2>4. y.failed = Nil => Queues(x, v, c) /\ Queues(v, y, c) /\ y \in World
    BY <1>2, <1>4, <2>2 DEF Sess
  <2>5. y.failed = Nil => NoStop(x, y)
    BY <1>2, <1>4, <2>1, <2>2, <2>4, NoStopTrans
  <2> QED BY <1>4, <2>2, <2>3, <2>5, LiveTurn DEF Live, PipeOk
<1>5. CASE v.failed = Nil /\ v.pipe[c].st # "FAILED"
  <2> DEFINE r == [NewStcp EXCEPT !.st = "ACTIVE"]
             a == [v EXCEPT !.stcp[c] = r]
  <2>1. r \in StcpRecs /\ r.st = "ACTIVE"
    BY DEF NewStcp, StcpRecs, StcpStates
  <2>2. v \in World
    BY <1>2 DEF Sess
  <2>3. Sess(v, a, c) /\ a \in World
    BY <2>1, <2>2, StcpSet DEF Sess
  <2>4. /\ a.events = v.events /\ a.stcp = [v.stcp EXCEPT ![c] = r] /\ v.stcp \in [Conns -> StcpRecs]
        /\ a.pipe = v.pipe /\ a.failed = v.failed
    BY <2>2 DEF World
  <2>5. a.stcp[c].st = "ACTIVE"
    BY <2>1, <2>4
  <2>6. y \in UsockRecv(a, c)
    BY <1>1, <1>5
  <2>7. Below(a, y, c)
    BY <2>3, <2>6, UsockRecvOp, BelowIs
  <2>8. Sess(x, a, c)
    BY <1>2, <2>3, SessTrans
  <2>9. Sess(x, y, c)
    BY <2>7, <2>8, SessTrans DEF Below
  <2>10. y.failed = Nil => /\ y.stcp[c].st = "ACTIVE" /\ NoStop(a, y)
                           /\ Queues(a, y, c) /\ Queues(x, a, c) /\ y \in World
    BY <2>5, <2>7, <2>8 DEF Below, Calm, NoStop, Sess
  <2>11. NoStop(x, a)
    BY <1>2, <1>5, <2>4 DEF NoStop
  <2>12. y.failed = Nil => NoStop(x, y)
    BY <2>3, <2>10, <2>11, NoStopTrans
  <2> QED BY <2>9, <2>10, <2>12, LiveTurn DEF Live, PipeOk
<1> QED BY <1>3, <1>4, <1>5

LEMMA HasMsgOp ==
  ASSUME NEW x \in World, NEW c \in Conns
  PROVE  UsOp(x, HasMsg(x, c), c)
<1> DEFINE a == [x EXCEPT !.stcp[c].in = "HASMSG"]
<1>1. UsOp(x, a, c) /\ a \in World
  BY StcpFieldOps, UsOpWorld
<1>2. UsOp(a, PipeReceived(a, c), c)
  BY <1>1, PipeAnswerOps
<1> QED BY <1>1, <1>2, UsOpTrans DEF HasMsg

LEMMA FailTurn ==
  ASSUME NEW x \in World, NEW c \in Conns, NEW s \in Failures \ {Nil}
  PROVE  Turn(x, Fail(x, s), c)
BY FailOp, UsOpTurn

LEMMA GotHeaderTurn ==
  ASSUME NEW x \in World, NEW c \in Conns, x.stcp[c].st \in Live, NEW y \in GotHeader(x, c)
  PROVE  Turn(x, y, c)
<1> DEFINE a == [x EXCEPT !.stcp[c].in = "BODY"]
<1>1. UsOp(x, a, c) /\ a \in World
  BY StcpFieldOps, UsOpWorld
<1>2. \A z \in UsockRecv(a, c) : UsOp(x, z, c)
  BY <1>1, UsockRecvOp, UsOpTrans
<1>3. \/ y = HasMsg(x, c) \/ y \in UsockRecv(a, c) \/ y = StcpError(x, c)
      \/ y = Fail(x, "sipc: message type")
  BY DEF GotHeader, StcpGotHeader, SipcGotHeader, GotAnyHeader, Bad
<1>4. Turn(x, Fail(x, "sipc: message type"), c)
  BY FailTurn, Sites
<1> QED BY <1>2, <1>3, <1>4, HasMsgOp, UsOpTurn, StcpErrorTurn

(* stcp.c: an event in ACTIVE.                                             *)
LEMMA StcpActiveTurn ==
  ASSUME NEW x \in World, NEW c \in Conns, x.stcp[c].st \in Live, NEW e,
         NEW y \in StcpActive(x, c, e)
  PROVE  Turn(x, y, c)
<1> DEFINE a == [x EXCEPT !.stcp[c].out = "IDLE"]
           p == PipeStop(x, c)
<1>1. UsOp(x, a, c) /\ a \in World
  BY StcpFieldOps, UsOpWorld
<1>2. UsOp(x, PipeSent(a, c), c)
  BY <1>1, PipeAnswerOps, UsOpTrans
<1>3. Sess(x, p, c) /\ p \in World
      /\ (p.failed = Nil => Same(x, p, c) /\ p.pipe[c].st = "IDLE" /\ p.events = x.events)
  BY PipeStopIs DEF Sess
<1>4. CASE y = StcpMove(p, c, "SHUTTING_DOWN")
  <2>0. "SHUTTING_DOWN" \in StcpStates
    BY DEF StcpStates
  <2>1. /\ Sess(p, y, c) /\ y.failed = p.failed /\ y.stcp[c].st = "SHUTTING_DOWN"
        /\ y.pipe = p.pipe /\ y.events = p.events
    <3> HIDE DEF p
    <3> QED BY <1>3, <1>4, <2>0, StcpMoveIs
  <2>2. Sess(x, y, c)
    BY <1>3, <2>1, SessTrans
  <2>3. y.failed = Nil => NoStop(x, y)
    BY <1>3, <2>1, NoStopSame
  <2> QED BY <1>3, <2>1, <2>2, <2>3, LiveTurn DEF Live, PipeOk
<1>5. CASE y = StcpError(p, c)
  <2>1. /\ Sess(p, y, c)
        /\ y.failed = Nil => y.pipe = p.pipe /\ y.stcp[c].st = "DONE" /\ NoStop(p, y)
    BY <1>3, <1>5, StcpErrorIs
  <2>2. Sess(x, y, c)
    BY <1>3, <2>1, SessTrans
  <2>3. y.failed = Nil => p.failed = Nil
    BY <2>1 DEF Sess
  <2>4. y.failed = Nil => NoStop(x, y)
    BY <1>3, <2>1, <2>3 DEF NoStop
  <2> QED BY <1>3, <2>1, <2>2, <2>3, <2>4, LiveTurn DEF Live, PipeOk
<1>6. \/ y = PipeSent(a, c) \/ y \in GotHeader(x, c) \/ y = HasMsg(x, c)
      \/ y = StcpMove(p, c, "SHUTTING_DOWN") \/ y = StcpError(p, c)
      \/ y \in {Fail(x, "stcp: sent"), Fail(x, "stcp: received"), Fail(x, "stcp: bad event")}
  BY DEF StcpActive, Bad
<1> QED BY <1>2, <1>4, <1>5, <1>6, GotHeaderTurn, HasMsgOp, UsOpTurn, FailTurn, Sites

(* stcp.c: every event a session that is not being stopped gets.           *)
LEMMA StcpHandlerTurn ==
  ASSUME NEW x \in World, NEW c \in Conns, NEW e,
         NEW y \in StcpHandler(x, c, e) \cup SipcHandler(x, c, e)
  PROVE  Turn(x, y, c)
<1> DEFINE st == x.stcp[c].st
           a == StcpMove(x, c, "STOPPING_STREAMHDR")
<1>1. CASE st = "STOPPING" /\ y = StcpStopping(x, c)
  <2>1. /\ Sess(x, y, c)
        /\ y.failed = Nil => y.pipe = x.pipe /\ (y = x \/ (y.stcp[c].st = "IDLE" /\ Restful(y, c)))
    BY <1>1, StcpStoppingIs
  <2>2. y = x => Turn(x, y, c)
    BY UsOpSame, UsOpTurn
  <2> QED BY <1>1, <2>1, <2>2 DEF Turn, PipeOk
<1>2. CASE st = "PROTOHDR" /\ y = HdrStop(a, c)
  <2>1. /\ Sess(x, a, c) /\ a \in World /\ a.stcp[c].st = "STOPPING_STREAMHDR" /\ a.pipe = x.pipe
        /\ a.events = x.events
    BY StcpMoveIs DEF StcpStates
  <2>2. Below(a, y, c)
    BY <1>2, <2>1, HdrStopOp
  <2>3. Sess(x, y, c)
    BY <2>1, <2>2, SessTrans DEF Below
  <2>4. y.failed = Nil => /\ y.stcp[c].st = "STOPPING_STREAMHDR" /\ NoStop(x, y)
                          /\ y.pipe[c].st = x.pipe[c].st
    BY <2>1, <2>2 DEF Below, Calm, NoStop
  <2> QED BY <1>2, <2>3, <2>4, LiveTurn DEF Live, PipeOk
<1>3. CASE st \in Live /\ y = StcpError(x, c)
  BY <1>3, StcpErrorTurn
<1>4. CASE st \in Live /\ y \in StcpActivate(x, c)
  BY <1>4, StcpActivateTurn
<1>5. CASE st \in Live /\ y \in StcpActive(x, c, e)
  BY <1>5, StcpActiveTurn
<1>6. CASE y \in {Fail(x, "stcp: event when done"), Fail(x, "stcp: bad event")}
  BY <1>6, FailTurn, Sites
<1>7. ASSUME y \in StcpHandler(x, c, e)
      PROVE  \/ st = "STOPPING" /\ y = StcpStopping(x, c)
             \/ st = "PROTOHDR" /\ y = HdrStop(a, c)
             \/ st \in Live /\ y = StcpError(x, c)
             \/ st \in Live /\ y \in StcpActivate(x, c)
             \/ st \in Live /\ y \in StcpActive(x, c, e)
             \/ y \in {Fail(x, "stcp: event when done"), Fail(x, "stcp: bad event")}
  BY <1>7 DEF StcpHandler, StcpClosed, Bad, Live
<1>8. ASSUME y \in SipcHandler(x, c, e)
      PROVE  \/ y \in StcpHandler(x, c, e)
             \/ st \in Live /\ y = StcpError(x, c)
             \/ st \in Live /\ y \in StcpActive(x, c, e)
             \/ y \in {Fail(x, "stcp: event when done"), Fail(x, "stcp: bad event")}
  BY <1>8 DEF SipcHandler, SipcActive, SipcClosed, StcpClosed, Bad, Live
<1> QED BY <1>1, <1>2, <1>3, <1>4, <1>5, <1>6, <1>7, <1>8

(***************************************************************************)
(* The session is started and stopped from outside.                        *)
(***************************************************************************)
LEMMA SessionStartIs ==
  ASSUME NEW x \in World, NEW c \in Conns, NEW y \in SessionStart(x, c)
  PROVE  /\ Sess(x, y, c)
         /\ y.failed = Nil => /\ y.stcp[c].st = "PROTOHDR" /\ y.pipe[c].st = x.pipe[c].st
                              /\ NoStop(x, y) /\ x.stcp[c].st = "IDLE"
<1> DEFINE a == SwapOwner(x, c, StcpOwner(c))
           b == StcpMove(a, c, "PROTOHDR")
<1>1. CASE y \in {Fail(x, "stcp started twice"), Fail(x, "sipc started twice")}
  <2>1. \A s \in Failures \ {Nil} : UsOp(x, Fail(x, s), c) /\ Fail(x, s).failed # Nil
    BY FailOp, FailIs
  <2> QED BY <1>1, <2>1, Sites DEF UsOp, Below
<1>2. CASE x.stcp[c].st = "IDLE" /\ y \in HdrStart(b, c)
  <2>1. Below(x, a, c) /\ a \in World /\ a.events = x.events /\ a.pipe = x.pipe
    BY OwnersAre, SwapOwnerIs, BelowIs
  <2>2. /\ Sess(a, b, c) /\ b \in World /\ b.stcp[c].st = "PROTOHDR" /\ b.events = a.events
        /\ b.pipe = a.pipe
    BY <2>1, StcpMoveIs DEF StcpStates
  <2>3. Below(b, y, c)
    BY <1>2, <2>2, HdrStartOp
  <2>4. Sess(x, b, c)
    BY <2>1, <2>2, SessTrans DEF Below
  <2>5. Sess(x, y, c)
    BY <2>3, <2>4, SessTrans DEF Below
  <2>6. y.failed = Nil => /\ y.stcp[c].st = "PROTOHDR" /\ y.pipe[c].st = x.pipe[c].st
                          /\ NoStop(x, y)
    BY <2>1, <2>2, <2>3 DEF Below, Calm, NoStop
  <2> QED BY <1>2, <2>5, <2>6
<1> QED BY <1>1, <1>2 DEF SessionStart, StcpStart, SipcStart, StcpStarted, SipcStarted, StcpIdle, Bad

LEMMA SessionStopIs ==
  ASSUME NEW x \in World, NEW c \in Conns, NEW y, y = SessionStop(x, c)
  PROVE  /\ Sess(x, y, c)
         /\ y.failed = Nil =>
              \/ y = x /\ x.stcp[c].st \in {"IDLE", "STOPPING"}
              \/ /\ x.stcp[c].st \in Live /\ y.pipe[c].st = "IDLE"
                 /\ y.stcp[c].st = "STOPPING" \/ (y.stcp[c].st = "IDLE" /\ Restful(y, c))
                 /\ y.stcp[c].st = "STOPPING" => NoStop(x, y)
<1>0. y = StcpStop(x, c)
  BY DEF SessionStop, SipcStop
<1>1. CASE x.stcp[c].st \in {"IDLE", "STOPPING"}
  BY <1>0, <1>1, SessSame DEF StcpStop
<1>2. CASE x.stcp[c].st \notin {"IDLE", "STOPPING"}
  <2> DEFINE a == PipeStop(x, c)
             b == HdrStop(a, c)
             d == StcpMove(b, c, "STOPPING")
  <2>0. x.stcp[c].st \in Live
    BY <1>2, Has DEF StcpRecs, StcpStates, Live
  <2>1. Sess(x, a, c) /\ a \in World
        /\ (a.failed = Nil => a.pipe[c].st = "IDLE" /\ a.events = x.events)
    BY PipeStopIs DEF Sess
  <2>2. Below(a, b, c) /\ b \in World
    BY <2>1, HdrStopOp, BelowIs
  <2>3. /\ Sess(b, d, c) /\ d \in World /\ d.failed = b.failed /\ d.stcp[c].st = "STOPPING"
        /\ d.pipe = b.pipe /\ d.events = b.events
    BY <2>2, StcpMoveIs DEF StcpStates
  <2>4. y = StcpStopping(d, c)
    BY <1>0, <1>2 DEF StcpStop
  <2>5. /\ Sess(d, y, c)
        /\ y.failed = Nil => y.pipe = d.pipe /\ (y = d \/ (y.stcp[c].st = "IDLE" /\ Restful(y, c)))
    BY <2>3, <2>4, StcpStoppingIs
  <2>6. Sess(x, b, c)
    BY <2>1, <2>2, SessTrans DEF Below
  <2>7. Sess(x, d, c)
    BY <2>3, <2>6, SessTrans
  <2>8. Sess(x, y, c)
    BY <2>5, <2>7, SessTrans
  <2>9. ASSUME y.failed = Nil
        PROVE  y.pipe[c].st = "IDLE" /\ (y = d => NoStop(x, y))
    <3>1. d.failed = Nil /\ b.failed = Nil /\ a.failed = Nil
      BY <2>2, <2>3, <2>5, <2>9 DEF Sess, Below
    <3>2. b.pipe[c].st = "IDLE" /\ NoStop(x, b)
      BY <2>1, <2>2, <3>1 DEF Below, Calm, NoStop
    <3>3. NoStop(x, d)
      BY <2>3, <3>2 DEF NoStop
    <3> QED BY <2>3, <2>5, <2>9, <3>2, <3>3
  <2> QED BY <2>0, <2>3, <2>5, <2>8, <2>9
<1> QED BY <1>1, <1>2


(***************************************************************************)
(* The invariant of an endpoint that was not asked to stop.                *)
(***************************************************************************)
Pending(x, src, p, type) ==
    \E i \in 1..Len(x.events) :
        x.events[i].src = src /\ x.events[i].ptr = p /\ x.events[i].type = type

(* Who gets the events, and that a listener short of descriptors reports   *)
(* it once.                                                                *)
Routed(x, e) ==
    /\ e.src = "STCP" => /\ e.ptr \in Conns
                         /\ e.to = End(x, e.ptr, "STCP").to /\ e.of = End(x, e.ptr, "STCP").of
    /\ e.src = "ATCP" => e.ptr \in Conns /\ e.to = "ep"
    /\ e.type = "ACCEPT_ERROR" => /\ e.src = "LISTENER" /\ e.ptr = Listener
                                 /\ x.us[Listener].st = "ACCEPTING_ERROR"
EventsOk(x) == Distinct(x) /\ \A i \in 1..Len(x.events) : Routed(x, x.events[i])

(* A session runs exactly while its endpoint, or its atcp, counts it as a  *)
(* connection, and is being stopped only while that waits for it.          *)
Attached(x, c) ==
    IF x.role = "bind" THEN x.atcp[c] = "ACTIVE" ELSE c = Peer /\ x.ep = "ACTIVE"
Breaking(x, c) ==
    IF x.role = "bind" THEN x.atcp[c] = "STOPPING_STCP" ELSE c = Peer /\ x.ep = "STOPPING_STCP"
LinkOk(x, c) ==
    /\ x.stcp[c].st = "STOPPING" => Breaking(x, c)
    /\ x.stcp[c].st \notin {"IDLE", "STOPPING"} => Attached(x, c)
    /\ x.stcp[c].st = "IDLE" => Restful(x, c)
    /\ Pending(x, "STCP", c, "STOPPED") => x.stcp[c].st = "IDLE" /\ Breaking(x, c)
    /\ PipeOk(x, c)
AtcpOk(x, c) ==
    /\ Pending(x, "ATCP", c, "ERROR") => x.atcp[c] = "DONE"
    /\ Pending(x, "ATCP", c, "STOPPED") => x.atcp[c] = "IDLE"
    /\ Pending(x, "ATCP", c, "ACCEPTED") => c = x.cur /\ x.atcp[c] \notin {"FREE", "ACCEPTING"}
    /\ x.atcp[c] = "ACCEPTING" => x.role = "bind" /\ c = x.cur
    /\ x.role = "bind" /\ x.atcp[c] = "FREE" => x.us[c].st = "IDLE"
    /\ x.role = "connect" => x.atcp[c] = "FREE"
    /\ x.us[c].st = "BEING_ACCEPTED" => x.atcp[c] = "ACCEPTING"
    /\ x.us[c].st \notin Listened

(* The counters, at every event. *)
AliveOf(x) == IF x.role = "bind" THEN Cardinality({c \in Conns : x.atcp[c] = "ACTIVE"})
              ELSE IF x.ep = "ACTIVE" THEN 1 ELSE 0
PipesOf(x) == Cardinality({c \in Conns : x.pipe[c].st = "ACTIVE"})
GaugesOk(x) ==
    /\ x.stat["inprogress"] = IF x.role = "connect" /\ x.ep = "CONNECTING" THEN 1 ELSE 0
    /\ x.stat["errors"] = IF x.error THEN 1 ELSE 0
    /\ x.role = "connect" /\ x.ep = "ACTIVE" => ~x.error
CountsOk(x) ==
    /\ GaugesOk(x) /\ x.stat["alive"] = AliveOf(x) /\ x.stat["current"] = PipesOf(x)

(* The listener, and how far the wait for the next connection is.          *)
ListenerOk(x) ==
    /\ x.us[Listener].st \in {"IDLE", "LISTENING", "ACCEPTING", "ACCEPTING_ERROR"}
    /\ x.us[Listener].st # "IDLE" => x.role = "bind" /\ x.ep = "ACTIVE"
    /\ \A i \in 1..Len(x.tasks) : x.tasks[i].on = Listener => x.tasks[i].kind = "accept"
    /\ \A i \in 1..Len(x.copy) : x.copy[i].on = Listener => x.copy[i].kind = "accept"
AcceptTask == [kind |-> "accept", on |-> Listener]
Queued(x) == \/ \E i \in 1..Len(x.tasks) : x.tasks[i] = AcceptTask
             \/ \E i \in 1..Len(x.copy) : x.copy[i] = AcceptTask
Await(x, c) ==
    /\ x.us[Listener].st = "ACCEPTING" /\ x.atcp[c] = "ACCEPTING" /\ x.us[c].st \in Fresh
    /\ x.us[Listener].asock = c /\ x.us[c].asock = Listener
    /\ x.us[Listener].owner = AtcpOwner(c, "LISTENER")
    /\ Queued(x) \/ (x.us[Listener].reg /\ x.us[Listener].in)
Arrived(x, c) ==
    /\ x.us[Listener].st = "LISTENING" /\ x.atcp[c] = "ACCEPTING"
    /\ \E i \in 1..Len(x.events) :
          x.events[i] = [to |-> "atcp", of |-> c, src |-> "USOCK", ptr |-> c, type |-> "ACCEPTED"]
Short(x, c) ==
    /\ x.us[Listener].st = "ACCEPTING_ERROR" /\ x.atcp[c] = "ACCEPTING" /\ x.us[c].st \in Fresh
    /\ x.us[Listener].owner = AtcpOwner(c, "LISTENER")
    /\ \E i \in 1..Len(x.events) :
          x.events[i] = [to |-> "atcp", of |-> c, src |-> "LISTENER", ptr |-> Listener,
                         type |-> "ACCEPT_ERROR"]
Reported(x, c) == x.us[Listener].st = "LISTENING" /\ Pending(x, "ATCP", c, "ACCEPTED")
Phase(x, c) == Await(x, c) \/ Arrived(x, c) \/ Short(x, c) \/ Reported(x, c)
PhasesOk(x) == x.role = "bind" /\ x.ep = "ACTIVE" => x.cur \in Conns /\ Phase(x, x.cur)

Running(x) == x.fsm = "ACTIVE"
Core(x) == /\ x \in World /\ Running(x) /\ EventsOk(x)
           /\ \A c \in Conns : LinkOk(x, c) /\ AtcpOk(x, c)
           /\ CountsOk(x) /\ ListenerOk(x)

(* A connection that enters or leaves a set changes its size by one.       *)
LEMMA CountOne ==
  ASSUME NEW c \in Conns, NEW S \in SUBSET Conns, NEW T \in SUBSET Conns, S \ {c} = T \ {c}
  PROVE  /\ Cardinality(S) \in Nat /\ Cardinality(T) \in Nat
         /\ Cardinality(S) - (IF c \in S THEN 1 ELSE 0)
                = Cardinality(T) - (IF c \in T THEN 1 ELSE 0)
<1>1. IsFiniteSet(S) /\ IsFiniteSet(T)
  BY Names, FS_Subset
<1>2. Cardinality(S) \in Nat /\ Cardinality(T) \in Nat
  BY <1>1, FS_CardinalityType
<1>3. /\ Cardinality(S \ {c}) = IF c \in S THEN Cardinality(S) - 1 ELSE Cardinality(S)
      /\ Cardinality(T \ {c}) = IF c \in T THEN Cardinality(T) - 1 ELSE Cardinality(T)
  BY <1>1, FS_RemoveElement
<1> QED BY <1>2, <1>3

(* A step of the session of c keeps each part of the invariant.            *)
LEMMA SessWorld ==
  ASSUME NEW x, NEW y, NEW c, Sess(x, y, c)
  PROVE  y \in World /\ (y.failed = Nil => x.failed = Nil)
BY DEF Sess

(* What is queued stays queued, and what is new is of the session.         *)
LEMMA SessPending ==
  ASSUME NEW x \in World, NEW y, NEW c \in Conns, Sess(x, y, c), y.failed = Nil
  PROVE  /\ \A i \in 1..Len(x.events) : i \in 1..Len(y.events) /\ y.events[i] = x.events[i]
         /\ \A i \in 1..Len(y.events) :
               \/ i \in 1..Len(x.events) /\ y.events[i] = x.events[i]
               \/ i \in New(x.events, y.events) /\ SessEvent(y, y.events[i], c)
         /\ \A i \in 1..Len(x.tasks) : i \in 1..Len(y.tasks) /\ y.tasks[i] = x.tasks[i]
         /\ \A i \in 1..Len(y.tasks) :
               \/ i \in 1..Len(x.tasks) /\ y.tasks[i] = x.tasks[i]
               \/ y.tasks[i].on = c
         /\ y.copy = x.copy
<1>1. Queues(x, y, c) /\ y \in World
  BY DEF Sess
<1>2. Len(x.events) \in Nat /\ Len(y.events) \in Nat /\ Len(x.tasks) \in Nat /\ Len(y.tasks) \in Nat
  BY <1>1, Has, LenProperties
<1> QED BY <1>1, <1>2 DEF Queues, Grows, New

LEMMA SessEvents ==
  ASSUME NEW x \in World, NEW y, NEW c \in Conns, Sess(x, y, c), y.failed = Nil, EventsOk(x)
  PROVE  EventsOk(y)
<1>1. /\ Queues(x, y, c) /\ y.role = x.role /\ y.us[Listener] = x.us[Listener]
  BY Names DEF Sess, SameEp, SameOthers
<1>2. Distinct(y)
  BY <1>1 DEF EventsOk, Queues
<1>3. ASSUME NEW i \in 1..Len(y.events)
      PROVE  Routed(y, y.events[i])
  <2>1. CASE i \in 1..Len(x.events) /\ y.events[i] = x.events[i]
    BY <1>1, <2>1 DEF EventsOk, Routed, End
  <2>2. CASE SessEvent(y, y.events[i], c)
    BY <2>2 DEF SessEvent, Routed
  <2> QED BY <2>1, <2>2, SessPending
<1> QED BY <1>2, <1>3 DEF EventsOk

LEMMA SessOtherLink ==
  ASSUME NEW x \in World, NEW y, NEW c \in Conns, Sess(x, y, c), y.failed = Nil,
         NEW d \in Conns \ {c}, LinkOk(x, d)
  PROVE  LinkOk(y, d)
<1>1. /\ y.role = x.role /\ y.ep = x.ep /\ y.atcp = x.atcp
      /\ y.us[d] = x.us[d] /\ y.hdr[d] = x.hdr[d] /\ y.stcp[d] = x.stcp[d] /\ y.pipe[d] = x.pipe[d]
  BY Names DEF Sess, SameEp, SameOthers
<1>2. Pending(y, "STCP", d, "STOPPED") => Pending(x, "STCP", d, "STOPPED")
  BY SessPending DEF Pending, SessEvent
<1> QED BY <1>1, <1>2 DEF LinkOk, Attached, Breaking, Restful, PipeOk, End

LEMMA SessAtcp ==
  ASSUME NEW x \in World, NEW y, NEW c \in Conns, Sess(x, y, c), y.failed = Nil,
         NEW d \in Conns, AtcpOk(x, d)
  PROVE  AtcpOk(y, d)
<1>1. y.role = x.role /\ y.cur = x.cur /\ y.atcp = x.atcp
  BY DEF Sess, SameEp
<1>2. \A type \in EventTypes : Pending(y, "ATCP", d, type) => Pending(x, "ATCP", d, type)
  BY SessPending DEF Pending, SessEvent
<1>3. {"ERROR", "STOPPED", "ACCEPTED"} \subseteq EventTypes
  BY DEF EventTypes
<1>4. /\ x.us[d].st = "IDLE" => y.us[d].st = "IDLE"
      /\ y.us[d].st = "BEING_ACCEPTED" => x.us[d].st = "BEING_ACCEPTED"
      /\ x.us[d].st \notin Listened => y.us[d].st \notin Listened
  BY Names DEF Sess, SameOthers, UsStep, Fresh, Listened
<1> QED BY <1>1, <1>2, <1>3, <1>4 DEF AtcpOk

LEMMA SessCounts ==
  ASSUME NEW x \in World, NEW y, NEW c \in Conns, Sess(x, y, c), y.failed = Nil
  PROVE  /\ GaugesOk(x) => GaugesOk(y)
         /\ AliveOf(y) = AliveOf(x) /\ y.stat["alive"] = x.stat["alive"]
         /\ x.stat["current"] = PipesOf(x) => y.stat["current"] = PipesOf(y)
<1>1. /\ y.role = x.role /\ y.ep = x.ep /\ y.atcp = x.atcp /\ y.error = x.error
      /\ SameStats(x, y, c) /\ y \in World /\ \A d \in Conns \ {c} : y.pipe[d] = x.pipe[d]
  BY DEF Sess, SameEp, SameOthers
<1>2. y.stat["alive"] = x.stat["alive"] /\ y.stat["inprogress"] = x.stat["inprogress"]
      /\ y.stat["errors"] = x.stat["errors"]
  BY <1>1 DEF SameStats, Stats
<1>3. ASSUME x.stat["current"] = PipesOf(x)
      PROVE  y.stat["current"] = PipesOf(y)
  <2> DEFINE S == {d \in Conns : x.pipe[d].st = "ACTIVE"}
             T == {d \in Conns : y.pipe[d].st = "ACTIVE"}
  <2>1. S \ {c} = T \ {c} /\ S \in SUBSET Conns /\ T \in SUBSET Conns
    BY <1>1
  <2>2. /\ Piped(x, c) = IF c \in S THEN 1 ELSE 0
        /\ Piped(y, c) = IF c \in T THEN 1 ELSE 0
    BY DEF Piped
  <2>3. PipesOf(x) = Cardinality(S) /\ PipesOf(y) = Cardinality(T)
    BY DEF PipesOf
  <2>4. x.stat["current"] \in Int /\ y.stat["current"] \in Int
    BY <1>1, Has DEF Stats
  <2>5. y.stat["current"] - Piped(y, c) = x.stat["current"] - Piped(x, c)
    BY <1>1 DEF SameStats
  <2> HIDE DEF S, T
  <2>6. Cardinality(S) \in Nat /\ Cardinality(T) \in Nat
        /\ Cardinality(S) - (IF c \in S THEN 1 ELSE 0) = Cardinality(T) - (IF c \in T THEN 1 ELSE 0)
    BY <2>1, CountOne
  <2> QED BY <1>3, <2>2, <2>3, <2>4, <2>5, <2>6
<1>4. AliveOf(y) = AliveOf(x)
  BY <1>1 DEF AliveOf
<1>5. GaugesOk(x) => GaugesOk(y)
  BY <1>1, <1>2 DEF GaugesOk
<1> QED BY <1>2, <1>3, <1>4, <1>5

LEMMA SessListener ==
  ASSUME NEW x \in World, NEW y, NEW c \in Conns, Sess(x, y, c), y.failed = Nil, ListenerOk(x)
  PROVE  ListenerOk(y)
<1>1. y.role = x.role /\ y.ep = x.ep /\ y.us[Listener] = x.us[Listener] /\ c # Listener
  BY Names DEF Sess, SameEp, SameOthers
<1>2. \A i \in 1..Len(y.tasks) : y.tasks[i].on = Listener => y.tasks[i].kind = "accept"
  BY <1>1, SessPending DEF ListenerOk
<1>3. y.copy = x.copy
  BY SessPending
<1> QED BY <1>1, <1>2, <1>3 DEF ListenerOk

LEMMA SessPhase ==
  ASSUME NEW x \in World, NEW y, NEW c \in Conns, Sess(x, y, c), y.failed = Nil,
         NEW d \in Conns, Phase(x, d)
  PROVE  Phase(y, d)
<1>1. y.atcp = x.atcp /\ y.us[Listener] = x.us[Listener]
  BY Names DEF Sess, SameEp, SameOthers
<1>2. x.us[d].st \in Fresh => y.us[d].st = x.us[d].st
  BY Names DEF Sess, SameOthers, UsStep
<1>3. y.us[d].asock = x.us[d].asock
  BY Names DEF Sess, SameOthers, UsStep
<1>4. Queued(x) => Queued(y)
  BY SessPending DEF Queued
<1>5. CASE Await(x, d)
  <2>1. Await(y, d)
    BY <1>1, <1>2, <1>3, <1>4, <1>5 DEF Await
  <2> QED BY <2>1 DEF Phase
<1>6. CASE Arrived(x, d)
  <2>1. Arrived(y, d)
    BY <1>1, <1>6, SessPending DEF Arrived
  <2> QED BY <2>1 DEF Phase
<1>7. CASE Short(x, d)
  <2>1. Short(y, d)
    BY <1>1, <1>2, <1>7, SessPending DEF Short
  <2> QED BY <2>1 DEF Phase
<1>8. CASE Reported(x, d)
  <2>1. Reported(y, d)
    BY <1>1, <1>8, SessPending DEF Reported, Pending
  <2> QED BY <2>1 DEF Phase
<1> QED BY <1>5, <1>6, <1>7, <1>8 DEF Phase

LEMMA SessPhases ==
  ASSUME NEW x \in World, NEW y, NEW c \in Conns, Sess(x, y, c), y.failed = Nil, PhasesOk(x)
  PROVE  PhasesOk(y)
<1>1. y.role = x.role /\ y.ep = x.ep /\ y.cur = x.cur
  BY DEF Sess, SameEp
<1> QED BY <1>1, SessPhase DEF PhasesOk

(* A session that is not stopped from outside stays attached, and the      *)
(* invariant holds.                                                        *)
LEMMA TurnLink ==
  ASSUME NEW x \in World, NEW y, NEW c \in Conns, Turn(x, y, c), y.failed = Nil, LinkOk(x, c)
  PROVE  LinkOk(y, c)
<1>1. Sess(x, y, c)
  BY DEF Turn
<1>2. y.role = x.role /\ y.ep = x.ep /\ y.atcp = x.atcp
  BY <1>1 DEF Sess, SameEp
<1>3. Attached(y, c) = Attached(x, c) /\ Breaking(y, c) = Breaking(x, c)
  BY <1>2 DEF Attached, Breaking
<1>4. Pending(y, "STCP", c, "STOPPED") => Pending(x, "STCP", c, "STOPPED") \/ ~NoStop(x, y)
  BY <1>1, SessPending DEF Pending, NoStop
<1> QED BY <1>3, <1>4 DEF Turn, LinkOk

LEMMA TurnKeeps ==
  ASSUME NEW x, NEW y, NEW c \in Conns, Turn(x, y, c), y.failed = Nil, Core(x)
  PROVE  Core(y) /\ (PhasesOk(x) => PhasesOk(y))
<1>1. Sess(x, y, c) /\ x \in World /\ y \in World /\ Running(y)
  BY DEF Turn, Core, Sess, SameEp, Running
<1>2. EventsOk(y) /\ ListenerOk(y)
  BY <1>1, SessEvents, SessListener DEF Core
<1>3. \A d \in Conns : AtcpOk(y, d)
  BY <1>1, SessAtcp DEF Core
<1>4. \A d \in Conns : LinkOk(y, d)
  BY <1>1, SessOtherLink, TurnLink DEF Core
<1>5. CountsOk(y)
  BY <1>1, SessCounts DEF Core, CountsOk
<1> QED BY <1>1, <1>2, <1>3, <1>4, <1>5, SessPhases DEF Core

(***************************************************************************)
(* The oldest event is taken from the queue.                               *)
(***************************************************************************)
Taken(x) == [x EXCEPT !.events = Tail(x.events)]

(* What else the queue then holds, and what that leaves of the invariant.  *)
LEMMA TakenIs ==
  ASSUME NEW x \in World, x.events # <<>>, NEW y, y = Taken(x)
  PROVE  /\ y \in World /\ Head(x.events) \in Events
         /\ y.failed = x.failed /\ SameEp(x, y) /\ SameParts(x, y)
         /\ y.tmr = x.tmr /\ y.tasks = x.tasks /\ y.copy = x.copy
         /\ Len(x.events) \in Nat /\ Len(y.events) = Len(x.events) - 1
         /\ 1 \in 1..Len(x.events) /\ Head(x.events) = x.events[1]
         /\ \A i \in 1..Len(y.events) : i + 1 \in 1..Len(x.events) /\ y.events[i] = x.events[i + 1]
         /\ \A i \in 1..Len(x.events) : i # 1 => i - 1 \in 1..Len(y.events)
                                                /\ y.events[i - 1] = x.events[i]
<1>1. x.events \in Seq(Events) /\ Len(x.events) \in Nat
  BY Has, LenProperties
<1>2. /\ Head(x.events) \in Events /\ Tail(x.events) \in Seq(Events)
      /\ Len(Tail(x.events)) = Len(x.events) - 1 /\ Head(x.events) = x.events[1]
      /\ \A i \in 1..Len(Tail(x.events)) : Tail(x.events)[i] = x.events[i + 1]
      /\ Len(x.events) > 0
  BY <1>1, HeadTailProperties, EmptySeq
<1>3. y.events = Tail(x.events) /\ y.failed = x.failed
  BY DEF Taken, World
<1>0. y \in World
  BY <1>2, EventsPut DEF Taken
<1>4. SameEp(x, y) /\ SameParts(x, y)
  BY <1>2, EventsPut DEF Taken
<1>5. y.tmr = x.tmr /\ y.tasks = x.tasks /\ y.copy = x.copy
  BY <1>2, EventsPut DEF Taken
<1> HIDE DEF Taken
<1>6. Len(y.events) = Len(x.events) - 1 /\ 1 \in 1..Len(x.events)
  BY <1>1, <1>2, <1>3
<1>7. \A i \in 1..Len(y.events) : i + 1 \in 1..Len(x.events) /\ y.events[i] = x.events[i + 1]
  BY <1>1, <1>2, <1>3
<1>8. \A i \in 1..Len(x.events) : i # 1 => i - 1 \in 1..Len(y.events) /\ y.events[i - 1] = x.events[i]
  BY <1>1, <1>6, <1>7
<1> QED BY <1>0, <1>1, <1>2, <1>3, <1>4, <1>5, <1>6, <1>7, <1>8

LEMMA TakenPending ==
  ASSUME NEW x \in World, x.events # <<>>, EventsOk(x),
         NEW y, y = Taken(x), NEW src, NEW p, NEW type
  PROVE  /\ Pending(y, src, p, type) => Pending(x, src, p, type)
         /\ LET e == Head(x.events) IN e.src = src /\ e.ptr = p /\ e.type = type =>
                ~Pending(y, src, p, type) /\ Pending(x, src, p, type)
<1>1. ASSUME Pending(y, src, p, type) PROVE Pending(x, src, p, type)
  <2>1. PICK i \in 1..Len(y.events) :
            y.events[i].src = src /\ y.events[i].ptr = p /\ y.events[i].type = type
    BY <1>1 DEF Pending
  <2>2. i + 1 \in 1..Len(x.events) /\ y.events[i] = x.events[i + 1]
    BY TakenIs
  <2> QED BY <2>1, <2>2 DEF Pending
<1>2. ASSUME Head(x.events).src = src, Head(x.events).ptr = p, Head(x.events).type = type
      PROVE  ~Pending(y, src, p, type) /\ Pending(x, src, p, type)
  <2>1. Pending(x, src, p, type)
    BY <1>2, TakenIs DEF Pending
  <2>2. ASSUME Pending(y, src, p, type) PROVE FALSE
    <3>1. PICK i \in 1..Len(y.events) :
              y.events[i].src = src /\ y.events[i].ptr = p /\ y.events[i].type = type
      BY <2>2 DEF Pending
    <3>2. /\ i + 1 \in 1..Len(x.events) /\ y.events[i] = x.events[i + 1] /\ 1 \in 1..Len(x.events)
          /\ Head(x.events) = x.events[1] /\ Len(x.events) \in Nat /\ Len(y.events) = Len(x.events) - 1
      BY TakenIs
    <3>3. 1 < i + 1
      BY <3>1, <3>2
    <3>4. ~SameItem(x.events[i + 1], x.events[1])
      BY <3>2, <3>3 DEF EventsOk, Distinct
    <3>5. SameItem(x.events[i + 1], x.events[1])
      BY <1>2, <3>1, <3>2 DEF SameItem
    <3> QED BY <3>4, <3>5
  <2> QED BY <2>1, <2>2
<1> QED BY <1>1, <1>2

LEMMA TakenCore ==
  ASSUME NEW x, Core(x), x.events # <<>>, NEW y, y = Taken(x)
  PROVE  Core(y)
<1>0. x \in World
  BY DEF Core
<1>1. /\ y \in World /\ SameEp(x, y) /\ SameParts(x, y) /\ y.tasks = x.tasks /\ y.copy = x.copy
  BY <1>0, TakenIs
<1>2. EventsOk(y)
  <2>1. ASSUME NEW i \in 1..Len(y.events) PROVE Routed(y, y.events[i])
    <3>1. i + 1 \in 1..Len(x.events) /\ y.events[i] = x.events[i + 1]
      BY <1>0, TakenIs
    <3>2. Routed(x, y.events[i])
      BY <3>1 DEF Core, EventsOk
    <3> QED BY <1>1, <3>2 DEF Routed, SameEp, SameParts, End
  <2>2. ASSUME NEW i \in 1..Len(y.events), NEW j \in 1..Len(y.events), i < j
        PROVE  ~SameItem(y.events[j], y.events[i])
    <3>1. /\ i + 1 \in 1..Len(x.events) /\ y.events[i] = x.events[i + 1]
          /\ j + 1 \in 1..Len(x.events) /\ y.events[j] = x.events[j + 1]
          /\ Len(x.events) \in Nat /\ Len(y.events) = Len(x.events) - 1
      BY <1>0, TakenIs
    <3>2. i + 1 < j + 1
      BY <2>2, <3>1
    <3> QED BY <3>1, <3>2 DEF Core, EventsOk, Distinct
  <2> QED BY <2>1, <2>2 DEF EventsOk, Distinct
<1>3. ASSUME NEW c \in Conns PROVE LinkOk(y, c) /\ AtcpOk(y, c)
  <2>1. \A src, type \in {"STCP", "ATCP", "STOPPED", "ERROR", "ACCEPTED"} :
            Pending(y, src, c, type) => Pending(x, src, c, type)
    BY <1>0, TakenPending DEF Core
  <2>2. LinkOk(x, c) /\ AtcpOk(x, c)
    BY DEF Core
  <2>3. LinkOk(y, c)
    BY <1>1, <2>1, <2>2 DEF LinkOk, Attached, Breaking, Restful, PipeOk, End, SameEp, SameParts
  <2>4. AtcpOk(y, c)
    BY <1>1, <2>1, <2>2 DEF AtcpOk, SameEp, SameParts
  <2> QED BY <2>3, <2>4
<1>4. CountsOk(y)
  BY <1>1 DEF Core, CountsOk, GaugesOk, AliveOf, PipesOf, SameEp, SameParts
<1>5. ListenerOk(y) /\ Running(y)
  BY <1>1 DEF Core, ListenerOk, Running, SameEp, SameParts
<1> QED BY <1>1, <1>2, <1>3, <1>4, <1>5 DEF Core

(* An event of no use to the accept protocol leaves its phase.             *)
Telling(x, e) ==    \* e is what the phase waits for
    \/ e.to = "atcp" /\ x.atcp[e.of] = "ACCEPTING"
    \/ e.src = "ATCP" /\ e.type = "ACCEPTED"

LEMMA TakenPhase ==
  ASSUME NEW x \in World, x.events # <<>>, NEW y, y = Taken(x), ~Telling(x, Head(x.events)),
         NEW c \in Conns, Phase(x, c)
  PROVE  Phase(y, c)
<1>1. /\ y.atcp = x.atcp /\ y.us = x.us /\ y.tasks = x.tasks /\ y.copy = x.copy
  BY TakenIs DEF SameEp, SameParts
<1>2. Head(x.events) = x.events[1]
  BY TakenIs
<1>3. \A i \in 1..Len(x.events) : i # 1 => i - 1 \in 1..Len(y.events) /\ y.events[i - 1] = x.events[i]
  BY TakenIs
<1>4. CASE Await(x, c)
  BY <1>1, <1>4 DEF Await, Queued, Phase
<1>5. CASE Arrived(x, c)
  <2>1. PICK i \in 1..Len(x.events) :
          x.events[i] = [to |-> "atcp", of |-> c, src |-> "USOCK", ptr |-> c, type |-> "ACCEPTED"]
    BY <1>5 DEF Arrived
  <2>2. i # 1
    BY <1>2, <1>5, <2>1 DEF Telling, Arrived
  <2> QED BY <1>1, <1>3, <1>5, <2>1, <2>2 DEF Arrived, Phase
<1>6. CASE Short(x, c)
  <2>1. PICK i \in 1..Len(x.events) :
          x.events[i] = [to |-> "atcp", of |-> c, src |-> "LISTENER", ptr |-> Listener,
                         type |-> "ACCEPT_ERROR"]
    BY <1>6 DEF Short
  <2>2. i # 1
    BY <1>2, <1>6, <2>1 DEF Telling, Short
  <2> QED BY <1>1, <1>3, <1>6, <2>1, <2>2 DEF Short, Phase
<1>7. CASE Reported(x, c)
  <2>1. PICK i \in 1..Len(x.events) :
          x.events[i].src = "ATCP" /\ x.events[i].ptr = c /\ x.events[i].type = "ACCEPTED"
    BY <1>7 DEF Reported, Pending
  <2>2. i # 1
    BY <1>2, <2>1 DEF Telling
  <2> QED BY <1>1, <1>3, <1>7, <2>1, <2>2 DEF Reported, Pending, Phase
<1> QED BY <1>4, <1>5, <1>6, <1>7 DEF Phase


(***************************************************************************)
(* The step of an endpoint: its sessions, pipes and header exchanges stay  *)
(* where they are.                                                         *)
(***************************************************************************)
Usable(x, y, c) ==
    /\ y.us[c].owner = x.us[c].owner
    /\ y.us[c].st \in Listened \cup {"BEING_ACCEPTED"} => y.us[c].st = x.us[c].st
    /\ x.role = "bind" => UsStep(x.us[c], y.us[c])
Foreign(e) == e.src \notin {"STCP", "ATCP"} /\ e.type # "ACCEPT_ERROR"
Lines(x, y) ==
    /\ Grows(x.events, y.events) /\ Grows(x.tasks, y.tasks) /\ y.copy = x.copy
    /\ \A i \in New(x.events, y.events) : Foreign(y.events[i])
    /\ \A i \in New(x.tasks, y.tasks) : y.tasks[i].on # Listener
    /\ Distinct(x) => Distinct(y)
Places(x, y) ==
    /\ y.role = x.role /\ y.net = x.net /\ y.fsm = x.fsm /\ y.us[Listener] = x.us[Listener]
    /\ \A c \in Conns : /\ Usable(x, y, c) /\ y.hdr[c].st = x.hdr[c].st
                        /\ y.stcp[c].st = x.stcp[c].st /\ y.pipe[c].st = x.pipe[c].st
Wide(x, y) ==
    /\ y \in World
    /\ y.failed = Nil => x.failed = Nil /\ Places(x, y) /\ Lines(x, y)
Still(x, y) == y.cur = x.cur /\ y.list = x.list /\ y.atcp = x.atcp
Counted(x, y) == y.error = x.error /\ \A n \in Stats : y.stat[n] = x.stat[n]
Moved(x, y, s) ==
    Wide(x, y) /\ (y.failed = Nil => Still(x, y) /\ Counted(x, y) /\ y.ep = s)
Quiet(x, y) == Moved(x, y, x.ep)

(* These steps compose, and the operations of a usock, an event to the     *)
(* endpoint and a task are such steps.                                     *)
LEMMA LinesTrans ==
  ASSUME NEW x \in World, NEW y \in World, NEW z \in World, Lines(x, y), Lines(y, z)
  PROVE  Lines(x, z)
<1>1. Grows(x.events, z.events) /\ \A i \in New(x.events, z.events) :
          (i \in New(x.events, y.events) /\ z.events[i] = y.events[i]) \/ i \in New(y.events, z.events)
  BY Has, GrowsTrans DEF Lines
<1>2. Grows(x.tasks, z.tasks) /\ \A i \in New(x.tasks, z.tasks) :
          (i \in New(x.tasks, y.tasks) /\ z.tasks[i] = y.tasks[i]) \/ i \in New(y.tasks, z.tasks)
  BY Has, GrowsTrans DEF Lines
<1> QED BY <1>1, <1>2 DEF Lines

LEMMA LinesSame ==
  ASSUME NEW x \in World, NEW y, y.events = x.events, y.tasks = x.tasks, y.copy = x.copy
  PROVE  Lines(x, y)
<1>1. /\ Grows(x.events, y.events) /\ Grows(x.tasks, y.tasks)
      /\ New(x.events, y.events) = {} /\ New(x.tasks, y.tasks) = {}
  BY Has, GrowsSame
<1> QED BY <1>1 DEF Lines, Distinct

LEMMA WideTrans ==
  ASSUME NEW x \in World, NEW y, NEW z, Wide(x, y), Wide(y, z)
  PROVE  Wide(x, z)
<1>1. y \in World /\ z \in World
  BY DEF Wide
<1>2. ASSUME z.failed = Nil PROVE x.failed = Nil /\ Places(x, z) /\ Lines(x, z)
  <2>1. x.failed = Nil /\ Places(x, y) /\ Lines(x, y) /\ Places(y, z) /\ Lines(y, z)
    BY <1>2 DEF Wide
  <2>2. \A c \in Conns : Usable(x, z, c)
    BY <2>1 DEF Places, Usable, UsStep, Fresh
  <2>3. Places(x, z)
    BY <2>1, <2>2 DEF Places
  <2> QED BY <1>1, <2>1, <2>3, LinesTrans
<1> QED BY <1>1, <1>2 DEF Wide

LEMMA MovedTrans ==
  ASSUME NEW x \in World, NEW y, NEW z, NEW s, NEW t, Moved(x, y, s), Moved(y, z, t)
  PROVE  Moved(x, z, t)
<1>1. Wide(x, z) /\ (z.failed = Nil => y.failed = Nil)
  BY WideTrans DEF Moved, Wide
<1> QED BY <1>1 DEF Moved, Still, Counted

LEMMA QuietTrans ==
  ASSUME NEW x \in World, NEW y, NEW z, NEW s, Moved(x, y, s), Quiet(y, z)
  PROVE  Moved(x, z, s)
<1>1. Moved(x, z, y.ep)
  BY MovedTrans DEF Quiet
<1>2. z.failed = Nil => y.ep = s
  BY DEF Quiet, Moved, Wide
<1> QED BY <1>1, <1>2 DEF Moved

LEMMA MovedIs ==
  ASSUME NEW x, NEW y, NEW s, Moved(x, y, s)
  PROVE  Wide(x, y) /\ y \in World /\ (y.failed = Nil => x.failed = Nil /\ y.ep = s)
BY DEF Moved, Wide

LEMMA PlacesSame ==
  ASSUME NEW x, NEW y, y.role = x.role, y.net = x.net, y.fsm = x.fsm,
         y.us = x.us, y.hdr = x.hdr, y.stcp = x.stcp, y.pipe = x.pipe
  PROVE  Places(x, y)
BY DEF Places, Usable, UsStep

LEMMA QuietSame ==
  ASSUME NEW x \in World
  PROVE  Quiet(x, x)
<1>1. Lines(x, x) /\ Places(x, x)
  BY LinesSame, PlacesSame
<1> QED BY <1>1 DEF Quiet, Moved, Wide, Still, Counted

LEMMA FailMoved ==
  ASSUME NEW x \in World, NEW f \in Failures \ {Nil}, NEW s
  PROVE  Moved(x, Fail(x, f), s)
BY FailIs DEF Moved, Wide

LEMMA UsOpQuiet ==
  ASSUME NEW x \in World, NEW y, NEW c \in Conns, UsOp(x, y, c)
  PROVE  Quiet(x, y)
<1>1. Sess(x, y, c) /\ y \in World
  BY DEF UsOp, Below, Sess
<1>2. ASSUME y.failed = Nil
      PROVE  /\ x.failed = Nil /\ Places(x, y) /\ Lines(x, y)
             /\ Still(x, y) /\ Counted(x, y) /\ y.ep = x.ep
  <2>1. /\ x.failed = Nil /\ SameEp(x, y) /\ SameOthers(x, y, c) /\ UsStep(x.us[c], y.us[c])
        /\ SameStats(x, y, c) /\ Queues(x, y, c) /\ Calm(x, y, c)
        /\ y.hdr[c] = x.hdr[c] /\ y.us[c].owner = x.us[c].owner
    BY <1>2 DEF UsOp, Below, Sess
  <2>2. y.us[Listener] = x.us[Listener] /\ Listener # c
    BY <2>1, Names DEF SameOthers
  <2>3. \A d \in Conns : Usable(x, y, d)
    BY <2>1, Names DEF SameOthers, Usable, UsStep
  <2>4. Places(x, y)
    BY <2>1, <2>2, <2>3 DEF Places, SameEp, SameOthers, Calm
  <2>5. Lines(x, y)
    BY <2>1, <2>2 DEF Lines, Queues, SessEvent, Calm, Foreign
  <2>6. Piped(y, c) = Piped(x, c) /\ Piped(x, c) \in Int
    BY <2>1 DEF Piped, Calm
  <2>7. x.stat["current"] \in Int /\ y.stat["current"] \in Int
    BY <1>1, Has DEF Stats
  <2>8. Counted(x, y)
    BY <2>1, <2>6, <2>7 DEF Counted, SameStats, SameEp
  <2> QED BY <2>1, <2>4, <2>5, <2>8 DEF Still, SameEp
<1> QED BY <1>1, <1>2 DEF Quiet, Moved, Wide

LEMMA RaiseQuiet ==
  ASSUME NEW x \in World, NEW o \in Owners, o.src \notin {"STCP", "ATCP"}, NEW p \in Ptrs,
         NEW type \in SessTypes, NEW y, y = Raise(x, o, p, type)
  PROVE  Quiet(x, y)
<1>1. type \in EventTypes /\ type # "ACCEPT_ERROR"
  BY DEF SessTypes
<1>2. y \in World
  BY <1>1, RaiseIs
<1>3. ASSUME y.failed = Nil
      PROVE  /\ x.failed = Nil /\ Places(x, y) /\ Lines(x, y)
             /\ Still(x, y) /\ Counted(x, y) /\ y.ep = x.ep
  <2>1. /\ x.failed = Nil /\ SameEp(x, y) /\ SameParts(x, y) /\ (Distinct(x) => Distinct(y))
    BY <1>1, <1>3, RaiseIs
  <2>2. /\ y.tasks = x.tasks /\ y.copy = x.copy /\ Item(o, p, type) \in Events
        /\ y.events = Append(x.events, Item(o, p, type))
    BY <1>1, <1>3, RaiseIs
  <2>3. /\ Grows(x.events, y.events) /\ Grows(x.tasks, y.tasks) /\ New(x.tasks, y.tasks) = {}
        /\ \A i \in New(x.events, y.events) : y.events[i] = Item(o, p, type)
    BY <2>2, Has, GrowsOne, GrowsSame
  <2>6. Foreign(Item(o, p, type))
    BY <1>1 DEF Foreign, Item
  <2>4. Lines(x, y)
    BY <2>1, <2>2, <2>3, <2>6 DEF Lines
  <2>5. Places(x, y)
    BY <2>1, PlacesSame DEF SameEp, SameParts
  <2> QED BY <2>1, <2>4, <2>5 DEF Still, Counted, SameEp, SameParts
<1> QED BY <1>2, <1>3 DEF Quiet, Moved, Wide

LEMMA TaskQuiet ==
  ASSUME NEW x \in World, NEW kind, NEW on, [kind |-> kind, on |-> on] \in Tasks, on # Listener,
         NEW y, y = Execute(x, kind, on)
  PROVE  Quiet(x, y)
<1>1. y \in World
  BY ExecuteIs
<1>2. ASSUME y.failed = Nil
      PROVE  /\ x.failed = Nil /\ Places(x, y) /\ Lines(x, y)
             /\ Still(x, y) /\ Counted(x, y) /\ y.ep = x.ep
  <2>1. x.failed = Nil /\ SameEp(x, y) /\ SameParts(x, y)
    BY <1>2, ExecuteIs
  <2>2. /\ y.events = x.events /\ y.copy = x.copy
        /\ y.tasks = Append(x.tasks, [kind |-> kind, on |-> on])
    BY <1>2, ExecuteIs
  <2>3. /\ Grows(x.events, y.events) /\ Grows(x.tasks, y.tasks) /\ New(x.events, y.events) = {}
        /\ \A i \in New(x.tasks, y.tasks) : y.tasks[i] = [kind |-> kind, on |-> on]
    BY <2>2, Has, GrowsOne, GrowsSame
  <2>6. \A i \in New(x.tasks, y.tasks) : y.tasks[i].on # Listener
    BY <2>3
  <2>7. Distinct(x) => Distinct(y)
    BY <2>2 DEF Distinct
  <2>4. Lines(x, y)
    BY <2>2, <2>3, <2>6, <2>7 DEF Lines
  <2>5. Places(x, y)
    BY <2>1, PlacesSame DEF SameEp, SameParts
  <2> QED BY <2>1, <2>4, <2>5 DEF Still, Counted, SameEp, SameParts
<1> QED BY <1>1, <1>2 DEF Quiet, Moved, Wide

(* A field of the endpoint is written.                                     *)
LEMMA EpMoveIs ==
  ASSUME NEW x \in World, NEW s \in States, NEW y, y = EpMove(x, s)
  PROVE  Moved(x, y, s)
<1>1. y = [x EXCEPT !.ep = s] /\ y \in World
  BY Put DEF EpMove
<1>2. /\ y.failed = x.failed /\ y.events = x.events /\ y.tasks = x.tasks /\ y.copy = x.copy
      /\ y.role = x.role /\ y.net = x.net /\ y.fsm = x.fsm /\ y.ep = s
      /\ y.us = x.us /\ y.hdr = x.hdr /\ y.stcp = x.stcp /\ y.pipe = x.pipe
      /\ y.cur = x.cur /\ y.list = x.list /\ y.atcp = x.atcp /\ y.error = x.error /\ y.stat = x.stat
  BY <1>1 DEF World
<1> QED BY <1>1, <1>2, LinesSame, PlacesSame DEF Moved, Wide, Still, Counted

LEMMA DnsPut ==
  ASSUME NEW x \in World, NEW s \in DnsStates, NEW b \in BOOLEAN
  PROVE  Quiet(x, [x EXCEPT !.dns = s]) /\ Quiet(x, [x EXCEPT !.found = b])
<1>1. ASSUME NEW y, y = [x EXCEPT !.dns = s] \/ y = [x EXCEPT !.found = b]
      PROVE  Quiet(x, y)
  <2>1. y \in World
    BY <1>1, Put
  <2>2. /\ y.failed = x.failed /\ y.events = x.events /\ y.tasks = x.tasks /\ y.copy = x.copy
        /\ y.role = x.role /\ y.net = x.net /\ y.fsm = x.fsm /\ y.ep = x.ep
        /\ y.us = x.us /\ y.hdr = x.hdr /\ y.stcp = x.stcp /\ y.pipe = x.pipe
        /\ y.cur = x.cur /\ y.list = x.list /\ y.atcp = x.atcp /\ y.error = x.error /\ y.stat = x.stat
    BY <1>1 DEF World
  <2> QED BY <2>1, <2>2, LinesSame, PlacesSame DEF Quiet, Moved, Wide, Still, Counted
<1> QED BY <1>1

(* The statistics and the last error.                                      *)
Bumped(x, y, n, k) ==    \* the statistic n grows by k
    Wide(x, y) /\ (y.failed = Nil => /\ y.ep = x.ep /\ Still(x, y) /\ y.error = x.error
                                     /\ y.stat[n] = x.stat[n] + k
                                     /\ \A m \in Stats \ {n} : y.stat[m] = x.stat[m])
LEMMA StatBumped ==
  ASSUME NEW x \in World, NEW n \in Stats, NEW k \in Int, NEW y, y = StatIncrement(x, n, k)
  PROVE  Bumped(x, y, n, k)
<1>1. y \in World
  BY StatPut
<1>2. ASSUME y.failed = Nil
      PROVE  /\ x.failed = Nil /\ Places(x, y) /\ Lines(x, y)
             /\ y.ep = x.ep /\ Still(x, y) /\ y.error = x.error
             /\ y.stat[n] = x.stat[n] + k /\ \A m \in Stats \ {n} : y.stat[m] = x.stat[m]
  <2>1. SameEp(x, y) /\ x.failed = Nil
    BY <1>2, StatPut
  <2>2. /\ y.us = x.us /\ y.hdr = x.hdr /\ y.stcp = x.stcp /\ y.pipe = x.pipe
        /\ y.events = x.events /\ y.tasks = x.tasks /\ y.copy = x.copy
    BY <1>2, StatPut
  <2>3. y.stat[n] = x.stat[n] + k /\ \A m \in Stats \ {n} : y.stat[m] = x.stat[m]
    BY <1>2, StatPut
  <2>4. Places(x, y) /\ Lines(x, y)
    BY <2>1, <2>2, PlacesSame, LinesSame DEF SameEp
  <2> QED BY <2>1, <2>3, <2>4 DEF Still, SameEp
<1> QED BY <1>1, <1>2 DEF Bumped, Wide

ErrorGauge(x) == x.stat["errors"] = IF x.error THEN 1 ELSE 0
Erred(x, y, b) ==    \* the last error is set or cleared
    Wide(x, y) /\ (y.failed = Nil => /\ y.ep = x.ep /\ Still(x, y) /\ y.error = b
                                     /\ ErrorGauge(x) => ErrorGauge(y)
                                     /\ \A m \in Stats \ {"errors"} : y.stat[m] = x.stat[m])
LEMMA ErrorIs ==
  ASSUME NEW x \in World
  PROVE  Erred(x, SetError(x), TRUE) /\ Erred(x, ClearError(x), FALSE)
<1>1. ASSUME NEW b \in BOOLEAN, x.error # b, NEW v, v = [x EXCEPT !.error = b],
             NEW y, y = StatIncrement(v, "errors", IF b THEN 1 ELSE -1)
      PROVE  Erred(x, y, b)
  <2>1. v \in World
    BY <1>1, Put
  <2>2. /\ v.failed = x.failed /\ v.events = x.events /\ v.tasks = x.tasks /\ v.copy = x.copy
        /\ v.role = x.role /\ v.net = x.net /\ v.fsm = x.fsm /\ v.ep = x.ep
        /\ v.us = x.us /\ v.hdr = x.hdr /\ v.stcp = x.stcp /\ v.pipe = x.pipe
        /\ v.cur = x.cur /\ v.list = x.list /\ v.atcp = x.atcp /\ v.error = b /\ v.stat = x.stat
    BY <1>1 DEF World
  <2>3. Wide(x, v)
    BY <2>1, <2>2, PlacesSame, LinesSame DEF Wide
  <2>4. (IF b THEN 1 ELSE -1) \in Int /\ "errors" \in Stats
    BY DEF Stats
  <2>5. Bumped(v, y, "errors", IF b THEN 1 ELSE -1)
    BY <1>1, <2>1, <2>4, StatBumped
  <2>6. Wide(x, y)
    BY <2>3, <2>5, WideTrans DEF Bumped
  <2>7. ASSUME y.failed = Nil
        PROVE  /\ y.ep = x.ep /\ Still(x, y) /\ y.error = b /\ (ErrorGauge(x) => ErrorGauge(y))
               /\ \A m \in Stats \ {"errors"} : y.stat[m] = x.stat[m]
    <3>1. /\ y.ep = v.ep /\ Still(v, y) /\ y.error = v.error
          /\ y.stat["errors"] = v.stat["errors"] + (IF b THEN 1 ELSE -1)
          /\ \A m \in Stats \ {"errors"} : y.stat[m] = v.stat[m]
      BY <2>5, <2>7 DEF Bumped
    <3>3. x.error = ~b
      BY <1>1, Has
    <3>2. ErrorGauge(x) => ErrorGauge(y)
      <4>0. y.error = b /\ y.stat["errors"] = x.stat["errors"] + (IF b THEN 1 ELSE -1)
        BY <2>2, <3>1
      <4>1. CASE b = TRUE
        <5>1. x.error = FALSE /\ y.error = TRUE /\ y.stat["errors"] = x.stat["errors"] + 1
          BY <3>3, <4>0, <4>1
        <5> QED BY <5>1 DEF ErrorGauge
      <4>2. CASE b = FALSE
        <5>1. x.error = TRUE /\ y.error = FALSE /\ y.stat["errors"] = x.stat["errors"] + (-1)
          BY <3>3, <4>0, <4>2
        <5> QED BY <5>1 DEF ErrorGauge
      <4> QED BY <4>1, <4>2
    <3> QED BY <2>2, <3>1, <3>2 DEF Still
  <2> QED BY <2>6, <2>7 DEF Erred
<1>2. ASSUME NEW b \in BOOLEAN, x.error = b PROVE Erred(x, x, b)
  BY <1>2, QuietSame DEF Quiet, Moved, Erred, Still
<1>3. x.error \in BOOLEAN
  BY Has
<1>4. Erred(x, SetError(x), TRUE)
  <2>1. CASE x.error
    BY <1>2, <2>1 DEF SetError
  <2>2. CASE ~x.error
    <3>1. SetError(x) = StatIncrement([x EXCEPT !.error = TRUE], "errors", IF TRUE THEN 1 ELSE -1)
      BY <2>2 DEF SetError
    <3> QED BY <1>1, <2>2, <3>1
  <2> QED BY <2>1, <2>2
<1>5. Erred(x, ClearError(x), FALSE)
  <2>1. CASE ~x.error
    BY <1>2, <1>3, <2>1 DEF ClearError
  <2>2. CASE x.error
    <3>1. ClearError(x) = StatIncrement([x EXCEPT !.error = FALSE], "errors", IF FALSE THEN 1 ELSE -1)
      BY <2>2 DEF ClearError
    <3> QED BY <1>1, <2>2, <3>1
  <2> QED BY <2>1, <2>2
<1> QED BY <1>4, <1>5

(* The timer of the interval between two attempts.                         *)
LEMMA RetryOps ==
  ASSUME NEW x \in World
  PROVE  Quiet(x, TimerStart(x, "retry")) /\ Quiet(x, TimerStop(x, "retry"))
<1>0. PICK c \in Conns : TRUE
  BY Names
<1>1. "retry" \in Timers /\ {"ACTIVE", "STOPPING"} \subseteq {"IDLE", "ACTIVE", "STOPPING"}
  BY Names
<1>2. \A s \in {"ACTIVE", "STOPPING"} : Quiet(x, [x EXCEPT !.tmr["retry"].st = s])
  BY <1>0, <1>1, TimerSetOps, UsOpQuiet
<1>3. \A kind \in TimerKinds : [kind |-> kind, on |-> "retry"] \in Tasks
  BY <1>1 DEF Tasks
<1>4. ASSUME NEW s \in {"ACTIVE", "STOPPING"}, NEW kind \in TimerKinds,
             NEW v, v = [x EXCEPT !.tmr["retry"].st = s]
      PROVE  Quiet(x, Execute(v, kind, "retry"))
  <2>1. v \in World /\ Quiet(x, v)
    BY <1>2, <1>4, MovedIs DEF Quiet
  <2>2. Quiet(v, Execute(v, kind, "retry"))
    BY <1>3, <2>1, TaskQuiet, Names
  <2> QED BY <2>1, <2>2, QuietTrans DEF Quiet
<1>5. Quiet(x, TimerStart(x, "retry"))
  BY <1>4, FailMoved, Sites DEF TimerStart, TimerKinds, Quiet
<1>6. Quiet(x, TimerStop(x, "retry"))
  BY <1>4, QuietSame DEF TimerStop, TimerKinds
<1> QED BY <1>5, <1>6

LEMMA BackoffWaitIs ==
  ASSUME NEW x \in World, NEW y, y = BackoffWait(x)
  PROVE  Moved(x, y, "WAITING")
<1>1. Quiet(x, TimerStart(x, "retry")) /\ TimerStart(x, "retry") \in World
  BY RetryOps, MovedIs DEF Quiet
<1>2. Moved(TimerStart(x, "retry"), y, "WAITING")
  BY <1>1, EpMoveIs DEF BackoffWait, States
<1> QED BY <1>1, <1>2, MovedTrans DEF Quiet


(***************************************************************************)
(* What a step of an endpoint leaves of the invariant.                     *)
(***************************************************************************)
LEMMA WidePending ==
  ASSUME NEW x \in World, NEW y, Wide(x, y), y.failed = Nil
  PROVE  /\ \A i \in 1..Len(x.events) : i \in 1..Len(y.events) /\ y.events[i] = x.events[i]
         /\ \A i \in 1..Len(y.events) :
               \/ i \in 1..Len(x.events) /\ y.events[i] = x.events[i]
               \/ Foreign(y.events[i])
         /\ \A i \in 1..Len(x.tasks) : i \in 1..Len(y.tasks) /\ y.tasks[i] = x.tasks[i]
         /\ \A i \in 1..Len(y.tasks) :
               \/ i \in 1..Len(x.tasks) /\ y.tasks[i] = x.tasks[i]
               \/ y.tasks[i].on # Listener
         /\ y.copy = x.copy
<1>1. Lines(x, y) /\ y \in World
  BY DEF Wide
<1>2. Len(x.events) \in Nat /\ Len(y.events) \in Nat /\ Len(x.tasks) \in Nat /\ Len(y.tasks) \in Nat
  BY <1>1, Has, LenProperties
<1> QED BY <1>1, <1>2 DEF Lines, Grows, New

LEMMA WideEvents ==
  ASSUME NEW x \in World, NEW y, Wide(x, y), y.failed = Nil, EventsOk(x)
  PROVE  EventsOk(y)
<1>1. Lines(x, y) /\ y.role = x.role /\ y.us[Listener] = x.us[Listener]
  BY DEF Wide, Places
<1>2. Distinct(y)
  BY <1>1 DEF EventsOk, Lines
<1>3. ASSUME NEW i \in 1..Len(y.events)
      PROVE  Routed(y, y.events[i])
  <2>1. CASE i \in 1..Len(x.events) /\ y.events[i] = x.events[i]
    BY <1>1, <2>1 DEF EventsOk, Routed, End
  <2>2. CASE Foreign(y.events[i])
    BY <2>2 DEF Foreign, Routed
  <2> QED BY <2>1, <2>2, WidePending
<1> QED BY <1>2, <1>3 DEF EventsOk

LEMMA WideLink ==
  ASSUME NEW x \in World, NEW y, Wide(x, y), y.failed = Nil, NEW c \in Conns, LinkOk(x, c),
         x.stcp[c].st = "STOPPING" \/ Pending(x, "STCP", c, "STOPPED") => Breaking(y, c),
         x.stcp[c].st \notin {"IDLE", "STOPPING"} => Attached(y, c)
  PROVE  LinkOk(y, c)
<1>1. /\ y.role = x.role /\ Usable(x, y, c) /\ y.hdr[c].st = x.hdr[c].st
      /\ y.stcp[c].st = x.stcp[c].st /\ y.pipe[c].st = x.pipe[c].st
  BY DEF Wide, Places
<1>2. Pending(y, "STCP", c, "STOPPED") => Pending(x, "STCP", c, "STOPPED")
  BY WidePending DEF Pending, Foreign
<1> QED BY <1>1, <1>2 DEF LinkOk, Restful, PipeOk, End, Usable

LEMMA WideAtcp ==
  ASSUME NEW x \in World, NEW y, Wide(x, y), y.failed = Nil, NEW c \in Conns, AtcpOk(x, c),
         Still(x, y)
  PROVE  AtcpOk(y, c)
<1>1. y.role = x.role /\ Usable(x, y, c)
  BY DEF Wide, Places
<1>2. \A type \in EventTypes : Pending(y, "ATCP", c, type) => Pending(x, "ATCP", c, type)
  BY WidePending DEF Pending, Foreign
<1>3. {"ERROR", "STOPPED", "ACCEPTED"} \subseteq EventTypes
  BY DEF EventTypes
<1> QED BY <1>1, <1>2, <1>3 DEF AtcpOk, Usable, UsStep, Fresh, Listened, Still

LEMMA WideListener ==
  ASSUME NEW x \in World, NEW y, Wide(x, y), y.failed = Nil, ListenerOk(x),
         x.us[Listener].st # "IDLE" => y.ep = "ACTIVE"
  PROVE  ListenerOk(y)
<1>1. y.role = x.role /\ y.us[Listener] = x.us[Listener]
  BY DEF Wide, Places
<1>2. \A i \in 1..Len(y.tasks) : y.tasks[i].on = Listener => y.tasks[i].kind = "accept"
  BY WidePending DEF ListenerOk
<1>3. y.copy = x.copy
  BY WidePending
<1> QED BY <1>1, <1>2, <1>3 DEF ListenerOk

LEMMA WidePhase ==
  ASSUME NEW x \in World, NEW y, Wide(x, y), y.failed = Nil, x.role = "bind", Still(x, y),
         NEW d \in Conns, Phase(x, d)
  PROVE  Phase(y, d)
<1>1. y.atcp = x.atcp /\ y.us[Listener] = x.us[Listener] /\ UsStep(x.us[d], y.us[d])
  BY DEF Wide, Places, Usable, Still
<1>2. x.us[d].st \in Fresh => y.us[d].st = x.us[d].st
  BY <1>1 DEF UsStep
<1>3. y.us[d].asock = x.us[d].asock
  BY <1>1 DEF UsStep
<1>4. Queued(x) => Queued(y)
  BY WidePending DEF Queued
<1>5. CASE Await(x, d)
  <2>1. Await(y, d)
    BY <1>1, <1>2, <1>3, <1>4, <1>5 DEF Await
  <2> QED BY <2>1 DEF Phase
<1>6. CASE Arrived(x, d)
  <2>1. Arrived(y, d)
    BY <1>1, <1>6, WidePending DEF Arrived
  <2> QED BY <2>1 DEF Phase
<1>7. CASE Short(x, d)
  <2>1. Short(y, d)
    BY <1>1, <1>2, <1>7, WidePending DEF Short
  <2> QED BY <2>1 DEF Phase
<1>8. CASE Reported(x, d)
  <2>1. Reported(y, d)
    BY <1>1, <1>8, WidePending DEF Reported, Pending
  <2> QED BY <2>1 DEF Phase
<1> QED BY <1>5, <1>6, <1>7, <1>8 DEF Phase

(* The invariant but for the connections and the counters.                 *)
Frame(x) == /\ x \in World /\ Running(x) /\ EventsOk(x) /\ ListenerOk(x)
            /\ \A c \in Conns : AtcpOk(x, c)
Links(x, S) == \A c \in S : LinkOk(x, c)

LEMMA CoreIs ==
  ASSUME NEW x
  PROVE  Core(x) = (Frame(x) /\ Links(x, Conns) /\ CountsOk(x))
BY DEF Core, Frame, Links

LEMMA WideFrame ==
  ASSUME NEW x, Frame(x), NEW y, Wide(x, y), y.failed = Nil, Still(x, y),
         x.us[Listener].st # "IDLE" => y.ep = "ACTIVE"
  PROVE  Frame(y)
<1>1. x \in World /\ y \in World /\ Running(y)
  BY DEF Frame, Wide, Places, Running
<1>2. EventsOk(y) /\ ListenerOk(y)
  BY <1>1, WideEvents, WideListener DEF Frame
<1>3. \A c \in Conns : AtcpOk(y, c)
  BY <1>1, WideAtcp DEF Frame
<1> QED BY <1>1, <1>2, <1>3 DEF Frame

LEMMA SessFrame ==
  ASSUME NEW x, Frame(x), NEW y, NEW c \in Conns, Sess(x, y, c), y.failed = Nil
  PROVE  Frame(y)
<1>1. x \in World /\ y \in World /\ Running(y)
  BY DEF Frame, Sess, SameEp, Running
<1>2. EventsOk(y) /\ ListenerOk(y)
  BY <1>1, SessEvents, SessListener DEF Frame
<1>3. \A d \in Conns : AtcpOk(y, d)
  BY <1>1, SessAtcp DEF Frame
<1> QED BY <1>1, <1>2, <1>3 DEF Frame

LEMMA WidePipes ==
  ASSUME NEW x, NEW y, Wide(x, y), y.failed = Nil
  PROVE  PipesOf(y) = PipesOf(x)
<1>1. \A c \in Conns : y.pipe[c].st = x.pipe[c].st
  BY DEF Wide, Places
<1> QED BY <1>1 DEF PipesOf

(* A session that nobody stops any more.                                   *)
Kept(x, y, c) ==
    /\ x.stcp[c].st = "STOPPING" \/ Pending(x, "STCP", c, "STOPPED") => Breaking(y, c)
    /\ x.stcp[c].st \notin {"IDLE", "STOPPING"} => Attached(y, c)

LEMMA KeptIs ==
  ASSUME NEW x, NEW y, NEW c, LinkOk(x, c)
  PROVE  /\ Attached(y, c) = Attached(x, c) /\ Breaking(y, c) = Breaking(x, c) => Kept(x, y, c)
         /\ ~Attached(x, c) /\ ~Breaking(x, c) => Kept(x, y, c)
BY DEF LinkOk, Kept

LEMMA WideKeeps ==
  ASSUME NEW x, Core(x), NEW y, Wide(x, y), y.failed = Nil, Still(x, y),
         \A c \in Conns : Kept(x, y, c),
         x.us[Listener].st # "IDLE" => y.ep = "ACTIVE",
         GaugesOk(y), y.stat["alive"] = AliveOf(y), y.stat["current"] = x.stat["current"]
  PROVE  Core(y)
<1>1. x \in World /\ Frame(x)
  BY CoreIs DEF Frame
<1>2. Frame(y)
  BY <1>1, WideFrame
<1>3. Links(y, Conns)
  BY <1>1, WideLink DEF Core, Links, Kept
<1>4. CountsOk(y)
  BY WidePipes DEF Core, CountsOk
<1> QED BY <1>2, <1>3, <1>4, CoreIs

LEMMA QuietKeeps ==
  ASSUME NEW x, Core(x), NEW y, Quiet(x, y), y.failed = Nil
  PROVE  Core(y) /\ (PhasesOk(x) => PhasesOk(y))
<1>1. x \in World /\ Wide(x, y) /\ Still(x, y) /\ Counted(x, y) /\ y.ep = x.ep /\ y.role = x.role
  BY DEF Core, Quiet, Moved, Wide, Places
<1>2. \A c \in Conns : Attached(y, c) = Attached(x, c) /\ Breaking(y, c) = Breaking(x, c)
  BY <1>1 DEF Attached, Breaking, Still
<1>3. \A c \in Conns : LinkOk(x, c)
  BY DEF Core
<1>4. \A n \in {"inprogress", "alive", "current", "errors"} : y.stat[n] = x.stat[n]
  BY <1>1 DEF Counted, Stats
<1>5. GaugesOk(y)
  BY <1>1, <1>4 DEF Core, CountsOk, GaugesOk, Counted
<1>6. y.stat["alive"] = AliveOf(y)
  BY <1>1, <1>4 DEF Core, CountsOk, AliveOf, Still
<1>7. x.us[Listener].st # "IDLE" => y.ep = "ACTIVE"
  BY <1>1 DEF Core, ListenerOk
<1>8. Core(y)
  <2>1. \A c \in Conns : Kept(x, y, c)
    BY <1>2, <1>3, KeptIs
  <2> QED BY <1>1, <1>4, <1>5, <1>6, <1>7, <2>1, WideKeeps
<1>9. PhasesOk(x) => PhasesOk(y)
  BY <1>1, WidePhase DEF PhasesOk, Still
<1> QED BY <1>8, <1>9

(* An endpoint without a connection goes from one state to another.        *)
Safe(y) == y.failed = Nil => Core(y) /\ PhasesOk(y)
Alone(x) == \A c \in Conns : x.stcp[c].st = "IDLE" /\ ~Pending(x, "STCP", c, "STOPPED")

LEMMA AloneIs ==
  ASSUME NEW x, Core(x), x.role = "connect", x.ep \notin {"ACTIVE", "STOPPING_STCP"}
  PROVE  Alone(x)
<1>1. \A c \in Conns : ~Attached(x, c) /\ ~Breaking(x, c) /\ LinkOk(x, c)
  BY DEF Attached, Breaking, Core
<1> QED BY <1>1 DEF LinkOk, Alone

(* An endpoint that connects goes to another state while no session runs,  *)
(* and one that binds before it listens.                                   *)
LEMMA ConnectWide ==
  ASSUME NEW x, Core(x), x.role = "connect", Alone(x),
         NEW y, Wide(x, y), y.failed = Nil, Still(x, y),
         GaugesOk(y), y.stat["alive"] = AliveOf(y), y.stat["current"] = x.stat["current"]
  PROVE  Core(y) /\ PhasesOk(y)
<1>1. x.us[Listener].st = "IDLE"
  BY DEF Core, ListenerOk
<1>2. \A c \in Conns : Kept(x, y, c)
  BY DEF Alone, Kept
<1>3. y.role = x.role
  BY DEF Wide, Places
<1> QED BY <1>1, <1>2, <1>3, WideKeeps DEF PhasesOk

Idling == States \ {"ACTIVE", "CONNECTING"}    \* states with nothing to count
LEMMA ConnectMoved ==
  ASSUME NEW x, Core(x), x.role = "connect", Alone(x), x.ep \in Idling,
         NEW y, NEW s \in Idling, Moved(x, y, s)
  PROVE  Safe(y)
<1>0. SUFFICES ASSUME y.failed = Nil PROVE Core(y) /\ PhasesOk(y)
  BY DEF Safe
<1>1. x \in World /\ Wide(x, y) /\ Still(x, y) /\ Counted(x, y) /\ y.ep = s /\ y.role = x.role
  BY <1>0 DEF Core, Moved, Wide, Places
<1>4. \A n \in {"inprogress", "alive", "current", "errors"} : y.stat[n] = x.stat[n]
  BY <1>1 DEF Counted, Stats
<1>5. GaugesOk(y)
  BY <1>1, <1>4 DEF Core, CountsOk, GaugesOk, Counted, Idling
<1>6. y.stat["alive"] = AliveOf(y)
  BY <1>1, <1>4 DEF Core, CountsOk, AliveOf, Idling
<1> QED BY <1>0, <1>1, <1>4, <1>5, <1>6, ConnectWide

LEMMA BindMoved ==
  ASSUME NEW x, Core(x), x.role = "bind", x.ep # "ACTIVE",
         NEW y, NEW s, s # "ACTIVE", Moved(x, y, s)
  PROVE  Safe(y)
<1>0. SUFFICES ASSUME y.failed = Nil PROVE Core(y) /\ PhasesOk(y)
  BY DEF Safe
<1>1. x \in World /\ Wide(x, y) /\ Still(x, y) /\ Counted(x, y) /\ y.ep = s /\ y.role = x.role
  BY <1>0 DEF Core, Moved, Wide, Places
<1>2. \A c \in Conns : Attached(y, c) = Attached(x, c) /\ Breaking(y, c) = Breaking(x, c)
  BY <1>1 DEF Attached, Breaking, Still
<1>3. \A c \in Conns : Kept(x, y, c)
  BY <1>2, KeptIs DEF Core
<1>4. \A n \in {"inprogress", "alive", "current", "errors"} : y.stat[n] = x.stat[n]
  BY <1>1 DEF Counted, Stats
<1>5. GaugesOk(y)
  BY <1>1, <1>4 DEF Core, CountsOk, GaugesOk, Counted
<1>6. y.stat["alive"] = AliveOf(y)
  BY <1>1, <1>4 DEF Core, CountsOk, AliveOf, Still
<1>7. x.us[Listener].st # "IDLE" => y.ep = "ACTIVE"
  BY DEF Core, ListenerOk
<1>9. Core(y)
  BY <1>0, <1>1, <1>3, <1>4, <1>5, <1>6, <1>7, WideKeeps
<1> QED BY <1>1, <1>9 DEF PhasesOk


(***************************************************************************)
(* The connected endpoint.                                                 *)
(***************************************************************************)
LEMMA PeerIs == Peer \in Conns
BY Names DEF Peer

LEMMA EpOwners ==
  \A src \in Sources : EpOwner(src) \in Owners /\ EpOwner(src).src = src
BY DEF Owners, EpOwner

(* ctcp.c: the resolver.                                                   *)
LEMMA DnsRaiseIs ==
  ASSUME NEW x \in World, NEW s \in DnsStates, NEW type \in SessTypes
  PROVE  Quiet(x, DnsRaise(x, s, type))
<1> DEFINE v == [x EXCEPT !.dns = s]
<1>1. Quiet(x, v) /\ v \in World
  BY DnsPut, MovedIs DEF Quiet
<1>2. EpOwner("DNS") \in Owners /\ EpOwner("DNS").src = "DNS" /\ Nil \in Ptrs
  BY EpOwners, Names DEF Sources
<1> HIDE DEF v
<1>3. Quiet(v, Raise(v, EpOwner("DNS"), Nil, type))
  BY <1>1, <1>2, RaiseQuiet
<1>4. DnsRaise(x, s, type) = Raise(v, EpOwner("DNS"), Nil, type)
  BY DEF DnsRaise, v
<1> QED BY <1>1, <1>3, <1>4, QuietTrans DEF Quiet

LEMMA DnsOps ==
  ASSUME NEW x \in World
  PROVE  /\ \A ok \in BOOLEAN : Quiet(x, DnsDone(x, ok)) /\ Quiet(x, DnsNotified(x, ok))
         /\ Quiet(x, DnsStopped(x))
         /\ \A y \in DnsStart(x) \cup DnsStop(x) : Quiet(x, y)
<1>1. "DONE" \in DnsStates /\ "IDLE" \in DnsStates /\ "RESOLVING" \in DnsStates
      /\ "STOPPING" \in DnsStates /\ "DONE" \in SessTypes /\ "STOPPED" \in SessTypes
  BY DEF DnsStates, SessTypes, EventTypes
<1>2. Quiet(x, DnsStopped(x))
  BY <1>1, DnsRaiseIs DEF DnsStopped
<1>3. ASSUME NEW ok \in BOOLEAN PROVE Quiet(x, DnsDone(x, ok))
  <2> DEFINE v == [x EXCEPT !.found = ok]
  <2>1. Quiet(x, v) /\ v \in World
    BY <1>1, DnsPut, MovedIs DEF Quiet
  <2>2. DnsDone(x, ok) = DnsRaise(v, "DONE", "DONE")
    BY DEF DnsDone
  <2> HIDE DEF v
  <2>3. Quiet(v, DnsRaise(v, "DONE", "DONE"))
    BY <1>1, <2>1, DnsRaiseIs
  <2> QED BY <2>1, <2>2, <2>3, QuietTrans DEF Quiet
<1>4. \A ok \in BOOLEAN : Quiet(x, DnsNotified(x, ok))
  BY <1>2, <1>3 DEF DnsNotified
<1>5. \A s \in {"RESOLVING", "STOPPING"} : Quiet(x, [x EXCEPT !.dns = s])
  BY <1>1, DnsPut
<1>6. ASSUME NEW y \in DnsStart(x) PROVE Quiet(x, y)
  <2>1. CASE ~DnsIdle(x)
    BY <1>6, <2>1, FailMoved, Sites DEF DnsStart, Bad, Quiet
  <2>2. CASE DnsIdle(x)
    BY <1>3, <1>5, <1>6, <2>2 DEF DnsStart, DnsLookup
  <2> QED BY <2>1, <2>2
<1>7. ASSUME NEW y \in DnsStop(x) PROVE Quiet(x, y)
  <2>1. x.dns \in {"IDLE", "STOPPING", "DONE", "RESOLVING"}
    BY Has DEF DnsStates
  <2>2. y \in {x, DnsStopped(x), [x EXCEPT !.dns = "STOPPING"]}
    BY <1>7, <2>1 DEF DnsStop
  <2> QED BY <1>2, <1>5, <2>2, QuietSame
<1> QED BY <1>2, <1>3, <1>4, <1>6, <1>7

(* ep.c, ctcp.c: the counter of attempts and the socket.                   *)
LEMMA StatUs ==
  ASSUME NEW x \in World, NEW n, NEW k
  PROVE  StatIncrement(x, n, k).us = x.us
BY DEF StatIncrement, Fail, World

(* The socket of a connection being made is opened.                        *)
LEMMA UsockStartIs ==
  ASSUME NEW x \in World, x.role = "connect", NEW c \in Conns, NEW y, y = UsockStart(x, c)
  PROVE  Quiet(x, y)
<1>1. CASE x.us[c].open \/ ~UsockIdle(x, c)
  BY <1>1, FailMoved, Sites DEF UsockStart, Quiet
<1>2. CASE ~(x.us[c].open \/ ~UsockIdle(x, c))
  <2> DEFINE r == [x.us[c] EXCEPT !.open = TRUE, !.st = "STARTING"]
  <2>1. c \in Socks /\ x.us[c] \in UsockRecs
    BY Names, UsRec
  <2>2. r \in UsockRecs /\ r.st = "STARTING" /\ r.owner = x.us[c].owner
    BY <2>1 DEF UsockRecs, UsockStates
  <2>3. y = [x EXCEPT !.us = [x.us EXCEPT ![c] = r]]
    BY <1>2, <2>1, Has, ZenonT(60) DEF UsockStart, UsockMove, InitFromFd, World
  <2> HIDE DEF r
  <2>4. y \in World /\ SameEp(x, y)
    BY <2>1, <2>2, <2>3, UsPut
  <2>5. /\ y.failed = x.failed /\ y.hdr = x.hdr /\ y.stcp = x.stcp /\ y.pipe = x.pipe
        /\ y.stat = x.stat /\ y.events = x.events /\ y.tasks = x.tasks /\ y.copy = x.copy
    BY <2>1, <2>2, <2>3, UsPut
  <2>6. y.us[c] = r /\ \A u \in Socks \ {c} : y.us[u] = x.us[u]
    BY <2>1, <2>2, <2>3, UsPut
  <2>7. \A d \in Conns : Usable(x, y, d)
    BY <2>2, <2>6, Names DEF Usable, Listened
  <2>8. Places(x, y)
    BY <2>4, <2>5, <2>6, <2>7, Names DEF Places, SameEp
  <2>9. Lines(x, y)
    BY <2>5, LinesSame
  <2> QED BY <2>4, <2>5, <2>8, <2>9 DEF Quiet, Moved, Wide, Still, Counted, SameEp
<1> QED BY <1>1, <1>2

LEMMA PeerStoppable ==
  ASSUME NEW x, Core(x), x.role = "connect", NEW c \in Conns
  PROVE  Stoppable(x, c)
<1>1. AtcpOk(x, c)
  BY DEF Core
<1> QED BY <1>1 DEF AtcpOk, Stoppable, Listened

(* An attempt is made, and counted.                                        *)
LEMMA ConnectingIs ==
  ASSUME NEW x, Core(x), x.role = "connect", Alone(x), x.ep \in Idling,
         NEW v, Quiet(x, v), NEW y \in UsockConnecting(v)
  PROVE  Safe(y)
<1>0. SUFFICES ASSUME y.failed = Nil PROVE Core(y) /\ PhasesOk(y)
  BY DEF Safe
<1>1. x \in World /\ v \in World /\ Peer \in Conns
  BY PeerIs, MovedIs DEF Core, Quiet
<1>2. PICK z \in UsockConnect(v, Peer) : y = StatIncrement(EpMove(z, "CONNECTING"), "inprogress", 1)
  BY DEF UsockConnecting
<1>3. Quiet(v, z)
  BY <1>1, <1>2, UsockConnectOp, UsOpQuiet
<1>4. Quiet(x, z) /\ z \in World
  BY <1>1, <1>3, QuietTrans, MovedIs DEF Quiet
<1> DEFINE m == EpMove(z, "CONNECTING")
<1>5. Moved(z, m, "CONNECTING")
  BY <1>4, EpMoveIs DEF States
<1>6. m \in World /\ y = StatIncrement(m, "inprogress", 1)
  BY <1>2, <1>5, MovedIs
<1> HIDE DEF m
<1>7. Moved(x, m, "CONNECTING")
  BY <1>1, <1>4, <1>5, MovedTrans DEF Quiet
<1>8. Bumped(m, y, "inprogress", 1)
  BY <1>6, StatBumped DEF Stats
<1>9. Wide(x, y)
  BY <1>1, <1>7, <1>8, WideTrans DEF Moved, Bumped
<1>10. /\ m.failed = Nil /\ y.ep = m.ep /\ Still(m, y) /\ y.error = m.error
       /\ y.stat["inprogress"] = m.stat["inprogress"] + 1
       /\ \A n \in Stats \ {"inprogress"} : y.stat[n] = m.stat[n]
  BY <1>0, <1>8 DEF Bumped, Wide
<1>11. Still(x, m) /\ Counted(x, m) /\ m.ep = "CONNECTING"
  BY <1>7, <1>10 DEF Moved
<1>12. /\ Still(x, y) /\ y.ep = "CONNECTING" /\ y.error = x.error
       /\ y.stat["inprogress"] = x.stat["inprogress"] + 1
       /\ y.stat["errors"] = x.stat["errors"] /\ y.stat["alive"] = x.stat["alive"]
       /\ y.stat["current"] = x.stat["current"]
  BY <1>10, <1>11 DEF Still, Counted, Stats
<1>13. x.stat["inprogress"] = 0 /\ x.stat["alive"] = 0 /\ ErrorGauge(x)
  BY DEF Core, CountsOk, GaugesOk, AliveOf, Idling, ErrorGauge
<1>14. y.role = "connect"
  BY <1>0, <1>9 DEF Wide, Places
<1>15. GaugesOk(y)
  BY <1>12, <1>13, <1>14 DEF GaugesOk, ErrorGauge
<1>16. y.stat["alive"] = AliveOf(y)
  BY <1>12, <1>13, <1>14 DEF AliveOf
<1> QED BY <1>0, <1>9, <1>12, <1>15, <1>16, ConnectWide

(* ctcp.c:533-626, cipc.c: the attempt fails at once or is on its way.     *)
LEMMA StartConnecting ==
  ASSUME NEW x, Core(x), x.role = "connect", Alone(x), x.ep \in Idling,
         NEW y \in CtcpStartConnecting(x) \cup CipcStartConnecting(x)
  PROVE  Safe(y)
<1> DEFINE v == UsockStart(x, Peer)
<1>1. x \in World /\ Peer \in Conns
  BY PeerIs DEF Core
<1>2. Quiet(x, v) /\ v \in World
  BY <1>1, UsockStartIs, MovedIs DEF Quiet
<1>3. y \in {BackoffWait(x), BackoffWait(v)} \cup UsockConnecting(v)
  BY DEF CtcpStartConnecting, CipcStartConnecting
<1> HIDE DEF v
<1>4. Moved(x, BackoffWait(x), "WAITING")
  BY <1>1, BackoffWaitIs
<1>5. Moved(x, BackoffWait(v), "WAITING")
  BY <1>1, <1>2, BackoffWaitIs, MovedTrans DEF Quiet
<1>6. "WAITING" \in Idling
  BY DEF Idling, States
<1>7. Safe(BackoffWait(x)) /\ Safe(BackoffWait(v))
  BY <1>4, <1>5, <1>6, ConnectMoved
<1> QED BY <1>2, <1>3, <1>7, ConnectingIs

(* ctcp.c:503-531: the address is a name.                                  *)
LEMMA StartResolving ==
  ASSUME NEW x, Core(x), x.role = "connect", Alone(x), x.ep \in Idling,
         NEW y \in CtcpStartResolving(x)
  PROVE  Safe(y)
<1> DEFINE v == EpMove(x, "RESOLVING")
<1>1. x \in World /\ "RESOLVING" \in States /\ "RESOLVING" \in Idling
  BY DEF Core, States, Idling
<1>2. Moved(x, v, "RESOLVING") /\ v \in World
  BY <1>1, EpMoveIs, MovedIs
<1>3. y \in DnsStart(v)
  BY DEF CtcpStartResolving
<1> HIDE DEF v
<1>4. Quiet(v, y)
  BY <1>2, <1>3, DnsOps
<1>5. Moved(x, y, "RESOLVING")
  BY <1>1, <1>2, <1>4, QuietTrans
<1> QED BY <1>1, <1>5, ConnectMoved

(* The wait between two attempts, bound or connected.                      *)
LEMMA BackoffOverIs ==
  ASSUME NEW x \in World, NEW e, NEW again, NEW y \in BackoffOver(x, e, again)
  PROVE  \/ Moved(x, y, "STOPPING_BACKOFF") /\ x.ep = "WAITING"
         \/ y \in again /\ x.ep = "STOPPING_BACKOFF"
         \/ y \in World /\ y.failed # Nil
<1> DEFINE v == TimerStop(x, "retry")
<1>1. Quiet(x, v) /\ v \in World
  BY RetryOps, MovedIs DEF Quiet
<1>2. Moved(x, EpMove(v, "STOPPING_BACKOFF"), "STOPPING_BACKOFF")
  <2> HIDE DEF v
  <2>1. Moved(v, EpMove(v, "STOPPING_BACKOFF"), "STOPPING_BACKOFF")
    BY <1>1, EpMoveIs DEF States
  <2> QED BY <1>1, <2>1, MovedTrans DEF Quiet
<1>3. \/ y = EpMove(v, "STOPPING_BACKOFF") /\ x.ep = "WAITING"
      \/ y \in again /\ x.ep = "STOPPING_BACKOFF"
      \/ y = Fail(x, "endpoint: bad event")
  BY DEF BackoffOver, Bad
<1> QED BY <1>2, <1>3, FailIs, Sites

(* A failed assertion stops the program: nothing is claimed then.          *)
LEMMA FailSafe ==
  ASSUME NEW x \in World, NEW s \in Failures \ {Nil}
  PROVE  Safe(Fail(x, s))
BY FailIs DEF Safe


(***************************************************************************)
(* The connected endpoint: the events of a connection.                     *)
(***************************************************************************)
(* It is established: the session starts and the statistics say so.        *)
LEMMA ConnectedSafe ==
  ASSUME NEW x, Core(x), x.role = "connect", x.ep = "CONNECTING",
         NEW z \in SessionStart(EpMove(Tried(x), "ACTIVE"), Peer),
         NEW y, y = ClearError(StatIncrement(z, "alive", 1))
  PROVE  Safe(y)
<1>0. SUFFICES ASSUME y.failed = Nil PROVE Core(y) /\ PhasesOk(y)
  BY DEF Safe
<1> DEFINE a == Tried(x)
           b == EpMove(a, "ACTIVE")
           d == StatIncrement(z, "alive", 1)
<1>1. x \in World /\ Peer \in Conns /\ Alone(x) /\ x.us[Listener].st = "IDLE" /\ Frame(x)
      /\ Links(x, Conns)
  <2>1. Alone(x)
    BY AloneIs
  <2>2. Frame(x) /\ Links(x, Conns)
    BY CoreIs
  <2> QED BY <2>1, <2>2, PeerIs DEF Core, ListenerOk
<1>2. Bumped(x, a, "inprogress", -1) /\ a \in World
  <2>1. "inprogress" \in Stats /\ -1 \in Int /\ a = StatIncrement(x, "inprogress", -1)
    BY DEF Stats, Tried
  <2> HIDE DEF a
  <2>2. Bumped(x, a, "inprogress", -1)
    BY <1>1, <2>1, StatBumped
  <2> QED BY <2>2 DEF Bumped, Wide
<1>3. Moved(a, b, "ACTIVE") /\ b \in World
  <2> HIDE DEF a
  <2> QED BY <1>2, EpMoveIs, MovedIs DEF States
<1>4. z \in SessionStart(b, Peer) /\ y = ClearError(d)
  OBVIOUS
<1> HIDE DEF a, b
<1>5. Sess(b, z, Peer) /\ z \in World
  BY <1>1, <1>3, <1>4, SessionStartIs, SessWorld
<1>6. Bumped(z, d, "alive", 1) /\ d \in World
  BY <1>5, StatBumped DEF Stats, Bumped, Wide
<1> HIDE DEF d
<1>7. Erred(d, y, FALSE)
  BY <1>4, <1>6, ErrorIs
<1>8. d.failed = Nil /\ z.failed = Nil /\ b.failed = Nil /\ a.failed = Nil
  <2>1. d.failed = Nil
    BY <1>0, <1>7 DEF Erred, Wide
  <2>2. z.failed = Nil
    BY <1>6, <2>1 DEF Bumped, Wide
  <2>3. b.failed = Nil
    BY <1>5, <2>2, SessWorld
  <2> QED BY <1>3, <2>1, <2>2, <2>3, MovedIs
<1>9. /\ z.stcp[Peer].st = "PROTOHDR" /\ z.pipe[Peer].st = b.pipe[Peer].st
      /\ NoStop(b, z)
  BY <1>1, <1>3, <1>4, <1>8, SessionStartIs
<1>10. Wide(x, b) /\ Still(x, b) /\ b.ep = "ACTIVE" /\ b.role = "connect"
  BY <1>1, <1>2, <1>3, <1>8, WideTrans DEF Moved, Bumped, Still, Wide, Places
<1>11. Wide(z, y) /\ Still(z, y) /\ y.ep = z.ep /\ y.role = z.role
  BY <1>0, <1>5, <1>6, <1>7, <1>8, WideTrans DEF Bumped, Erred, Still, Wide, Places
<1>12. z.role = "connect" /\ z.ep = "ACTIVE"
  BY <1>5, <1>8, <1>10 DEF Sess, SameEp
<1>13. Frame(b)
  BY <1>1, <1>8, <1>10, WideFrame
<1>14. Frame(z)
  BY <1>1, <1>5, <1>8, <1>13, SessFrame
<1>15. Frame(y)
  BY <1>0, <1>11, <1>12, <1>14, WideFrame
<1>16. \A c \in Conns : LinkOk(b, c) /\ b.stcp[c].st = "IDLE" /\ ~Pending(b, "STCP", c, "STOPPED")
  <2>1. \A c \in Conns : Kept(x, b, c)
    BY <1>1 DEF Alone, Kept
  <2>2. \A c \in Conns : LinkOk(b, c)
    BY <1>1, <1>8, <1>10, <2>1, WideLink DEF Links, Kept
  <2>3. \A c \in Conns : ~Breaking(b, c)
    BY <1>10 DEF Breaking
  <2>4. \A c \in Conns : b.stcp[c].st = "IDLE"
    BY <1>1, <1>8, <1>10 DEF Alone, Wide, Places
  <2> QED BY <2>2, <2>3, <2>4 DEF LinkOk
<1>17. LinkOk(z, Peer)
  <2>1. ~Pending(z, "STCP", Peer, "STOPPED")
    BY <1>1, <1>3, <1>5, <1>8, <1>9, <1>16, SessPending DEF Pending, NoStop
  <2>2. Attached(z, Peer)
    BY <1>12 DEF Attached
  <2>3. PipeOk(b, Peer) /\ b.stcp[Peer].st = "IDLE"
    BY <1>1, <1>16 DEF LinkOk
  <2>4. z.pipe[Peer].st # "ACTIVE"
    BY <1>9, <2>3 DEF PipeOk
  <2> QED BY <1>9, <2>1, <2>2, <2>4 DEF LinkOk, PipeOk
<1>18. \A c \in Conns : LinkOk(z, c)
  BY <1>1, <1>3, <1>5, <1>8, <1>16, <1>17, SessOtherLink
<1>19. Links(y, Conns)
  <2>1. \A c \in Conns : Kept(z, y, c)
    BY <1>11, <1>18, KeptIs DEF Attached, Breaking, Still
  <2> QED BY <1>0, <1>5, <1>11, <1>18, <2>1, WideLink DEF Links, Kept
<1>20. CountsOk(y)
  <2>1. /\ \A n \in Stats \ {"inprogress"} : a.stat[n] = x.stat[n]
        /\ a.stat["inprogress"] = x.stat["inprogress"] + (-1) /\ a.error = x.error
    BY <1>2, <1>8 DEF Bumped
  <2>2. b.error = a.error /\ \A n \in Stats : b.stat[n] = a.stat[n]
    BY <1>3, <1>8 DEF Moved, Counted
  <2>3. z.error = b.error /\ \A n \in Stats \ {"current"} : z.stat[n] = b.stat[n]
    BY <1>5, <1>8 DEF Sess, SameEp, SameStats
  <2>4. d.error = z.error /\ d.stat["alive"] = z.stat["alive"] + 1
        /\ \A n \in Stats \ {"alive"} : d.stat[n] = z.stat[n]
    BY <1>6, <1>8 DEF Bumped
  <2>5. y.error = FALSE /\ (ErrorGauge(d) => ErrorGauge(y))
        /\ \A n \in Stats \ {"errors"} : y.stat[n] = d.stat[n]
    BY <1>0, <1>7 DEF Erred
  <2>6. {"inprogress", "alive", "current", "errors"} \subseteq Stats
    BY DEF Stats
  <2>7. /\ x.stat["inprogress"] = 1 /\ x.stat["alive"] = 0 /\ ErrorGauge(x)
        /\ x.stat["current"] = PipesOf(x)
    BY DEF Core, CountsOk, GaugesOk, AliveOf, ErrorGauge
  <2>8. ErrorGauge(d)
    BY <2>1, <2>2, <2>3, <2>4, <2>6, <2>7 DEF ErrorGauge
  <2>9. y.stat["inprogress"] = 0 /\ y.stat["alive"] = 1
    BY <2>1, <2>2, <2>3, <2>4, <2>5, <2>6, <2>7
  <2>10. b.stat["current"] = PipesOf(b)
    BY <1>8, <1>10, <2>1, <2>2, <2>6, <2>7, WidePipes
  <2>11. z.stat["current"] = PipesOf(z)
    BY <1>1, <1>3, <1>5, <1>8, <2>10, SessCounts
  <2>12. y.stat["current"] = PipesOf(y)
    BY <1>0, <1>11, <2>4, <2>5, <2>6, <2>11, WidePipes
  <2>13. y.role = "connect" /\ y.ep = "ACTIVE"
    BY <1>11, <1>12
  <2>14. GaugesOk(y)
    BY <2>5, <2>8, <2>9, <2>13 DEF GaugesOk, ErrorGauge
  <2>15. AliveOf(y) = 1
    BY <2>13 DEF AliveOf
  <2> QED BY <2>9, <2>12, <2>14, <2>15 DEF CountsOk
<1>21. PhasesOk(y)
  BY <1>11, <1>12 DEF PhasesOk
<1> QED BY <1>15, <1>19, <1>20, <1>21, CoreIs

(* It failed before it was established.                                    *)
LEMMA AttemptFailedSafe ==
  ASSUME NEW x, Core(x), x.role = "connect", x.ep = "CONNECTING",
         NEW y, y = Tried(EpMove(UsockStop(SetError(x), Peer), "STOPPING_USOCK"))
  PROVE  Safe(y)
<1>0. SUFFICES ASSUME y.failed = Nil PROVE Core(y) /\ PhasesOk(y)
  BY DEF Safe
<1> DEFINE a == SetError(x)
           b == UsockStop(a, Peer)
           d == EpMove(b, "STOPPING_USOCK")
<1>1. x \in World /\ Peer \in Conns /\ Alone(x)
  BY PeerIs, AloneIs DEF Core
<1>2. Erred(x, a, TRUE) /\ a \in World
  BY <1>1, ErrorIs DEF Erred, Wide
<1>3. Stoppable(a, Peer)
  <2>1. Stoppable(x, Peer)
    BY <1>1, PeerStoppable
  <2>2. a.us = x.us
    <3>1. [x EXCEPT !.error = TRUE] \in World
      BY <1>1, Put
    <3>2. [x EXCEPT !.error = TRUE].us = x.us
      BY <1>1 DEF World
    <3> QED BY <3>1, <3>2, StatUs DEF SetError
  <2> QED BY <2>1, <2>2 DEF Stoppable
<1> HIDE DEF a
<1>4. Quiet(a, b) /\ b \in World
  BY <1>1, <1>2, <1>3, UsockStopOp, UsOpQuiet
<1> HIDE DEF b
<1>5. Moved(b, d, "STOPPING_USOCK") /\ d \in World
  BY <1>4, EpMoveIs, MovedIs DEF States
<1> HIDE DEF d
<1>6. Bumped(d, y, "inprogress", -1)
  BY <1>5, StatBumped DEF Tried, Stats, d, b, a
<1>7. Moved(a, d, "STOPPING_USOCK")
  BY <1>2, <1>4, <1>5, MovedTrans DEF Quiet
<1>8. d.failed = Nil /\ a.failed = Nil
  BY <1>0, <1>6, <1>7, MovedIs DEF Bumped, Wide
<1>9. Wide(x, y)
  BY <1>1, <1>2, <1>6, <1>7, WideTrans DEF Moved, Bumped, Erred
<1>10. /\ y.ep = "STOPPING_USOCK" /\ Still(x, y) /\ y.error = TRUE
  BY <1>0, <1>2, <1>6, <1>7, <1>8 DEF Moved, Bumped, Erred, Still, Counted
<1>11. {"inprogress", "alive", "current", "errors"} \subseteq Stats
  BY DEF Stats
<1>12. /\ ErrorGauge(x) => ErrorGauge(a)
       /\ \A m \in Stats \ {"errors"} : a.stat[m] = x.stat[m]
  BY <1>2, <1>8 DEF Erred
<1>13. d.error = a.error /\ \A n \in Stats : d.stat[n] = a.stat[n]
  BY <1>7, <1>8 DEF Moved, Counted
<1>14. /\ y.error = d.error /\ y.stat["inprogress"] = d.stat["inprogress"] + (-1)
       /\ \A m \in Stats \ {"inprogress"} : y.stat[m] = d.stat[m]
  BY <1>0, <1>6 DEF Bumped
<1>15. /\ x.stat["inprogress"] = 1 /\ x.stat["alive"] = 0 /\ ErrorGauge(x)
  BY DEF Core, CountsOk, GaugesOk, AliveOf, ErrorGauge
<1>16. ErrorGauge(y)
  BY <1>11, <1>12, <1>13, <1>14, <1>15 DEF ErrorGauge
<1>17. /\ y.stat["inprogress"] = 0 /\ y.stat["alive"] = 0
       /\ y.stat["current"] = x.stat["current"]
  BY <1>11, <1>12, <1>13, <1>14, <1>15
<1>18. y.role = "connect"
  BY <1>0, <1>9 DEF Wide, Places
<1>19. GaugesOk(y) /\ y.stat["alive"] = AliveOf(y)
  BY <1>10, <1>16, <1>17, <1>18 DEF GaugesOk, AliveOf, ErrorGauge
<1> QED BY <1>0, <1>1, <1>9, <1>10, <1>17, <1>19, ConnectWide

(* It broke: the session is told to stop.                                  *)
LEMMA ConnectionBrokeSafe ==
  ASSUME NEW x, Core(x), x.role = "connect", x.ep = "ACTIVE",
         NEW y, y = EpMove(SessionStop(Broken(x), Peer), "STOPPING_STCP")
  PROVE  Safe(y)
<1>0. SUFFICES ASSUME y.failed = Nil PROVE Core(y) /\ PhasesOk(y)
  BY DEF Safe
<1> DEFINE a == Broken(x)
           z == SessionStop(a, Peer)
<1>1. x \in World /\ Peer \in Conns /\ x.us[Listener].st = "IDLE" /\ Frame(x) /\ Links(x, Conns)
  <2>1. Frame(x) /\ Links(x, Conns)
    BY CoreIs
  <2> QED BY <2>1, PeerIs DEF Core, ListenerOk
<1>2. Bumped(x, a, "alive", -1) /\ a \in World
  BY <1>1, StatBumped DEF Broken, Stats, Bumped, Wide
<1> HIDE DEF a
<1>3. Sess(a, z, Peer) /\ z \in World
  BY <1>1, <1>2, SessionStopIs, SessWorld
<1>4. /\ z.failed = Nil =>
              \/ z = a /\ a.stcp[Peer].st \in {"IDLE", "STOPPING"}
              \/ /\ a.stcp[Peer].st \in Live /\ z.pipe[Peer].st = "IDLE"
                 /\ z.stcp[Peer].st = "STOPPING" \/ (z.stcp[Peer].st = "IDLE" /\ Restful(z, Peer))
                 /\ z.stcp[Peer].st = "STOPPING" => NoStop(a, z)
  BY <1>1, <1>2, SessionStopIs
<1> HIDE DEF z
<1>5. Moved(z, y, "STOPPING_STCP")
  BY <1>3, EpMoveIs DEF States, z, a
<1>6. z.failed = Nil /\ a.failed = Nil
  BY <1>0, <1>3, <1>5, SessWorld, MovedIs
<1>7. Wide(x, a) /\ Still(x, a) /\ a.ep = "ACTIVE" /\ a.role = "connect"
  BY <1>2, <1>6 DEF Bumped, Wide, Places
<1>8. z.role = "connect" /\ z.ep = "ACTIVE"
  BY <1>3, <1>6, <1>7 DEF Sess, SameEp
<1>9. Wide(z, y) /\ Still(z, y) /\ Counted(z, y) /\ y.ep = "STOPPING_STCP" /\ y.role = "connect"
  BY <1>0, <1>5, <1>8 DEF Moved, Wide, Places
<1>10. Frame(a)
  BY <1>1, <1>6, <1>7, WideFrame
<1>11. Frame(z)
  BY <1>1, <1>3, <1>6, <1>10, SessFrame
<1>12. Frame(y)
  <2>1. z.us[Listener].st = "IDLE"
    BY <1>8, <1>11 DEF Frame, ListenerOk
  <2> QED BY <1>0, <1>9, <1>11, <2>1, WideFrame
<1>13. \A c \in Conns : LinkOk(a, c)
  <2>1. \A c \in Conns : Kept(x, a, c)
    BY <1>1, <1>7, KeptIs DEF Attached, Breaking, Still, Links
  <2> QED BY <1>1, <1>6, <1>7, <2>1, WideLink DEF Links, Kept
<1>14. ASSUME NEW c \in Conns \ {Peer} PROVE LinkOk(y, c)
  <2>1. LinkOk(z, c)
    BY <1>1, <1>2, <1>3, <1>6, <1>13, SessOtherLink
  <2>2. ~Attached(z, c) /\ ~Breaking(z, c)
    BY <1>8 DEF Attached, Breaking
  <2> QED BY <1>0, <1>3, <1>9, <2>1, <2>2, KeptIs, WideLink DEF Kept
<1>15. LinkOk(y, Peer)
  <2>1. ~Breaking(a, Peer) /\ Attached(a, Peer) /\ Breaking(y, Peer) /\ LinkOk(a, Peer)
    BY <1>1, <1>7, <1>9, <1>13 DEF Breaking, Attached
  <2>2. a.stcp[Peer].st # "STOPPING" /\ ~Pending(a, "STCP", Peer, "STOPPED")
    BY <2>1 DEF LinkOk
  <2>3. /\ y.us[Peer].owner = z.us[Peer].owner /\ y.hdr[Peer].st = z.hdr[Peer].st
        /\ y.stcp[Peer].st = z.stcp[Peer].st /\ y.pipe[Peer].st = z.pipe[Peer].st
    BY <1>0, <1>1, <1>9 DEF Wide, Places, Usable
  <2>4. Pending(y, "STCP", Peer, "STOPPED") => Pending(z, "STCP", Peer, "STOPPED")
    BY <1>0, <1>3, <1>9, WidePending DEF Pending, Foreign
  <2>5. CASE z = a /\ a.stcp[Peer].st = "IDLE"
    <3>1. Restful(z, Peer) /\ PipeOk(z, Peer) /\ ~Pending(z, "STCP", Peer, "STOPPED")
      BY <2>1, <2>2, <2>5 DEF LinkOk
    <3> QED BY <1>8, <1>9, <2>1, <2>3, <2>4, <2>5, <3>1 DEF LinkOk, Restful, PipeOk, End
  <2>6. CASE z.pipe[Peer].st = "IDLE" /\ z.stcp[Peer].st = "IDLE" /\ Restful(z, Peer)
    BY <1>8, <1>9, <2>1, <2>3, <2>6 DEF LinkOk, Restful, PipeOk, End
  <2>7. CASE z.pipe[Peer].st = "IDLE" /\ z.stcp[Peer].st = "STOPPING" /\ NoStop(a, z)
    <3>1. ~Pending(z, "STCP", Peer, "STOPPED")
      BY <1>1, <1>2, <1>3, <1>6, <2>2, <2>7, SessPending DEF Pending, NoStop
    <3> QED BY <2>1, <2>3, <2>4, <2>7, <3>1 DEF LinkOk, PipeOk
  <2> QED BY <1>4, <1>6, <2>2, <2>5, <2>6, <2>7
<1>16. CountsOk(y)
  <2>1. {"inprogress", "alive", "current", "errors"} \subseteq Stats
    BY DEF Stats
  <2>2. a.error = x.error /\ a.stat["alive"] = x.stat["alive"] + (-1)
        /\ \A n \in Stats \ {"alive"} : a.stat[n] = x.stat[n]
    BY <1>2, <1>6 DEF Bumped
  <2>3. z.error = a.error /\ \A n \in Stats \ {"current"} : z.stat[n] = a.stat[n]
    BY <1>3, <1>6 DEF Sess, SameEp, SameStats
  <2>4. y.error = z.error /\ \A n \in Stats : y.stat[n] = z.stat[n]
    BY <1>9 DEF Counted
  <2>5. /\ x.stat["inprogress"] = 0 /\ x.stat["alive"] = 1 /\ ErrorGauge(x)
        /\ x.stat["current"] = PipesOf(x)
    BY DEF Core, CountsOk, GaugesOk, AliveOf, ErrorGauge
  <2>6. ErrorGauge(y)
    BY <2>1, <2>2, <2>3, <2>4, <2>5 DEF ErrorGauge
  <2>7. y.stat["inprogress"] = 0 /\ y.stat["alive"] = 0
    BY <2>1, <2>2, <2>3, <2>4, <2>5
  <2>8. a.stat["current"] = PipesOf(a)
    BY <1>6, <1>7, <2>1, <2>2, <2>5, WidePipes
  <2>9. z.stat["current"] = PipesOf(z)
    BY <1>1, <1>2, <1>3, <1>6, <2>8, SessCounts
  <2>10. y.stat["current"] = PipesOf(y)
    BY <1>0, <1>9, <2>1, <2>4, <2>9, WidePipes
  <2>11. GaugesOk(y) /\ AliveOf(y) = 0
    BY <1>9, <2>6, <2>7 DEF GaugesOk, AliveOf, ErrorGauge
  <2> QED BY <2>7, <2>10, <2>11 DEF CountsOk
<1>17. PhasesOk(y)
  BY <1>9 DEF PhasesOk
<1> QED BY <1>12, <1>14, <1>15, <1>16, <1>17, CoreIs DEF Links


(***************************************************************************)
(* The connected endpoint: every event.                                    *)
(***************************************************************************)
LEMMA WaitingSafe ==
  ASSUME NEW x, Core(x), x.role = "connect", x.ep \in {"WAITING", "STOPPING_BACKOFF"}, NEW e,
         NEW y \in CtcpWaiting(x, e) \cup CipcWaiting(x, e)
  PROVE  Safe(y)
<1>1. x \in World /\ Alone(x) /\ x.ep \in Idling /\ "STOPPING_BACKOFF" \in Idling
  BY AloneIs DEF Core, Idling, States
<1>2. ASSUME NEW S, NEW z \in BackoffOver(x, e, S), \A v \in S : Safe(v)
      PROVE  Safe(z)
  <2>1. CASE Moved(x, z, "STOPPING_BACKOFF")
    BY <1>1, <2>1, ConnectMoved
  <2>2. CASE z \in S
    BY <1>2, <2>2
  <2>3. CASE z.failed # Nil
    BY <2>3 DEF Safe
  <2> QED BY <1>1, <1>2, <2>1, <2>2, <2>3, BackoffOverIs
<1>3. \A v \in CtcpStartResolving(x) : Safe(v)
  BY <1>1, StartResolving
<1>4. \A v \in CipcStartConnecting(x) : Safe(v)
  BY <1>1, StartConnecting
<1> QED BY <1>2, <1>3, <1>4 DEF CtcpWaiting, CipcWaiting

LEMMA ConnectStep ==
  ASSUME NEW x, Core(x), x.role = "connect", Alone(x), x.ep \in Idling,
         NEW c \in Conns, NEW s \in Idling
  PROVE  Safe(EpMove(UsockStop(x, c), s)) /\ Safe(BackoffWait(x))
<1> DEFINE v == UsockStop(x, c)
<1>1. x \in World /\ s \in States /\ "WAITING" \in Idling
  BY DEF Core, Idling, States
<1>2. Quiet(x, v) /\ v \in World
  BY <1>1, PeerStoppable, UsockStopOp, UsOpQuiet
<1> HIDE DEF v
<1>3. Moved(x, EpMove(v, s), s)
  BY <1>1, <1>2, EpMoveIs, MovedTrans DEF Quiet
<1>4. Moved(x, BackoffWait(x), "WAITING")
  BY <1>1, BackoffWaitIs
<1> QED BY <1>1, <1>3, <1>4, ConnectMoved DEF v

LEMMA ClosingSafe ==
  ASSUME NEW x0, Core(x0), x0.role = "connect", x0.events # <<>>, NEW e, e = Head(x0.events),
         NEW x, x = Taken(x0), x.ep \in {"ACTIVE", "STOPPING_STCP", "STOPPING_USOCK"},
         NEW y \in CtcpClosing(x, e)
  PROVE  Safe(y)
<1>1. Core(x) /\ x \in World /\ x0 \in World
  BY TakenCore DEF Core
<1>2. x.role = "connect" /\ x.ep = x0.ep /\ x.stcp = x0.stcp
  BY <1>1, TakenIs DEF SameEp, SameParts
<1>3. "STOPPING_USOCK" \in Idling /\ "STOPPING_STCP" \in Idling /\ Peer \in Conns
  BY PeerIs DEF Idling, States
<1>4. CASE x.ep = "ACTIVE" /\ y = EpMove(SessionStop(Broken(x), Peer), "STOPPING_STCP")
  BY <1>1, <1>2, <1>4, ConnectionBrokeSafe
<1>5. CASE /\ x.ep = "STOPPING_STCP" /\ e.src = "STCP" /\ e.type = "STOPPED"
           /\ y = EpMove(UsockStop(x, Peer), "STOPPING_USOCK")
  <2>1. Head(x0.events) = x0.events[1] /\ 1 \in 1..Len(x0.events)
    BY <1>1, TakenIs
  <2>2. e.ptr \in Conns /\ Pending(x0, "STCP", e.ptr, "STOPPED")
    BY <1>5, <2>1 DEF Core, EventsOk, Routed, Pending
  <2>3. e.ptr = Peer /\ x0.stcp[e.ptr].st = "IDLE"
    BY <2>2 DEF Core, LinkOk, Breaking
  <2>4. ~Pending(x, "STCP", Peer, "STOPPED")
    BY <1>1, <1>5, <2>3, TakenPending DEF Core
  <2>5. \A c \in Conns : c # Peer => ~Attached(x, c) /\ ~Breaking(x, c) /\ LinkOk(x, c)
    BY <1>1, <1>2 DEF Attached, Breaking, Core
  <2>6. Alone(x)
    BY <1>2, <2>3, <2>4, <2>5 DEF Alone, LinkOk
  <2> QED BY <1>1, <1>2, <1>3, <1>5, <2>6, ConnectStep
<1>6. CASE x.ep = "STOPPING_USOCK" /\ y = x
  BY <1>1, <1>2, <1>6 DEF Safe, PhasesOk
<1>7. CASE x.ep = "STOPPING_USOCK" /\ y = BackoffWait(x)
  <2>1. Alone(x)
    BY <1>1, <1>2, <1>7, AloneIs
  <2> QED BY <1>1, <1>2, <1>3, <1>7, <2>1, ConnectStep
<1>8. CASE y = Fail(x, "ctcp: bad event")
  BY <1>1, <1>8, FailSafe, Sites
<1> QED BY <1>4, <1>5, <1>6, <1>7, <1>8 DEF CtcpClosing, Bad

LEMMA CtcpHandlerSafe ==
  ASSUME NEW x0, Core(x0), x0.role = "connect", x0.events # <<>>, NEW e, e = Head(x0.events),
         NEW x, x = Taken(x0), NEW y \in CtcpHandler(x, e)
  PROVE  Safe(y)
<1>1. Core(x) /\ x \in World /\ x0 \in World
  BY TakenCore DEF Core
<1>2. x.role = "connect" /\ x.ep = x0.ep
  BY <1>1, TakenIs DEF SameEp, SameParts
<1>3. CASE x.ep = "RESOLVING" /\ y \in DnsStop(EpMove(x, "STOPPING_DNS"))
  <2> DEFINE v == EpMove(x, "STOPPING_DNS")
  <2>1. "STOPPING_DNS" \in States /\ "STOPPING_DNS" \in Idling /\ x.ep \in Idling /\ Alone(x)
    BY <1>1, <1>2, <1>3, AloneIs DEF States, Idling
  <2>2. Moved(x, v, "STOPPING_DNS") /\ v \in World
    BY <1>1, <2>1, EpMoveIs, MovedIs
  <2>3. y \in DnsStop(v)
    BY <1>3
  <2> HIDE DEF v
  <2>4. Quiet(v, y)
    BY <2>2, <2>3, DnsOps
  <2> QED BY <1>1, <1>2, <2>1, <2>2, <2>4, QuietTrans, ConnectMoved
<1>4. CASE x.ep = "STOPPING_DNS" /\ y \in CtcpStartConnecting(x) \cup {BackoffWait(x)}
  <2>1. x.ep \in Idling /\ Alone(x) /\ "WAITING" \in Idling /\ Peer \in Conns
    BY <1>1, <1>2, <1>4, AloneIs, PeerIs DEF States, Idling
  <2> QED BY <1>1, <1>2, <1>4, <2>1, StartConnecting, ConnectStep
<1>5. CASE x.ep = "CONNECTING"
           /\ \E z \in SessionStart(EpMove(Tried(x), "ACTIVE"), Peer) :
                  y = ClearError(StatIncrement(z, "alive", 1))
  BY <1>1, <1>2, <1>5, ConnectedSafe
<1>6. CASE x.ep = "CONNECTING"
           /\ y = Tried(EpMove(UsockStop(SetError(x), Peer), "STOPPING_USOCK"))
  BY <1>1, <1>2, <1>6, AttemptFailedSafe
<1>7. CASE x.ep \in {"ACTIVE", "STOPPING_STCP", "STOPPING_USOCK"} /\ y \in CtcpClosing(x, e)
  BY <1>7, ClosingSafe
<1>8. CASE x.ep \in {"WAITING", "STOPPING_BACKOFF"} /\ y \in CtcpWaiting(x, e)
  BY <1>1, <1>2, <1>8, WaitingSafe
<1>9. CASE y = Fail(x, "ctcp: bad event")
  BY <1>1, <1>9, FailSafe, Sites
<1>10. \/ x.ep = "RESOLVING" /\ y \in DnsStop(EpMove(x, "STOPPING_DNS"))
       \/ x.ep = "STOPPING_DNS" /\ y \in CtcpStartConnecting(x) \cup {BackoffWait(x)}
       \/ x.ep = "CONNECTING" /\ y \in {ClearError(StatIncrement(z, "alive", 1))
                : z \in SessionStart(EpMove(Tried(x), "ACTIVE"), Peer)}
       \/ x.ep = "CONNECTING" /\ y = Tried(EpMove(UsockStop(SetError(x), Peer), "STOPPING_USOCK"))
       \/ x.ep \in {"ACTIVE", "STOPPING_STCP", "STOPPING_USOCK"} /\ y \in CtcpClosing(x, e)
       \/ x.ep \in {"WAITING", "STOPPING_BACKOFF"} /\ y \in CtcpWaiting(x, e)
       \/ y = Fail(x, "ctcp: bad event")
  BY DEF CtcpHandler, Bad
<1> QED BY <1>3, <1>4, <1>5, <1>6, <1>7, <1>8, <1>9, <1>10

LEMMA ConnectHandlerSafe ==
  ASSUME NEW x0, Core(x0), x0.role = "connect", x0.events # <<>>, NEW e, e = Head(x0.events),
         NEW x, x = Taken(x0), NEW y \in CtcpHandler(x, e) \cup CipcHandler(x, e)
  PROVE  Safe(y)
<1>1. Core(x) /\ x0 \in World
  BY TakenCore DEF Core
<1>2. x.role = "connect"
  BY <1>1, TakenIs DEF SameEp
<1> QED BY <1>1, <1>2, CtcpHandlerSafe, WaitingSafe DEF CipcHandler


(***************************************************************************)
(* Accepting: the listener and the socket of the connection change         *)
(* together.                                                               *)
(***************************************************************************)
Two(x, y, c) ==
    /\ SameEp(x, y) /\ y.hdr = x.hdr /\ y.stcp = x.stcp /\ y.pipe = x.pipe /\ y.stat = x.stat
    /\ y.copy = x.copy
    /\ y.us[c].owner = x.us[c].owner /\ y.us[Listener].owner = x.us[Listener].owner
    /\ \A u \in Socks \ {c, Listener} : y.us[u] = x.us[u]
Touched(x, y, c) ==    \* nothing is queued
    /\ y \in World /\ y.failed = x.failed /\ Two(x, y, c)
    /\ y.events = x.events /\ y.tasks = x.tasks

LEMMA TouchedTrans ==
  ASSUME NEW x, NEW y, NEW z, NEW c, Touched(x, y, c), Touched(y, z, c)
  PROVE  Touched(x, z, c)
BY DEF Touched, Two, SameEp

LEMMA TouchedSame ==
  ASSUME NEW x \in World, NEW c
  PROVE  Touched(x, x, c)
BY DEF Touched, Two, SameEp

(* Flags, states and partners of the two.                                  *)
LEMMA TouchedSet ==
  ASSUME NEW x \in World, NEW c \in Conns, NEW u \in {c, Listener}, NEW r \in UsockRecs,
         r.owner = x.us[u].owner, NEW y, y = [x EXCEPT !.us = [x.us EXCEPT ![u] = r]]
  PROVE  /\ Touched(x, y, c) /\ y \in World
         /\ y.us[u] = r /\ \A z \in Socks \ {u} : y.us[z] = x.us[z]
<1>1. u \in Socks /\ c \in Socks /\ Listener \in Socks /\ c # Listener
  BY Names
<1>2. y \in World /\ SameEp(x, y)
  BY <1>1, UsPut
<1>3. /\ y.failed = x.failed /\ y.hdr = x.hdr /\ y.stcp = x.stcp /\ y.pipe = x.pipe
      /\ y.stat = x.stat /\ y.events = x.events /\ y.tasks = x.tasks /\ y.copy = x.copy
  BY <1>1, UsPut
<1>4a. y.us[u] = r
  BY <1>1, UsPut DEF World
<1>4b. \A z \in Socks \ {u} : y.us[z] = x.us[z]
  BY <1>1, UsPut
<1>4. y.us[u] = r /\ \A z \in Socks \ {u} : y.us[z] = x.us[z]
  BY <1>4a, <1>4b
<1>5. y.us[c].owner = x.us[c].owner /\ y.us[Listener].owner = x.us[Listener].owner
      /\ \A z \in Socks \ {c, Listener} : y.us[z] = x.us[z]
  BY <1>1, <1>4
<1> QED BY <1>2, <1>3, <1>4, <1>5 DEF Touched, Two

LEMMA TouchedMove ==
  ASSUME NEW x \in World, NEW c \in Conns, NEW u \in {c, Listener}, NEW st \in UsockStates,
         NEW y, y = UsockMove(x, u, st)
  PROVE  /\ Touched(x, y, c) /\ y \in World
         /\ y.us[u].st = st /\ y.us[u].asock = x.us[u].asock
         /\ \A z \in Socks \ {u} : y.us[z] = x.us[z]
<1> DEFINE r == [x.us[u] EXCEPT !.st = st]
<1>1. u \in Socks /\ x.us[u] \in UsockRecs
  BY Names, UsRec
<1>2. r \in UsockRecs /\ r.st = st /\ r.asock = x.us[u].asock /\ r.owner = x.us[u].owner
  BY <1>1 DEF UsockRecs
<1>3. y = [x EXCEPT !.us = [x.us EXCEPT ![u] = r]]
  BY DEF UsockMove
<1> HIDE DEF r
<1>4. Touched(x, y, c) /\ y \in World
  BY <1>2, <1>3, TouchedSet
<1>5. y.us[u] = r
  BY <1>1, <1>2, <1>3, UsPut DEF World
<1>6. \A z \in Socks \ {u} : y.us[z] = x.us[z]
  BY <1>2, <1>3, TouchedSet
<1> QED BY <1>2, <1>4, <1>5, <1>6

LEMMA TouchedAsock ==
  ASSUME NEW x \in World, NEW c \in Conns, NEW u \in {c, Listener}, NEW a \in Socks \cup {Nil},
         NEW y, y = [x EXCEPT !.us[u].asock = a]
  PROVE  /\ Touched(x, y, c) /\ y \in World
         /\ y.us[u].asock = a /\ y.us[u].st = x.us[u].st
         /\ \A z \in Socks \ {u} : y.us[z] = x.us[z]
<1> DEFINE r == [x.us[u] EXCEPT !.asock = a]
<1>1. u \in Socks /\ x.us[u] \in UsockRecs
  BY Names, UsRec
<1>2. r \in UsockRecs /\ r.st = x.us[u].st /\ r.asock = a /\ r.owner = x.us[u].owner
  BY <1>1 DEF UsockRecs
<1>3. y = [x EXCEPT !.us = [x.us EXCEPT ![u] = r]]
  OBVIOUS
<1> HIDE DEF r
<1>4. Touched(x, y, c) /\ y \in World
  BY <1>2, <1>3, TouchedSet
<1>5. y.us[u] = r
  BY <1>1, <1>2, <1>3, UsPut DEF World
<1>6. \A z \in Socks \ {u} : y.us[z] = x.us[z]
  BY <1>2, <1>3, TouchedSet
<1> QED BY <1>2, <1>4, <1>5, <1>6

Pairing(x, c, a, b) == [x EXCEPT !.us[c].asock = a, !.us[Listener].asock = b]
LEMMA TouchedAsocks ==
  ASSUME NEW x \in World, NEW c \in Conns, NEW a \in Socks \cup {Nil}, NEW b \in Socks \cup {Nil},
         NEW y, y = Pairing(x, c, a, b)
  PROVE  /\ Touched(x, y, c) /\ y \in World
         /\ y.us[c].asock = a /\ y.us[Listener].asock = b
         /\ y.us[c].st = x.us[c].st /\ y.us[Listener].st = x.us[Listener].st
<1> DEFINE p == [x.us[c] EXCEPT !.asock = a]
           q == [x.us[Listener] EXCEPT !.asock = b]
           f == [z \in Socks |-> IF z = c THEN p ELSE IF z = Listener THEN q ELSE x.us[z]]
<1>0. c # Listener /\ Listener \in Socks /\ c \in Socks
  BY Names
<1>1. x.us[c] \in UsockRecs /\ x.us[Listener] \in UsockRecs /\ x.us \in [Socks -> UsockRecs]
  BY <1>0, Has
<1>2. /\ p \in UsockRecs /\ p.st = x.us[c].st /\ p.asock = a /\ p.owner = x.us[c].owner
      /\ q \in UsockRecs /\ q.st = x.us[Listener].st /\ q.asock = b
      /\ q.owner = x.us[Listener].owner
  BY <1>1 DEF UsockRecs
<1>3. [x.us EXCEPT ![c].asock = a, ![Listener].asock = b] = f
  BY <1>0, <1>1
<1>4. y = [x EXCEPT !.us = f]
  BY <1>3 DEF World, Pairing
<1> HIDE DEF p, q
<1>5. f \in [Socks -> UsockRecs] /\ f[c] = p /\ f[Listener] = q
      /\ \A z \in Socks \ {c, Listener} : f[z] = x.us[z]
  BY <1>0, <1>1, <1>2
<1> HIDE DEF f
<1>6a. [x EXCEPT !.us = f] \in World
  BY <1>5, Put
<1>6. y \in World
  BY <1>4, <1>6a
<1>7. /\ y.us = f /\ SameEp(x, y) /\ y.failed = x.failed /\ y.hdr = x.hdr /\ y.stcp = x.stcp
      /\ y.pipe = x.pipe /\ y.stat = x.stat /\ y.copy = x.copy /\ y.events = x.events
      /\ y.tasks = x.tasks
  BY <1>4 DEF World, SameEp
<1>8. Two(x, y, c)
  BY <1>2, <1>5, <1>7 DEF Two
<1>9. Touched(x, y, c)
  BY <1>6, <1>7, <1>8 DEF Touched
<1> QED BY <1>2, <1>5, <1>6, <1>7, <1>9

LEMMA TouchedFlags ==
  ASSUME NEW x \in World, NEW c \in Conns, NEW u \in {c, Listener}, NEW b \in BOOLEAN,
         NEW y, \/ y = [x EXCEPT !.us[u].open = b] \/ y = [x EXCEPT !.us[u].errnum = b]
                \/ y = PollerRm(x, u) \/ y = PollerAdd(x, u) \/ y = PollerIn(x, u, b)
  PROVE  /\ Touched(x, y, c) /\ y \in World
         /\ y.us[u].st = x.us[u].st /\ y.us[u].asock = x.us[u].asock
         /\ \A z \in Socks \ {u} : y.us[z] = x.us[z]
<1>1. u \in Socks /\ x.us[u] \in UsockRecs
  BY Names, UsRec
<1>2. PICK r \in UsockRecs : Like(r, x.us[u]) /\ y = [x EXCEPT !.us = [x.us EXCEPT ![u] = r]]
  <2> DEFINE s == x.us[u]
  <2>1. CASE y = [x EXCEPT !.us[u].open = b]
    <3>1. y = [x EXCEPT !.us = [x.us EXCEPT ![u] = [s EXCEPT !.open = b]]]
      BY <2>1
    <3> QED BY <1>1, <3>1, LikeIs, ZenonT(60) DEF Like
  <2>2. CASE y = [x EXCEPT !.us[u].errnum = b]
    <3>1. y = [x EXCEPT !.us = [x.us EXCEPT ![u] = [s EXCEPT !.errnum = b]]]
      BY <2>2
    <3> QED BY <1>1, <3>1, LikeIs DEF Like
  <2>3. CASE y = PollerRm(x, u)
    <3>1. y = [x EXCEPT !.us = [x.us EXCEPT ![u] = [s EXCEPT !.reg = FALSE]]]
      BY <2>3 DEF PollerRm
    <3> QED BY <1>1, <3>1, LikeIs DEF Like
  <2>4. CASE y = PollerAdd(x, u)
    <3>1. y = [x EXCEPT !.us = [x.us EXCEPT ![u] =
                  [s EXCEPT !.reg = TRUE, !.in = FALSE, !.out = FALSE]]]
      BY <1>1, <2>4, Has, ZenonT(60) DEF PollerAdd
    <3> QED BY <1>1, <3>1, LikeIs DEF Like
  <2>5. CASE y = PollerIn(x, u, b)
    <3>1. y = [x EXCEPT !.us = [x.us EXCEPT ![u] = [s EXCEPT !.in = b]]]
      BY <2>5 DEF PollerIn
    <3> QED BY <1>1, <3>1, LikeIs, ZenonT(60) DEF Like
  <2> QED BY <2>1, <2>2, <2>3, <2>4, <2>5
<1>3. r.st = x.us[u].st /\ r.asock = x.us[u].asock /\ r.owner = x.us[u].owner
  BY <1>2 DEF Like
<1> QED BY <1>2, <1>3, TouchedSet

(* The outcomes of an attempt to accept.                                   *)
Offers(c) == [to |-> "atcp", of |-> c, src |-> "USOCK", ptr |-> c, type |-> "ACCEPTED"]
Misses(c) == [to |-> "atcp", of |-> c, src |-> "LISTENER", ptr |-> Listener,
                    type |-> "ACCEPT_ERROR"]
Offered(x, y, c) ==
    /\ y.us[Listener].st = "LISTENING" /\ y.us[c].st = "ACCEPTED"
    /\ y.events = Append(x.events, Offers(c)) /\ y.tasks = x.tasks
Missed(x, y, c) ==
    /\ y.us[Listener].st = "ACCEPTING_ERROR" /\ (x.us[c].st \in Fresh => y.us[c].st \in Fresh)
    /\ y.events = Append(x.events, Misses(c)) /\ y.tasks = x.tasks
Asked(x, y, c) ==
    /\ y.us[Listener].st = "ACCEPTING" /\ y.us[c].st \in Fresh
    /\ y.us[Listener].asock = c /\ y.us[c].asock = Listener
    /\ y.events = x.events /\ y.tasks = Append(x.tasks, AcceptTask)
Accepts(x, y, c) ==
    /\ y \in World /\ x.failed = Nil /\ Two(x, y, c) /\ (Distinct(x) => Distinct(y))

(* usock.c: AcceptSucceeds, and the shortage of descriptors.               *)
LEMMA TouchedWorld ==
  ASSUME NEW x, NEW y, NEW c, Touched(x, y, c)
  PROVE  y \in World /\ y.failed = x.failed /\ y.events = x.events /\ y.tasks = x.tasks
BY DEF Touched

LEMMA SucceedsIs ==
  ASSUME NEW x \in World, NEW c \in Conns,
         NEW y, y = AcceptSucceeds(x, c, Listener), y.failed = Nil
  PROVE  Accepts(x, y, c) /\ (x.us[c].owner = AtcpOwner(c, "USOCK") => Offered(x, y, c))
<1> DEFINE a == [x EXCEPT !.us[c].asock = Nil, !.us[Listener].asock = Nil]
           b == [a EXCEPT !.us[c].open = TRUE]
           d == InitFromFd(a, c)
           m == AcceptDone(d, Listener)
           n == UsockMove(m, c, "ACCEPTED")
<1>0. c \in Socks /\ Listener \in Socks /\ c # Listener /\ c \in {c, Listener} /\ Listener \in {c, Listener}
      /\ c \in Ptrs
  BY Names
<1>1. Touched(x, a, c) /\ a \in World
  <2>1. Nil \in Socks \cup {Nil}
    OBVIOUS
  <2>2. a = Pairing(x, c, Nil, Nil)
    BY DEF Pairing
  <2> HIDE DEF a
  <2>3. Touched(x, a, c)
    BY <2>1, <2>2, TouchedAsocks
  <2> QED BY <2>3 DEF Touched
<1> HIDE DEF a
<1>2. Touched(a, b, c)
  BY <1>0, <1>1, TouchedFlags
<1>3. d = b \/ d = Fail(a, "usock started twice")
  BY DEF InitFromFd
<1>4. d \in World /\ (d = b \/ d.failed # Nil)
  BY <1>1, <1>2, <1>3, FailIs, Sites DEF Touched
<1> HIDE DEF b, d
<1>5. /\ Touched(d, m, c) /\ m \in World /\ m.us[Listener].st = "LISTENING"
  <2>1. m = UsockMove(d, Listener, "LISTENING") /\ "LISTENING" \in UsockStates
    BY DEF AcceptDone, UsockStates
  <2> HIDE DEF m
  <2> QED BY <1>0, <1>4, <2>1, TouchedMove
<1> HIDE DEF m
<1>6. /\ Touched(m, n, c) /\ n \in World /\ n.us[c].st = "ACCEPTED"
      /\ n.us[Listener].st = "LISTENING"
  <2>1. "ACCEPTED" \in UsockStates
    BY DEF UsockStates
  <2> QED BY <1>0, <1>5, <2>1, TouchedMove
<1>7. y = Raise(n, n.us[c].owner, c, "ACCEPTED")
  BY DEF AcceptSucceeds, BecomeAccepted, UsockRaise, n, m, d, a
<1> HIDE DEF n
<1>8. n.us[c] \in UsockRecs /\ n.us[c].owner \in Owners /\ "ACCEPTED" \in EventTypes
  <2>1. n.us[c].owner \in UsOwners
    BY <1>0, <1>6, UsRec
  <2>2. UsOwners \subseteq Owners
    BY DEF UsOwners, Owners, Sources, ToOne
  <2> QED BY <1>0, <1>6, <2>1, <2>2, UsRec DEF EventTypes
<1>9. /\ n.failed = Nil /\ SameEp(n, y) /\ SameParts(n, y) /\ y \in World
      /\ y.tasks = n.tasks /\ y.copy = n.copy
      /\ (Distinct(n) => Distinct(y))
  BY <1>0, <1>6, <1>7, <1>8, RaiseIs
<1>10. y.events = Append(n.events, Item(n.us[c].owner, c, "ACCEPTED"))
  BY <1>0, <1>6, <1>7, <1>8, RaiseIs
<1>11. d.failed = Nil
  BY <1>5, <1>6, <1>9 DEF Touched
<1>12. Touched(x, n, c)
  BY <1>1, <1>2, <1>4, <1>5, <1>6, <1>11, TouchedTrans
<1>15. ASSUME x.us[c].owner = AtcpOwner(c, "USOCK") PROVE Offered(x, y, c)
  <2>1. n.us[c].owner = AtcpOwner(c, "USOCK")
    BY <1>12, <1>15 DEF Touched, Two
  <2>2. Item(n.us[c].owner, c, "ACCEPTED") = Offers(c)
    BY <2>1 DEF Item, Offers, AtcpOwner
  <2> QED BY <1>6, <1>9, <1>10, <1>12, <2>2 DEF Offered, Touched, SameParts
<1>16. Two(x, y, c)
  BY <1>9, <1>12 DEF Two, Touched, SameEp, SameParts
<1>17. (Distinct(x) => Distinct(y)) /\ x.failed = Nil
  BY <1>9, <1>12 DEF Touched, Distinct
<1> QED BY <1>9, <1>15, <1>16, <1>17 DEF Accepts

(* The listener says that it is short of descriptors.                      *)
LEMMA ShortIs ==
  ASSUME NEW x \in World, NEW c \in Conns, x.us[Listener].owner = AtcpOwner(c, "LISTENER"),
         x.us[Listener].st = "ACCEPTING_ERROR",
         NEW y, y = UsockRaise(x, Listener, "ACCEPT_ERROR"), y.failed = Nil
  PROVE  Accepts(x, y, c) /\ Missed(x, y, c)
<1>0. Listener \in Socks /\ Listener \in Ptrs /\ "ACCEPT_ERROR" \in EventTypes
  BY Names DEF EventTypes
<1>1. x.us[Listener].owner \in Owners
  BY DEF AtcpOwner, Owners, Sources, ToOne
<1>2. y = Raise(x, x.us[Listener].owner, Listener, "ACCEPT_ERROR")
  BY DEF UsockRaise
<1>3. /\ x.failed = Nil /\ SameEp(x, y) /\ SameParts(x, y) /\ y \in World
      /\ y.tasks = x.tasks /\ y.copy = x.copy
      /\ (Distinct(x) => Distinct(y))
  BY <1>0, <1>1, <1>2, RaiseIs
<1>4. y.events = Append(x.events, Item(x.us[Listener].owner, Listener, "ACCEPT_ERROR"))
  BY <1>0, <1>1, <1>2, RaiseIs
<1>5. Item(x.us[Listener].owner, Listener, "ACCEPT_ERROR") = Misses(c)
  BY DEF Item, Misses, AtcpOwner
<1>6. Missed(x, y, c)
  BY <1>3, <1>4, <1>5 DEF Missed, SameParts
<1>7. Two(x, y, c)
  BY <1>3 DEF Two, SameParts
<1> QED BY <1>3, <1>6, <1>7 DEF Accepts


Outcome(x, y, c) == Accepts(x, y, c) /\ (Offered(x, y, c) \/ Missed(x, y, c) \/ Asked(x, y, c))

LEMMA TouchedAccepts ==
  ASSUME NEW x \in World, NEW q, NEW y, NEW c \in Conns, Touched(x, q, c), Accepts(q, y, c)
  PROVE  /\ Accepts(x, y, c)
         /\ Offered(q, y, c) => Offered(x, y, c)
         /\ Missed(q, y, c) /\ q.us[c].st \in Fresh => Missed(x, y, c)
         /\ Asked(q, y, c) => Asked(x, y, c)
<1>1. Two(x, y, c)
  BY DEF Accepts, Touched, Two, SameEp
<1>2. q.events = x.events /\ q.tasks = x.tasks /\ q.failed = x.failed
  BY DEF Touched
<1>3. Distinct(x) => Distinct(q)
  BY <1>2 DEF Distinct
<1>4. Accepts(x, y, c)
  BY <1>1, <1>2, <1>3 DEF Accepts
<1> QED BY <1>2, <1>4 DEF Offered, Missed, Asked

(* The two sockets are told of each other.                                 *)
Ready(x, v, c) ==
    v \in World /\ (v.failed = Nil => /\ Touched(x, v, c) /\ v.us[Listener].st = "ACCEPTING"
                                      /\ x.us[Listener].st \in {"LISTENING", "ACCEPTING_ERROR"}
                                      /\ v.us[c].st \in Fresh)
LEMMA ReadyIs ==
  ASSUME NEW x \in World, NEW c \in Conns, x.us[c].st \in Fresh,
         NEW v, v = Accepting(BeingAccepted(x, c), Listener)
  PROVE  Ready(x, v, c)
<1> DEFINE m == BeingAccepted(x, c)
<1>0. c \in Socks /\ Listener \in Socks /\ c # Listener /\ c \in {c, Listener} /\ Listener \in {c, Listener}
      /\ "BEING_ACCEPTED" \in UsockStates /\ "ACCEPTING" \in UsockStates
      /\ "usock: bad action" \in Failures \ {Nil}
  BY Names, Sites DEF UsockStates
<1>1. m = x \/ m = UsockMove(x, c, "BEING_ACCEPTED")
  BY DEF BeingAccepted
<1>2. Touched(x, m, c) /\ m \in World
  <2>1. CASE m = x
    BY <2>1, TouchedSame
  <2>2. CASE m = UsockMove(x, c, "BEING_ACCEPTED")
    <3> HIDE DEF m
    <3> QED BY <1>0, <2>2, TouchedMove
  <2> HIDE DEF m
  <2> QED BY <1>1, <2>1, <2>2
<1>3. m.us[c].st \in Fresh /\ m.us[Listener].st = x.us[Listener].st
  <2>1. CASE m = x
    BY <2>1
  <2>2. CASE m = UsockMove(x, c, "BEING_ACCEPTED")
    <3>0. c \in {c, Listener} /\ "BEING_ACCEPTED" \in UsockStates
      BY <1>0
    <3> HIDE DEF m
    <3>1. /\ m.us[c].st = "BEING_ACCEPTED"
          /\ \A z \in Socks \ {c} : m.us[z] = x.us[z]
      BY <2>2, <3>0, TouchedMove
    <3> QED BY <1>0, <3>1 DEF Fresh
  <2> HIDE DEF m
  <2> QED BY <1>1, <2>1, <2>2
<1>4. \/ v = Fail(m, "usock: bad action")
      \/ v = UsockMove(m, Listener, "ACCEPTING")
         /\ m.us[Listener].st \in {"LISTENING", "ACCEPTING_ERROR"}
  BY DEF Accepting
<1> HIDE DEF m
<1>5. CASE v = Fail(m, "usock: bad action")
  BY <1>0, <1>2, <1>5, FailIs DEF Ready
<1>6. CASE v = UsockMove(m, Listener, "ACCEPTING")
           /\ m.us[Listener].st \in {"LISTENING", "ACCEPTING_ERROR"}
  <2>0. Listener \in {c, Listener} /\ "ACCEPTING" \in UsockStates /\ m \in World
        /\ v = UsockMove(m, Listener, "ACCEPTING")
    BY <1>0, <1>2, <1>6
  <2>1. /\ Touched(m, v, c) /\ v \in World
        /\ v.us[Listener].st = "ACCEPTING" /\ v.us[Listener].asock = m.us[Listener].asock
        /\ \A z \in Socks \ {Listener} : v.us[z] = m.us[z]
    BY <2>0, TouchedMove
  <2>2. v.us[Listener].st = "ACCEPTING"
    BY <2>1
  <2>3. v.us[c] = m.us[c]
    BY <1>0, <2>1
  <2>4. Touched(x, v, c)
    BY <1>2, <2>1, TouchedTrans
  <2> QED BY <1>3, <1>6, <2>1, <2>2, <2>3, <2>4 DEF Ready
<1> QED BY <1>4, <1>5, <1>6

(* usock.c: grid_usock_accept, for a connection that is there, none yet,   *)
(* and no descriptor for it.                                               *)
LEMMA PairedIs ==
  ASSUME NEW x \in World, NEW c \in Conns, NEW v, Ready(x, v, c), NEW p, p = Pair(v, c, Listener)
  PROVE  Ready(x, p, c)
         /\ (p.failed = Nil => p.us[Listener].asock = c /\ p.us[c].asock = Listener)
<1>0. c \in Socks \cup {Nil} /\ Listener \in Socks \cup {Nil} /\ v \in World
      /\ "usock: paired" \in Failures \ {Nil}
  BY Names, Sites DEF Ready
<1>1. p = Fail(v, "usock: paired") \/ p = Pairing(v, c, Listener, c)
  BY DEF Pair, Pairing
<1>2. CASE p = Fail(v, "usock: paired")
  BY <1>0, <1>2, FailIs DEF Ready
<1>3. CASE p = Pairing(v, c, Listener, c)
  <2>2. /\ Touched(v, p, c) /\ p \in World
        /\ p.us[c].asock = Listener /\ p.us[Listener].asock = c
        /\ p.us[c].st = v.us[c].st /\ p.us[Listener].st = v.us[Listener].st
    <3>1. v \in World /\ Listener \in Socks \cup {Nil} /\ c \in Socks \cup {Nil}
          /\ p = Pairing(v, c, Listener, c)
      BY <1>0, <1>3
    <3> QED BY <3>1, TouchedAsocks
  <2>1. Touched(v, p, c) /\ p \in World
    BY <2>2
  <2>3. p.failed = v.failed
    BY <2>1 DEF Touched
  <2>4. ASSUME p.failed = Nil PROVE Touched(x, p, c)
    BY <2>1, <2>3, <2>4, TouchedTrans DEF Ready
  <2> QED BY <2>1, <2>2, <2>3, <2>4 DEF Ready
<1> QED BY <1>1, <1>2, <1>3

LEMMA WaitingIs ==
  ASSUME NEW x \in World, NEW c \in Conns, NEW p, Ready(x, p, c),
         p.failed = Nil => p.us[Listener].asock = c /\ p.us[c].asock = Listener,
         NEW y, y = Execute(p, "accept", Listener), y.failed = Nil
  PROVE  Outcome(x, y, c) /\ x.us[Listener].st \in {"LISTENING", "ACCEPTING_ERROR"}
<1>1. [kind |-> "accept", on |-> Listener] \in Tasks /\ p \in World
  BY Names DEF Tasks, UsockKinds, Ready
<1>2. /\ y \in World /\ p.failed = Nil /\ SameEp(p, y) /\ SameParts(p, y)
      /\ y.events = p.events /\ y.copy = p.copy
  BY <1>1, ExecuteIs
<1>3. y.tasks = Append(p.tasks, [kind |-> "accept", on |-> Listener])
  BY <1>1, ExecuteIs
<1>4. Touched(x, p, c) /\ p.us[Listener].st = "ACCEPTING" /\ p.us[c].st \in Fresh
  BY <1>2 DEF Ready
<1>5. Two(p, y, c)
  BY <1>2 DEF Two, SameParts
<1>6. Distinct(p) => Distinct(y)
  BY <1>2 DEF Distinct
<1>7. Accepts(p, y, c)
  BY <1>2, <1>5, <1>6 DEF Accepts
<1>8. Asked(p, y, c)
  BY <1>2, <1>3, <1>4 DEF Asked, SameParts, AcceptTask
<1> QED BY <1>2, <1>4, <1>7, <1>8, TouchedAccepts DEF Outcome, Ready

LEMMA ShortOfIs ==
  ASSUME NEW x \in World, NEW c \in Conns, x.us[Listener].owner = AtcpOwner(c, "LISTENER"),
         NEW p, Ready(x, p, c),
         NEW y, y = UsockRaise([p EXCEPT !.us[Listener].errnum = TRUE,
                                         !.us[Listener].st = "ACCEPTING_ERROR"],
                               Listener, "ACCEPT_ERROR"),
         y.failed = Nil
  PROVE  Outcome(x, y, c) /\ x.us[Listener].st \in {"LISTENING", "ACCEPTING_ERROR"}
<1> DEFINE a == [p EXCEPT !.us[Listener].errnum = TRUE]
           q == UsockMove(a, Listener, "ACCEPTING_ERROR")
<1>0. c \in Socks /\ Listener \in Socks /\ c # Listener /\ Listener \in {c, Listener} /\ p \in World
      /\ "ACCEPTING_ERROR" \in UsockStates /\ TRUE \in BOOLEAN
  BY Names DEF Ready, UsockStates
<1>1. Touched(p, a, c) /\ a \in World
  BY <1>0, TouchedFlags
<1>2. a.us[c] = p.us[c]
  BY <1>0, Has DEF World
<1>3. y = UsockRaise(q, Listener, "ACCEPT_ERROR")
  <2>1. q = [p EXCEPT !.us[Listener].errnum = TRUE, !.us[Listener].st = "ACCEPTING_ERROR"]
    BY <1>0, Has DEF UsockMove, World
  <2> QED BY <2>1
<1> HIDE DEF a
<1>4. Touched(a, q, c) /\ q \in World
  BY <1>0, <1>1, TouchedMove
<1>5. q.us[Listener].st = "ACCEPTING_ERROR"
  BY <1>0, <1>1, TouchedMove
<1>6. q.us[c] = a.us[c]
  BY <1>0, <1>1, TouchedMove
<1> HIDE DEF q
<1>7. q.failed = Nil
  <2>1. Listener \in Ptrs /\ "ACCEPT_ERROR" \in EventTypes /\ q.us[Listener].owner \in Owners
    <3>1. q.us[Listener].owner \in UsOwners
      BY <1>0, <1>4, UsRec
    <3>2. UsOwners \subseteq Owners
      BY DEF UsOwners, Owners, Sources, ToOne
    <3> QED BY <3>1, <3>2, Names DEF EventTypes
  <2> QED BY <1>3, <1>4, <2>1, RaiseIs DEF UsockRaise
<1>8. p.failed = Nil
  BY <1>1, <1>4, <1>7 DEF Touched
<1>9. Touched(x, p, c) /\ p.us[c].st \in Fresh
      /\ x.us[Listener].st \in {"LISTENING", "ACCEPTING_ERROR"}
  BY <1>8 DEF Ready
<1>10. Touched(x, q, c)
  BY <1>1, <1>4, <1>9, TouchedTrans
<1>11. q.us[Listener].owner = AtcpOwner(c, "LISTENER")
  BY <1>10 DEF Touched, Two
<1>12. Accepts(q, y, c) /\ Missed(q, y, c)
  BY <1>3, <1>4, <1>5, <1>11, ShortIs
<1> QED BY <1>2, <1>6, <1>9, <1>10, <1>12, TouchedAccepts DEF Outcome

(* What failed is told apart.                                              *)
LEMMA NeverFails ==
  ASSUME NEW v \in World, NEW y, y.failed = Nil
  PROVE  y # Fail(v, "usock: accept")
BY Sites, FailIs

LEMMA UsockAcceptIs ==
  ASSUME NEW x \in World, NEW c \in Conns, x.us[c].st \in Fresh,
         x.us[c].owner = AtcpOwner(c, "USOCK"), x.us[Listener].owner = AtcpOwner(c, "LISTENER"),
         NEW y \in UsockAccept(x, c, Listener), y.failed = Nil
  PROVE  Outcome(x, y, c) /\ x.us[Listener].st \in {"LISTENING", "ACCEPTING_ERROR"}
<1> DEFINE v == Accepting(BeingAccepted(x, c), Listener)
           p == Pair(v, c, Listener)
<1>2. Ready(x, v, c)
  BY ReadyIs
<1>1. \/ y = AcceptSucceeds(v, c, Listener)
      \/ y = Execute(p, "accept", Listener)
      \/ y = UsockRaise([p EXCEPT !.us[Listener].errnum = TRUE,
                                  !.us[Listener].st = "ACCEPTING_ERROR"], Listener, "ACCEPT_ERROR")
  <2>1. y # Fail(v, "usock: accept")
    BY <1>2, NeverFails DEF Ready
  <2> QED BY <2>1 DEF UsockAccept
<1> HIDE DEF v
<1>3. Ready(x, p, c)
  BY <1>2, PairedIs
<1>4. p.failed = Nil => p.us[Listener].asock = c /\ p.us[c].asock = Listener
  BY <1>2, PairedIs
<1> HIDE DEF p
<1>5. CASE y = AcceptSucceeds(v, c, Listener)
  <2>1. v \in World
    BY <1>2 DEF Ready
  <2>2. v.failed = Nil
    BY <1>5, <2>1, SucceedsIs DEF Accepts
  <2>3. Touched(x, v, c)
    BY <1>2, <2>2 DEF Ready
  <2>4. v.us[c].owner = AtcpOwner(c, "USOCK")
    BY <2>3 DEF Touched, Two
  <2>5. Accepts(v, y, c) /\ Offered(v, y, c)
    BY <1>5, <2>1, <2>4, SucceedsIs
  <2> QED BY <1>2, <2>2, <2>3, <2>5, TouchedAccepts DEF Outcome, Ready
<1>6. CASE y = Execute(p, "accept", Listener)
  BY <1>3, <1>4, <1>6, WaitingIs
<1>7. CASE y = UsockRaise([p EXCEPT !.us[Listener].errnum = TRUE,
                                  !.us[Listener].st = "ACCEPTING_ERROR"], Listener, "ACCEPT_ERROR")
  BY <1>3, <1>7, ShortOfIs
<1> QED BY <1>1, <1>5, <1>6, <1>7


Mute(x) == \A i \in 1..Len(x.events) : x.events[i].type # "ACCEPT_ERROR"
Asking(x, c) ==
    /\ Core(x) /\ x.role = "bind" /\ x.ep = "ACTIVE" /\ x.cur = c /\ x.atcp[c] = "ACCEPTING"
    /\ x.us[c].st \in Fresh /\ x.us[Listener].owner = AtcpOwner(c, "LISTENER") /\ Mute(x)

(* The outcome in the queues: the phase of the endpoint goes on.           *)
LEMMA OutcomeQueues ==
  ASSUME NEW x \in World, NEW y, NEW c \in Conns, Outcome(x, y, c)
  PROVE  /\ \A i \in 1..Len(x.events) : i \in 1..Len(y.events) /\ y.events[i] = x.events[i]
         /\ \A i \in 1..Len(y.events) :
               \/ i \in 1..Len(x.events) /\ y.events[i] = x.events[i]
               \/ y.events[i] = Offers(c) /\ Offered(x, y, c)
               \/ y.events[i] = Misses(c) /\ Missed(x, y, c)
         /\ \A i \in 1..Len(y.tasks) :
               \/ i \in 1..Len(x.tasks) /\ y.tasks[i] = x.tasks[i]
               \/ y.tasks[i] = AcceptTask
         /\ y.copy = x.copy
         /\ Offered(x, y, c) => \E i \in 1..Len(y.events) : y.events[i] = Offers(c)
         /\ Missed(x, y, c) => \E i \in 1..Len(y.events) : y.events[i] = Misses(c)
         /\ Asked(x, y, c) => Queued(y)
<1>1. Offers(c) \in Events /\ Misses(c) \in Events /\ AcceptTask \in Tasks
  BY Names DEF Offers, Misses, AcceptTask, Events, ToOne, Sources, EventTypes, Tasks, UsockKinds
<1>2. /\ x.events \in Seq(Events) /\ x.tasks \in Seq(Tasks)
      /\ Len(x.events) \in Nat /\ Len(x.tasks) \in Nat
  BY Has, LenProperties
<1>3. \A e \in {Offers(c), Misses(c)} :
         /\ Len(Append(x.events, e)) = Len(x.events) + 1
         /\ Append(x.events, e)[Len(x.events) + 1] = e
         /\ \A i \in 1..Len(x.events) : Append(x.events, e)[i] = x.events[i]
  BY <1>1, <1>2, AppendProperties
<1>4. /\ Len(Append(x.tasks, AcceptTask)) = Len(x.tasks) + 1
      /\ Append(x.tasks, AcceptTask)[Len(x.tasks) + 1] = AcceptTask
      /\ \A i \in 1..Len(x.tasks) : Append(x.tasks, AcceptTask)[i] = x.tasks[i]
  BY <1>1, <1>2, AppendProperties
<1>5. y.copy = x.copy
  BY DEF Outcome, Accepts, Two
<1>6. CASE Offered(x, y, c)
  <2>1. y.events = Append(x.events, Offers(c)) /\ y.tasks = x.tasks
        /\ y.us[Listener].st = "LISTENING"
    BY <1>6 DEF Offered
  <2>2. ~Missed(x, y, c) /\ ~Asked(x, y, c)
    BY <2>1 DEF Missed, Asked
  <2> HIDE DEF Offered, Missed, Asked
  <2> QED BY <1>2, <1>3, <1>5, <1>6, <2>1, <2>2
<1>7. CASE Missed(x, y, c)
  <2>1. y.events = Append(x.events, Misses(c)) /\ y.tasks = x.tasks
        /\ y.us[Listener].st = "ACCEPTING_ERROR"
    BY <1>7 DEF Missed
  <2>2. ~Offered(x, y, c) /\ ~Asked(x, y, c)
    BY <2>1 DEF Offered, Asked
  <2> QED BY <1>2, <1>3, <1>5, <1>7, <2>1, <2>2
<1>8. CASE Asked(x, y, c)
  <2>1. y.events = x.events /\ y.tasks = Append(x.tasks, AcceptTask)
        /\ y.us[Listener].st = "ACCEPTING"
    BY <1>8 DEF Asked
  <2>2. ~Offered(x, y, c) /\ ~Missed(x, y, c)
    BY <2>1 DEF Offered, Missed
  <2>3. Queued(y)
    BY <1>2, <1>4, <2>1 DEF Queued
  <2> QED BY <1>2, <1>4, <1>5, <1>8, <2>1, <2>2, <2>3
<1> QED BY <1>6, <1>7, <1>8 DEF Outcome

LEMMA OutcomeKeeps ==
  ASSUME NEW x, NEW c \in Conns, Asking(x, c), NEW y, Outcome(x, y, c)
  PROVE  Core(y) /\ PhasesOk(y)
<1>0. x \in World /\ y \in World /\ Core(x) /\ c # Listener /\ c \in Socks /\ Listener \in Socks
      /\ Conns \subseteq Socks /\ Listener \notin Conns
  BY Names DEF Asking, Core, Outcome, Accepts
<1>1. /\ SameEp(x, y) /\ y.hdr = x.hdr /\ y.stcp = x.stcp /\ y.pipe = x.pipe /\ y.stat = x.stat
      /\ y.copy = x.copy
      /\ \A d \in Conns : y.us[d].owner = x.us[d].owner
      /\ y.us[Listener].owner = x.us[Listener].owner
      /\ \A d \in Conns \ {c} : y.us[d] = x.us[d]
  BY <1>0 DEF Outcome, Accepts, Two
<1>2. /\ y.us[c].st \in Fresh \cup {"ACCEPTED"}
      /\ y.us[Listener].st \in {"LISTENING", "ACCEPTING", "ACCEPTING_ERROR"}
  BY DEF Outcome, Offered, Missed, Asked, Asking
<1>3. Running(y)
  BY <1>0, <1>1 DEF Core, Running, SameEp
<1>4. EventsOk(y)
  <2>1. Distinct(y)
    BY <1>0 DEF Core, EventsOk, Outcome, Accepts
  <2>2. ASSUME NEW i \in 1..Len(y.events) PROVE Routed(y, y.events[i])
    <3>1. CASE i \in 1..Len(x.events) /\ y.events[i] = x.events[i]
      <4>1. Routed(x, y.events[i]) /\ y.events[i].type # "ACCEPT_ERROR"
        BY <1>0, <3>1 DEF Core, EventsOk, Asking, Mute
      <4> QED BY <1>1, <4>1 DEF Routed, SameEp, End
    <3>2. CASE y.events[i] = Offers(c)
      BY <3>2 DEF Offers, Routed
    <3>3. CASE y.events[i] = Misses(c) /\ Missed(x, y, c)
      BY <3>3 DEF Misses, Routed, Missed
    <3> QED BY <1>0, <3>1, <3>2, <3>3, OutcomeQueues
  <2> QED BY <2>1, <2>2 DEF EventsOk
<1>5. \A d \in Conns : \A src \in {"STCP", "ATCP"} :
          \A type \in {"STOPPED", "ERROR", "ACCEPTED"} :
              Pending(y, src, d, type) => Pending(x, src, d, type)
  <2> SUFFICES ASSUME NEW d \in Conns, NEW src \in {"STCP", "ATCP"},
                      NEW type \in {"STOPPED", "ERROR", "ACCEPTED"}, Pending(y, src, d, type)
               PROVE  Pending(x, src, d, type)
    OBVIOUS
  <2>1. PICK i \in 1..Len(y.events) :
            y.events[i].src = src /\ y.events[i].ptr = d /\ y.events[i].type = type
    BY DEF Pending
  <2>2. y.events[i] # Offers(c) /\ y.events[i] # Misses(c)
    BY <2>1 DEF Offers, Misses
  <2> QED BY <1>0, <2>1, <2>2, OutcomeQueues DEF Pending
<1>6. ASSUME NEW d \in Conns PROVE LinkOk(y, d) /\ AtcpOk(y, d)
  <2>1. LinkOk(x, d) /\ AtcpOk(x, d)
    BY <1>0 DEF Core
  <2>2. LinkOk(y, d)
    BY <1>1, <1>5, <2>1 DEF LinkOk, Attached, Breaking, Restful, PipeOk, End, SameEp
  <2>3. ASSUME d = c PROVE AtcpOk(y, d)
    BY <1>1, <1>2, <1>5, <2>1, <2>3 DEF AtcpOk, SameEp, Asking, Fresh, Listened
  <2>4. ASSUME d # c PROVE AtcpOk(y, d)
    BY <1>1, <1>5, <2>1, <2>4 DEF AtcpOk, SameEp
  <2> QED BY <2>2, <2>3, <2>4
<1>7. CountsOk(y)
  BY <1>0, <1>1 DEF Core, CountsOk, GaugesOk, AliveOf, PipesOf, SameEp
<1>8. ListenerOk(y)
  <2>1. \A i \in 1..Len(y.tasks) : y.tasks[i].on = Listener => y.tasks[i].kind = "accept"
    BY <1>0, OutcomeQueues DEF Core, ListenerOk, AcceptTask
  <2> QED BY <1>0, <1>1, <1>2, <2>1 DEF Core, ListenerOk, Asking, SameEp
<1>9. Core(y)
  BY <1>0, <1>3, <1>4, <1>6, <1>7, <1>8 DEF Core
<1>10. y.role = "bind" /\ y.ep = "ACTIVE" /\ y.cur = c /\ y.atcp[c] = "ACCEPTING"
       /\ y.us[Listener].owner = AtcpOwner(c, "LISTENER")
  BY <1>1 DEF Asking, SameEp
<1>11. CASE Offered(x, y, c)
  <2>1. Arrived(y, c)
    BY <1>0, <1>10, <1>11, OutcomeQueues DEF Offered, Arrived, Offers
  <2> QED BY <1>9, <1>10, <2>1 DEF PhasesOk, Phase
<1>12. CASE Missed(x, y, c)
  <2>1. \E i \in 1..Len(y.events) : y.events[i] = Misses(c)
    BY <1>0, <1>12, OutcomeQueues
  <2>2. Short(y, c)
    BY <1>10, <1>12, <2>1 DEF Missed, Short, Misses, Asking
  <2> QED BY <1>9, <1>10, <2>2 DEF PhasesOk, Phase
<1>13. CASE Asked(x, y, c)
  <2>1. Queued(y)
    BY <1>0, <1>13, OutcomeQueues
  <2>2. Await(y, c)
    BY <1>10, <1>13, <2>1 DEF Asked, Await
  <2> QED BY <1>9, <1>10, <2>2 DEF PhasesOk, Phase
<1> QED BY <1>11, <1>12, <1>13 DEF Outcome

(* An attempt to accept, by the atcp that the endpoint waits for.          *)
LEMMA AskingOwner ==
  ASSUME NEW x, NEW c \in Conns, Core(x), x.role = "bind",
         x.atcp[c] \notin {"ACTIVE", "STOPPING_STCP"}
  PROVE  x.us[c].owner = AtcpOwner(c, "USOCK") /\ x.stcp[c].st = "IDLE" /\ x.hdr[c].st = "IDLE"
         /\ x.pipe[c].st # "ACTIVE"
BY DEF Core, LinkOk, Restful, End, AtcpOwner, Attached, Breaking, PipeOk

LEMMA AcceptSafe ==
  ASSUME NEW x, NEW c \in Conns, Asking(x, c), NEW y \in UsockAccept(x, c, Listener)
  PROVE  Safe(y)
<1> SUFFICES ASSUME y.failed = Nil PROVE Core(y) /\ PhasesOk(y)
  BY DEF Safe
<1>1. x.us[c].owner = AtcpOwner(c, "USOCK")
  BY AskingOwner DEF Asking
<1>2. Outcome(x, y, c)
  BY <1>1, UsockAcceptIs DEF Asking, Core
<1> QED BY <1>2, OutcomeKeeps

LEMMA TouchedRm ==
  ASSUME NEW x \in World, NEW c \in Conns, NEW u \in {c, Listener}, NEW y, y = PollerRm(x, u)
  PROVE  /\ Touched(x, y, c) /\ y \in World
         /\ y.us[u].st = x.us[u].st /\ y.us[u].asock = x.us[u].asock
         /\ \A z \in Socks \ {u} : y.us[z] = x.us[z]
<1>1. \E b \in BOOLEAN : \/ y = [x EXCEPT !.us[u].open = b] \/ y = [x EXCEPT !.us[u].errnum = b]
                \/ y = PollerRm(x, u) \/ y = PollerAdd(x, u) \/ y = PollerIn(x, u, b)
  OBVIOUS
<1> QED BY <1>1, TouchedFlags

(* A connection arrives at the listener, or cannot be taken.               *)
LEMMA AcceptInSafe ==
  ASSUME NEW x, NEW c \in Conns, Asking(x, c), x.us[Listener].asock = c, PhasesOk(x),
         NEW y \in AcceptIn(x, Listener)
  PROVE  Safe(y)
<1> SUFFICES ASSUME y.failed = Nil PROVE Core(y) /\ PhasesOk(y)
  BY DEF Safe
<1> DEFINE a == PollerRm(x, Listener)
           b == [a EXCEPT !.us[Listener].errnum = TRUE]
           q == UsockMove(b, Listener, "ACCEPTING_ERROR")
           m == AcceptSucceeds(x, c, Listener)
<1>0. x \in World /\ c # Listener /\ c \in Socks /\ Listener \in Socks /\ Listener \in {c, Listener}
      /\ TRUE \in BOOLEAN /\ "ACCEPTING_ERROR" \in UsockStates
  BY Names DEF Asking, Core, UsockStates
<1>1. x.us[c].owner = AtcpOwner(c, "USOCK")
  BY AskingOwner DEF Asking
<1>2. \/ y = x \/ y = PollerRm(m, Listener)
      \/ y = UsockRaise([a EXCEPT !.us[Listener].errnum = TRUE,
                                  !.us[Listener].st = "ACCEPTING_ERROR"], Listener, "ACCEPT_ERROR")
  <2>1. y # Fail(x, "usock: accept")
    BY <1>0, NeverFails
  <2> QED BY <2>1 DEF AcceptIn
<1>3. CASE y = x
  BY <1>3 DEF Asking
<1>4. CASE y = PollerRm(m, Listener)
  <2> HIDE DEF m
  <2>1. y.failed = m.failed
    BY <1>4 DEF PollerRm
  <2>2. Accepts(x, m, c) /\ Offered(x, m, c)
    BY <1>0, <1>1, <2>1, SucceedsIs DEF m
  <2>3. m \in World
    BY <2>2 DEF Accepts
  <2>4. /\ Touched(m, y, c) /\ y \in World
        /\ y.us[Listener].st = m.us[Listener].st /\ y.us[Listener].asock = m.us[Listener].asock
        /\ \A z \in Socks \ {Listener} : y.us[z] = m.us[z]
    BY <1>0, <1>4, <2>3, TouchedRm
  <2>5. Two(x, y, c)
    BY <2>2, <2>4 DEF Accepts, Touched, Two, SameEp
  <2>6. Accepts(x, y, c)
    BY <2>2, <2>4, <2>5 DEF Accepts, Touched, Distinct
  <2>7. Offered(x, y, c)
    BY <1>0, <2>2, <2>4 DEF Offered, Touched
  <2> QED BY <2>6, <2>7, OutcomeKeeps DEF Outcome
<1>5. CASE y = UsockRaise([a EXCEPT !.us[Listener].errnum = TRUE,
                                    !.us[Listener].st = "ACCEPTING_ERROR"],
                          Listener, "ACCEPT_ERROR")
  <2>1. Touched(x, a, c) /\ a \in World
    BY <1>0, TouchedFlags
  <2>2. \A z \in Socks \ {Listener} : a.us[z] = x.us[z]
    BY <1>0, Has DEF PollerRm, World
  <2> HIDE DEF a
  <2>3. Touched(a, b, c) /\ b \in World
    BY <1>0, <2>1, TouchedFlags
  <2>4. \A z \in Socks \ {Listener} : b.us[z] = a.us[z]
    BY <1>0, <2>1, Has DEF World
  <2>5. y = UsockRaise(q, Listener, "ACCEPT_ERROR")
    <3>1. q = [a EXCEPT !.us[Listener].errnum = TRUE, !.us[Listener].st = "ACCEPTING_ERROR"]
      BY <1>0, <2>1, Has DEF UsockMove, World
    <3> QED BY <1>5, <3>1
  <2> HIDE DEF b
  <2>6. /\ Touched(b, q, c) /\ q \in World
        /\ q.us[Listener].st = "ACCEPTING_ERROR" /\ q.us[Listener].asock = b.us[Listener].asock
        /\ \A z \in Socks \ {Listener} : q.us[z] = b.us[z]
    BY <1>0, <2>3, TouchedMove
  <2> HIDE DEF q
  <2>7. Touched(x, q, c)
    BY <2>1, <2>3, <2>6, TouchedTrans
  <2>8. q.us[Listener].owner = AtcpOwner(c, "LISTENER") /\ q.us[c].st \in Fresh
    BY <1>0, <2>2, <2>4, <2>6, <2>7 DEF Touched, Two, Asking
  <2>9. Accepts(q, y, c) /\ Missed(q, y, c)
    BY <2>5, <2>6, <2>8, ShortIs
  <2> QED BY <1>0, <2>7, <2>8, <2>9, TouchedAccepts, OutcomeKeeps DEF Outcome
<1> QED BY <1>2, <1>3, <1>4, <1>5


(***************************************************************************)
(* The bound endpoint: the fields it writes itself.                        *)
(***************************************************************************)
(* Everything but the states of the endpoint and of its atcps.             *)
Rest(x, y) ==
    /\ y \in World /\ y.failed = x.failed
    /\ y.role = x.role /\ y.net = x.net /\ y.fsm = x.fsm /\ y.error = x.error
    /\ y.hdr = x.hdr /\ y.stcp = x.stcp /\ y.pipe = x.pipe /\ y.stat = x.stat
    /\ y.events = x.events /\ y.tasks = x.tasks /\ y.copy = x.copy
LEMMA RestTrans ==
  ASSUME NEW x, NEW y, NEW z, Rest(x, y), Rest(y, z)
  PROVE  Rest(x, z)
BY DEF Rest
(* btcp.c, atcp.c: the state of an atcp, the current one, the list, the    *)
(* owner of a usock.                                                       *)
LEMMA AtcpMoveIs ==
  ASSUME NEW x \in World, NEW c \in Conns, NEW s \in AtcpStates, NEW y, y = AtcpMove(x, c, s)
  PROVE  /\ Rest(x, y) /\ y.us = x.us /\ y.ep = x.ep /\ y.cur = x.cur /\ y.list = x.list
         /\ y.atcp[c] = s /\ \A d \in Conns \ {c} : y.atcp[d] = x.atcp[d]
<1>1. [x.atcp EXCEPT ![c] = s] \in [Conns -> AtcpStates] /\ x.atcp \in [Conns -> AtcpStates]
  BY Has
<1>2. y = [x EXCEPT !.atcp = [x.atcp EXCEPT ![c] = s]]
  BY DEF AtcpMove
<1>3a. [x EXCEPT !.atcp = [x.atcp EXCEPT ![c] = s]] \in World
  BY <1>1, Put
<1>3. y \in World
  BY <1>2, <1>3a
<1>4. y.atcp = [x.atcp EXCEPT ![c] = s]
  BY <1>1, <1>2 DEF World
<1>5. Rest(x, y) /\ y.us = x.us /\ y.ep = x.ep /\ y.cur = x.cur /\ y.list = x.list
  BY <1>2, <1>3 DEF World, Rest
<1> QED BY <1>1, <1>4, <1>5
LEMMA CurIs ==
  ASSUME NEW x \in World, NEW c \in Conns \cup {Nil}, NEW y, y = [x EXCEPT !.cur = c]
  PROVE  Rest(x, y) /\ y.us = x.us /\ y.ep = x.ep /\ y.atcp = x.atcp /\ y.cur = c
         /\ y.list = x.list
<1>1. [x EXCEPT !.cur = c] \in World
  BY Put
<1>2. y \in World
  BY <1>1
<1> QED BY <1>2 DEF World, Rest
LEMMA ListIs ==
  ASSUME NEW x \in World, NEW L \in SUBSET Conns, NEW y, y = [x EXCEPT !.list = L]
  PROVE  Rest(x, y) /\ y.us = x.us /\ y.ep = x.ep /\ y.atcp = x.atcp /\ y.cur = x.cur
         /\ y.list = L
<1>1. [x EXCEPT !.list = L] \in World
  BY Put
<1>2. y \in World
  BY <1>1
<1> QED BY <1>2 DEF World, Rest
LEMMA OwnerIs ==
  ASSUME NEW x \in World, NEW u \in Socks, NEW o \in UsOwners, NEW y, y = SwapOwner(x, u, o)
  PROVE  /\ Rest(x, y) /\ y.ep = x.ep /\ y.cur = x.cur /\ y.list = x.list /\ y.atcp = x.atcp
         /\ y.us[u].owner = o /\ y.us[u].st = x.us[u].st /\ y.us[u].asock = x.us[u].asock
         /\ y.us[u].reg = x.us[u].reg /\ y.us[u].in = x.us[u].in
         /\ \A z \in Socks \ {u} : y.us[z] = x.us[z]
<1> DEFINE r == [x.us[u] EXCEPT !.owner = o]
<1>1. x.us[u] \in UsockRecs
  BY UsRec
<1>2. r \in UsockRecs /\ r.owner = o /\ r.st = x.us[u].st /\ r.asock = x.us[u].asock
      /\ r.reg = x.us[u].reg /\ r.in = x.us[u].in
  BY <1>1 DEF UsockRecs
<1>3. y = [x EXCEPT !.us = [x.us EXCEPT ![u] = r]]
  BY DEF SwapOwner
<1> HIDE DEF r
<1>4. y \in World /\ SameEp(x, y)
  BY <1>2, <1>3, UsPut
<1>5. y.us[u] = r
  BY <1>2, <1>3, UsPut DEF World
<1>6. \A z \in Socks \ {u} : y.us[z] = x.us[z]
  BY <1>2, <1>3, UsPut
<1>7. Rest(x, y)
  BY <1>3, <1>4 DEF World, Rest
<1> QED BY <1>2, <1>4, <1>5, <1>6, <1>7 DEF SameEp

LEMMA InBoundIs ==
  ASSUME NEW S, NEW y \in InBound(S)
  PROVE  y \in S
BY DEF InBound

LEMMA NoneIs ==    \* an atcp that is not in use
  ASSUME NEW x, Core(x), x.role = "bind", NEW c \in Conns, x.atcp[c] = "FREE"
  PROVE  /\ x.us[c].st = "IDLE"
         /\ ~Pending(x, "ATCP", c, "ERROR") /\ ~Pending(x, "ATCP", c, "STOPPED")
         /\ ~Pending(x, "ATCP", c, "ACCEPTED")
BY DEF Core, AtcpOk

(* A free atcp becomes the one that waits for the next connection.         *)
LEMMA StartedIs ==
  ASSUME NEW x, Core(x), x.role = "bind", x.ep = "ACTIVE", x.cur = Nil, Mute(x),
         NEW c \in Conns, x.atcp[c] = "FREE",
         NEW y, y = AtcpMove(Listens([x EXCEPT !.cur = c], c), c, "ACCEPTING")
  PROVE  Asking(y, c)
<1> DEFINE a == [x EXCEPT !.cur = c]
           b == Listens(a, c)
<1>0. /\ x \in World /\ c \in Conns \cup {Nil} /\ Listener \in Socks /\ "ACCEPTING" \in AtcpStates
      /\ AtcpOwner(c, "LISTENER") \in UsOwners /\ Listener \notin Conns /\ Nil \notin Conns
      /\ Conns \subseteq Socks /\ x.list \in SUBSET Conns
  BY Names, Has DEF Core, AtcpStates, AtcpOwner, UsOwners, ToOne
<1>1. Rest(x, a) /\ a.us = x.us /\ a.ep = x.ep /\ a.atcp = x.atcp /\ a.cur = c
      /\ a.list = x.list
  BY <1>0, CurIs
<1>2. b = SwapOwner(a, Listener, AtcpOwner(c, "LISTENER")) /\ y = AtcpMove(b, c, "ACCEPTING")
  BY DEF Listens
<1> HIDE DEF a, b
<1>3. a \in World
  BY <1>1 DEF Rest
<1>4. /\ Rest(a, b) /\ b.ep = a.ep /\ b.cur = a.cur /\ b.list = a.list /\ b.atcp = a.atcp
      /\ b.us[Listener].owner = AtcpOwner(c, "LISTENER") /\ b.us[Listener].st = a.us[Listener].st
      /\ b.us[Listener].asock = a.us[Listener].asock
      /\ b.us[Listener].reg = a.us[Listener].reg /\ b.us[Listener].in = a.us[Listener].in
      /\ \A z \in Socks \ {Listener} : b.us[z] = a.us[z]
  BY <1>0, <1>2, <1>3, OwnerIs
<1>5. b \in World
  BY <1>4 DEF Rest
<1>6. /\ Rest(b, y) /\ y.us = b.us /\ y.ep = b.ep /\ y.cur = b.cur /\ y.list = b.list
      /\ y.atcp[c] = "ACCEPTING" /\ \A d \in Conns \ {c} : y.atcp[d] = b.atcp[d]
  BY <1>0, <1>2, <1>5, AtcpMoveIs
<1>7. Rest(x, y)
  BY <1>1, <1>4, <1>6, RestTrans
<1>8. /\ y.ep = x.ep /\ y.cur = c /\ \A d \in Conns \ {c} : y.atcp[d] = x.atcp[d]
      /\ \A d \in Conns : y.us[d] = x.us[d]
      /\ y.us[Listener].owner = AtcpOwner(c, "LISTENER") /\ y.us[Listener].st = x.us[Listener].st
  BY <1>0, <1>1, <1>4, <1>6
<1>9. \A src, d, type : Pending(y, src, d, type) = Pending(x, src, d, type)
  BY <1>7 DEF Rest, Pending
<1>10. ASSUME NEW d \in Conns PROVE LinkOk(y, d) /\ AtcpOk(y, d)
  <2>1. LinkOk(x, d) /\ AtcpOk(x, d)
    BY DEF Core
  <2>2. Attached(y, d) = Attached(x, d) /\ Breaking(y, d) = Breaking(x, d)
    BY <1>6, <1>7, <1>8 DEF Attached, Breaking, Rest
  <2>3. LinkOk(y, d)
    BY <1>7, <1>8, <1>9, <2>1, <2>2 DEF LinkOk, Restful, PipeOk, End, Rest
  <2>4. ASSUME d = c PROVE AtcpOk(y, d)
    BY <1>6, <1>7, <1>8, <1>9, <2>1, <2>4, NoneIs DEF AtcpOk, Rest, Listened
  <2>5. ASSUME d # c PROVE AtcpOk(y, d)
    BY <1>0, <1>7, <1>8, <1>9, <2>1, <2>5 DEF AtcpOk, Rest
  <2> QED BY <2>3, <2>4, <2>5
<1>11. EventsOk(y)
  BY <1>7, <1>8 DEF Core, EventsOk, Distinct, Routed, Rest, End
<1>12. CountsOk(y)
  <2>1. AliveOf(y) = AliveOf(x) /\ PipesOf(y) = PipesOf(x)
    <3>1. {d \in Conns : y.atcp[d] = "ACTIVE"} = {d \in Conns : x.atcp[d] = "ACTIVE"}
      BY <1>6, <1>8
    <3> QED BY <1>7, <1>8, <3>1, ZenonT(60) DEF AliveOf, PipesOf, Rest
  <2> QED BY <1>7, <1>8, <2>1 DEF Core, CountsOk, GaugesOk, Rest
<1>13. ListenerOk(y) /\ Running(y)
  BY <1>7, <1>8 DEF Core, ListenerOk, Running, Rest
<1>14. Core(y)
  BY <1>7, <1>10, <1>11, <1>12, <1>13 DEF Core, Rest
<1>15. y.us[c].st \in Fresh
  BY <1>8, NoneIs DEF Fresh
<1>16. Mute(y)
  BY <1>7 DEF Mute, Rest
<1> QED BY <1>6, <1>7, <1>8, <1>14, <1>15, <1>16 DEF Asking, Rest

LEMMA StartAcceptingSafe ==
  ASSUME NEW x, Core(x), x.role = "bind", x.ep = "ACTIVE", Mute(x),
         NEW y \in BtcpStartAccepting(x)
  PROVE  Safe(y)
<1>0. x \in World
  BY DEF Core
<1>1. CASE x.cur # Nil
  <2>1. y = Fail(x, "btcp: accepting")
    BY <1>1 DEF BtcpStartAccepting, Bad
  <2> QED BY <1>0, <2>1, FailSafe, Sites
<1>2. CASE x.cur = Nil
  <2>1. PICK c \in Free(x) : y \in AcceptorStart([x EXCEPT !.cur = c], c)
    BY <1>2 DEF BtcpStartAccepting
  <2>2. c \in Conns /\ x.atcp[c] = "FREE"
    BY DEF Free
  <2> DEFINE a == [x EXCEPT !.cur = c]
             z == AtcpMove(Listens(a, c), c, "ACCEPTING")
  <2>3. Asking(z, c)
    BY <1>2, <2>2, StartedIs
  <2>4. y \in InBound(UsockAccept(z, c, Listener))
    BY <2>1 DEF AcceptorStart, AtcpStart, AipcStart, AipcAccepting, AtcpAccepting
  <2> HIDE DEF z
  <2> QED BY <2>2, <2>3, <2>4, InBoundIs, AcceptSafe
<1> QED BY <1>1, <1>2


(***************************************************************************)
(* An accepted connection goes from one state to another.                  *)
(***************************************************************************)
Shifted(x, y, c, s) ==
    /\ Rest(x, y) /\ y.us = x.us /\ y.ep = x.ep /\ y.cur = x.cur /\ y.list = x.list
    /\ y.atcp[c] = s /\ \A d \in Conns \ {c} : y.atcp[d] = x.atcp[d]
Due(x, c, s) ==    \* what is queued of c suits its state s
    /\ Pending(x, "ATCP", c, "ERROR") => s = "DONE"
    /\ Pending(x, "ATCP", c, "STOPPED") => s = "IDLE"
    /\ x.us[c].st # "BEING_ACCEPTED" /\ s \notin {"FREE", "ACCEPTING"}

LEMMA DueIs ==
  ASSUME NEW x, NEW c \in Conns, AtcpOk(x, c), NEW s, s \notin {"FREE", "ACCEPTING"},
         x.atcp[c] \notin {"ACCEPTING", "DONE", "IDLE"}
  PROVE  Due(x, c, s)
BY DEF AtcpOk, Due

LEMMA ShiftedIs ==
  ASSUME NEW x \in World, NEW c \in Conns, NEW s \in AtcpStates, NEW y, y = AtcpMove(x, c, s)
  PROVE  Shifted(x, y, c, s) /\ y \in World /\ y.failed = x.failed /\ y.role = x.role
<1>1. /\ Rest(x, y) /\ y.us = x.us /\ y.ep = x.ep /\ y.cur = x.cur /\ y.list = x.list
         /\ y.atcp[c] = s /\ \A d \in Conns \ {c} : y.atcp[d] = x.atcp[d]
  BY AtcpMoveIs
<1> QED BY <1>1 DEF Shifted, Rest

(* What a move of an atcp to a state that suits its events keeps.          *)
LEMMA ShiftPending ==
  ASSUME NEW x, NEW y, NEW c, NEW s, Shifted(x, y, c, s)
  PROVE  \A src, d, type : Pending(y, src, d, type) = Pending(x, src, d, type)
BY DEF Shifted, Rest, Pending

LEMMA ShiftFrame ==
  ASSUME NEW x, Frame(x), x.role = "bind", NEW c \in Conns, NEW s, Due(x, c, s),
         NEW y, Shifted(x, y, c, s)
  PROVE  Frame(y)
<1>1. EventsOk(y)
  BY DEF Frame, EventsOk, Distinct, Routed, Shifted, Rest, End
<1>2. ListenerOk(y) /\ Running(y) /\ y \in World
  BY DEF Frame, ListenerOk, Running, Shifted, Rest
<1>3. ASSUME NEW d \in Conns PROVE AtcpOk(y, d)
  <2>1. AtcpOk(x, d)
    BY DEF Frame
  <2>2. CASE d = c
    BY <2>1, <2>2, ShiftPending DEF AtcpOk, Shifted, Rest, Due
  <2>3. CASE d # c
    BY <2>1, <2>3, ShiftPending DEF AtcpOk, Shifted, Rest
  <2> QED BY <2>2, <2>3
<1> QED BY <1>1, <1>2, <1>3 DEF Frame

LEMMA ShiftLink ==
  ASSUME NEW x, NEW y, NEW c \in Conns, NEW s, Shifted(x, y, c, s), x.role = "bind",
         NEW d \in Conns, LinkOk(x, d), d = c => Kept(x, y, c)
  PROVE  LinkOk(y, d)
<1>1. \A src, type : Pending(y, src, d, type) = Pending(x, src, d, type)
  BY ShiftPending
<1>2. CASE d = c
  BY <1>1, <1>2 DEF LinkOk, Kept, Restful, PipeOk, End, Shifted, Rest
<1>3. CASE d # c
  BY <1>1, <1>3 DEF LinkOk, Attached, Breaking, Restful, PipeOk, End, Shifted, Rest
<1> QED BY <1>2, <1>3

On(b) == IF b THEN 1 ELSE 0
LEMMA ShiftAlive ==
  ASSUME NEW x \in World, NEW y, NEW c \in Conns, NEW s, Shifted(x, y, c, s), x.role = "bind"
  PROVE  /\ AliveOf(y) = AliveOf(x) - On(x.atcp[c] = "ACTIVE") + On(s = "ACTIVE")
         /\ AliveOf(x) \in Int /\ PipesOf(y) = PipesOf(x)
<1> DEFINE S == {d \in Conns : x.atcp[d] = "ACTIVE"}
           T == {d \in Conns : y.atcp[d] = "ACTIVE"}
<1>1. S \in SUBSET Conns /\ T \in SUBSET Conns /\ S \ {c} = T \ {c}
  BY DEF Shifted
<1>2. AliveOf(x) = Cardinality(S) /\ AliveOf(y) = Cardinality(T)
  BY DEF AliveOf, Shifted, Rest
<1>3. (c \in S <=> x.atcp[c] = "ACTIVE") /\ (c \in T <=> s = "ACTIVE")
  BY DEF Shifted
<1>4. PipesOf(y) = PipesOf(x)
  BY DEF PipesOf, Shifted, Rest
<1> HIDE DEF S, T
<1>5. /\ Cardinality(S) \in Nat /\ Cardinality(T) \in Nat
      /\ Cardinality(S) - (IF c \in S THEN 1 ELSE 0)
             = Cardinality(T) - (IF c \in T THEN 1 ELSE 0)
  BY <1>1, CountOne
<1> QED BY <1>2, <1>3, <1>4, <1>5 DEF On

LEMMA ShiftPhases ==
  ASSUME NEW x, NEW y, NEW c \in Conns, NEW s, Shifted(x, y, c, s), x.atcp[c] # "ACCEPTING",
         PhasesOk(x)
  PROVE  PhasesOk(y)
<1>1. y.role = x.role /\ y.ep = x.ep /\ y.cur = x.cur /\ y.us = x.us
      /\ y.events = x.events /\ y.tasks = x.tasks /\ y.copy = x.copy
  BY DEF Shifted, Rest
<1>2. ASSUME NEW d \in Conns, Phase(x, d) PROVE Phase(y, d)
  <2>1. x.atcp[d] = "ACCEPTING" => y.atcp[d] = "ACCEPTING"
    BY DEF Shifted
  <2>2. Await(x, d) => Await(y, d)
    BY <1>1, <2>1 DEF Await, Queued
  <2>3. Arrived(x, d) => Arrived(y, d)
    BY <1>1, <2>1 DEF Arrived
  <2>4. Short(x, d) => Short(y, d)
    BY <1>1, <2>1 DEF Short
  <2>5. Reported(x, d) => Reported(y, d)
    BY <1>1 DEF Reported, Pending
  <2> QED BY <1>2, <2>2, <2>3, <2>4, <2>5 DEF Phase
<1> QED BY <1>1, <1>2 DEF PhasesOk

LEMMA ShiftKeeps ==
  ASSUME NEW x, Core(x), x.role = "bind", NEW c \in Conns, NEW s \in AtcpStates,
         NEW y, y = AtcpMove(x, c, s),
         x.atcp[c] \notin {"ACTIVE", "ACCEPTING"}, s # "ACTIVE", Due(x, c, s), Kept(x, y, c)
  PROVE  Core(y) /\ (PhasesOk(x) => PhasesOk(y)) /\ y.atcp[c] = s
<1>1. x \in World /\ Frame(x) /\ Links(x, Conns) /\ CountsOk(x)
  BY CoreIs DEF Frame
<1>2. Shifted(x, y, c, s)
  BY <1>1, ShiftedIs
<1>3. Frame(y)
  BY <1>1, <1>2, ShiftFrame
<1>4. Links(y, Conns)
  BY <1>1, <1>2, ShiftLink DEF Links
<1>5. AliveOf(y) = AliveOf(x) /\ PipesOf(y) = PipesOf(x)
  BY <1>1, <1>2, ShiftAlive DEF On
<1>6. CountsOk(y)
  BY <1>1, <1>2, <1>5 DEF CountsOk, GaugesOk, Shifted, Rest
<1>7. PhasesOk(x) => PhasesOk(y)
  BY <1>2, ShiftPhases
<1> QED BY <1>2, <1>3, <1>4, <1>6, <1>7, CoreIs DEF Shifted

LEMMA KeptShift ==    \* a session that is over
  ASSUME NEW x, NEW y, NEW c \in Conns, LinkOk(x, c), x.role = "bind",
         x.atcp[c] \notin {"ACTIVE", "STOPPING_STCP"}
  PROVE  Kept(x, y, c)
BY KeptIs DEF Attached, Breaking

(* It tells the endpoint. *)
LEMMA AtcpRaiseKeeps ==
  ASSUME NEW x, Core(x), x.role = "bind", NEW c \in Conns, NEW type \in SessTypes,
         type = "ERROR" => x.atcp[c] = "DONE",
         type = "STOPPED" => x.atcp[c] = "IDLE",
         type = "ACCEPTED" => c = x.cur /\ x.atcp[c] \notin {"FREE", "ACCEPTING"},
         NEW y, y = Raise(x, EpOwner("ATCP"), c, type), y.failed = Nil
  PROVE  /\ Core(y) /\ (PhasesOk(x) => PhasesOk(y)) /\ x.failed = Nil
         /\ SameEp(x, y) /\ SameParts(x, y) /\ Pending(y, "ATCP", c, type)
<1>0. x \in World /\ EpOwner("ATCP") \in Owners /\ c \in Ptrs /\ type \in EventTypes
  BY EpOwners, Names DEF Core, Sources, SessTypes
<1>1. /\ y \in World /\ x.failed = Nil /\ SameEp(x, y) /\ SameParts(x, y)
      /\ y.tasks = x.tasks /\ y.copy = x.copy /\ (Distinct(x) => Distinct(y))
  BY <1>0, RaiseIs
<1> DEFINE e == Item(EpOwner("ATCP"), c, type)
<1>2. y.events = Append(x.events, e) /\ e \in Events
  BY <1>0, RaiseIs
<1>3. e.to = "ep" /\ e.src = "ATCP" /\ e.ptr = c /\ e.type = type
  BY DEF Item, EpOwner
<1> HIDE DEF e
<1>4. /\ Len(x.events) \in Nat /\ Len(y.events) = Len(x.events) + 1
      /\ y.events[Len(x.events) + 1] = e
      /\ \A i \in 1..Len(x.events) : y.events[i] = x.events[i]
  <2>1. x.events \in Seq(Events) /\ Len(x.events) \in Nat
    BY <1>0, Has, LenProperties
  <2> QED BY <1>2, <2>1, AppendProperties
<1>5. \A i \in 1..Len(y.events) : i \in 1..Len(x.events) \/ i = Len(x.events) + 1
  BY <1>4
<1>6. \A i \in 1..Len(x.events) : i \in 1..Len(y.events)
  BY <1>4
<1>7. Pending(y, "ATCP", c, type)
  <2>1. Len(x.events) + 1 \in 1..Len(y.events)
    BY <1>4
  <2> QED BY <1>3, <1>4, <2>1 DEF Pending
<1>8. \A src, d, t : Pending(y, src, d, t) =>
          Pending(x, src, d, t) \/ (src = "ATCP" /\ d = c /\ t = type)
  <2> SUFFICES ASSUME NEW src, NEW d, NEW t, Pending(y, src, d, t)
               PROVE  Pending(x, src, d, t) \/ (src = "ATCP" /\ d = c /\ t = type)
    OBVIOUS
  <2>1. PICK i \in 1..Len(y.events) :
            y.events[i].src = src /\ y.events[i].ptr = d /\ y.events[i].type = t
    BY DEF Pending
  <2>2. CASE i \in 1..Len(x.events)
    BY <1>4, <2>1, <2>2 DEF Pending
  <2>3. CASE i = Len(x.events) + 1
    BY <1>3, <1>4, <2>1, <2>3
  <2> QED BY <1>5, <2>2, <2>3
<1>9. EventsOk(y)
  <2>1. ASSUME NEW i \in 1..Len(y.events) PROVE Routed(y, y.events[i])
    <3>1. CASE i \in 1..Len(x.events)
      <4>1. Routed(x, y.events[i])
        BY <1>4, <3>1 DEF Core, EventsOk
      <4> QED BY <1>1, <4>1 DEF Routed, SameEp, SameParts, End
    <3>2. CASE i = Len(x.events) + 1
      BY <1>3, <1>4, <3>2 DEF Routed, SessTypes
    <3> QED BY <1>5, <3>1, <3>2
  <2> QED BY <1>1, <2>1 DEF Core, EventsOk
<1>10. ASSUME NEW d \in Conns PROVE LinkOk(y, d) /\ AtcpOk(y, d)
  <2>1. LinkOk(x, d) /\ AtcpOk(x, d)
    BY DEF Core
  <2>2. Pending(y, "STCP", d, "STOPPED") => Pending(x, "STCP", d, "STOPPED")
    BY <1>8
  <2>3. LinkOk(y, d)
    BY <1>1, <2>1, <2>2 DEF LinkOk, Attached, Breaking, Restful, PipeOk, End, SameEp, SameParts
  <2>4. \A t : Pending(y, "ATCP", d, t) => Pending(x, "ATCP", d, t) \/ (d = c /\ t = type)
    BY <1>8
  <2>5. AtcpOk(y, d)
    BY <1>1, <2>1, <2>4 DEF AtcpOk, SameEp, SameParts
  <2> QED BY <2>3, <2>5
<1>11. CountsOk(y)
  BY <1>1, ZenonT(60) DEF Core, CountsOk, GaugesOk, AliveOf, PipesOf, SameEp, SameParts
<1>12. ListenerOk(y) /\ Running(y)
  BY <1>1 DEF Core, ListenerOk, Running, SameEp, SameParts
<1>13. Core(y)
  BY <1>1, <1>9, <1>10, <1>11, <1>12 DEF Core
<1>14. PhasesOk(x) => PhasesOk(y)
  <2>1. y.role = x.role /\ y.ep = x.ep /\ y.cur = x.cur /\ y.us = x.us /\ y.atcp = x.atcp
        /\ y.tasks = x.tasks /\ y.copy = x.copy
    BY <1>1 DEF SameEp, SameParts
  <2>2. ASSUME NEW d \in Conns, Phase(x, d) PROVE Phase(y, d)
    <3>1. Await(x, d) => Await(y, d)
      BY <2>1 DEF Await, Queued
    <3>2. Arrived(x, d) => Arrived(y, d)
      BY <1>4, <1>6, <2>1 DEF Arrived
    <3>3. Short(x, d) => Short(y, d)
      BY <1>4, <1>6, <2>1 DEF Short
    <3>4. Reported(x, d) => Reported(y, d)
      BY <1>4, <1>6, <2>1 DEF Reported, Pending
    <3> QED BY <2>2, <3>1, <3>2, <3>3, <3>4 DEF Phase
  <2> QED BY <2>1, <2>2 DEF PhasesOk
<1> QED BY <1>1, <1>7, <1>13, <1>14


(***************************************************************************)
(* An accepted connection is stopped, and gone.                            *)
(***************************************************************************)
LEMMA ReturnedCore ==
  ASSUME NEW x, Core(x), x.role = "bind", NEW y, y = ReturnListener(x)
  PROVE  /\ Core(y) /\ Rest(x, y) /\ y.ep = x.ep /\ y.cur = x.cur /\ y.atcp = x.atcp
         /\ y.us[Listener].st = x.us[Listener].st
         /\ \A d \in Conns : y.us[d] = x.us[d]
<1>0. x \in World /\ Listener \in Socks /\ EpOwner("USOCK") \in UsOwners /\ Conns \subseteq Socks
      /\ Listener \notin Conns
  BY Names DEF Core, EpOwner, UsOwners
<1>1. /\ Rest(x, y) /\ y.ep = x.ep /\ y.cur = x.cur /\ y.list = x.list /\ y.atcp = x.atcp
         /\ y.us[Listener].owner = EpOwner("USOCK") /\ y.us[Listener].st = x.us[Listener].st
         /\ y.us[Listener].asock = x.us[Listener].asock
         /\ y.us[Listener].reg = x.us[Listener].reg /\ y.us[Listener].in = x.us[Listener].in
         /\ \A z \in Socks \ {Listener} : y.us[z] = x.us[z]
  BY <1>0, OwnerIs DEF ReturnListener
<1>2. \A d \in Conns : y.us[d] = x.us[d]
  BY <1>0, <1>1
<1>3. EventsOk(y)
  BY <1>1 DEF Core, EventsOk, Distinct, Routed, Rest, End
<1>4. ASSUME NEW d \in Conns PROVE LinkOk(y, d) /\ AtcpOk(y, d)
  <2>1. LinkOk(x, d) /\ AtcpOk(x, d)
    BY DEF Core
  <2>2. \A src, type : Pending(y, src, d, type) = Pending(x, src, d, type)
    BY <1>1 DEF Rest, Pending
  <2>3. LinkOk(y, d)
    BY <1>1, <1>2, <2>1, <2>2 DEF LinkOk, Attached, Breaking, Restful, PipeOk, End, Rest
  <2>4. AtcpOk(y, d)
    BY <1>1, <1>2, <2>1, <2>2 DEF AtcpOk, Rest
  <2> QED BY <2>3, <2>4
<1>5. CountsOk(y) /\ ListenerOk(y) /\ Running(y)
  BY <1>1 DEF Core, CountsOk, GaugesOk, AliveOf, PipesOf, ListenerOk, Running, Rest
<1>6. Core(y)
  BY <1>1, <1>3, <1>4, <1>5 DEF Core, Rest
<1> QED BY <1>1, <1>2, <1>6

(* atcp.c: IDLE, the endpoint is told that it stopped.                     *)
LEMMA ReturnedKeeps ==
  ASSUME NEW x, Core(x), x.role = "bind", NEW c \in Conns, x.atcp[c] # "ACCEPTING",
         HasListener(x, c), NEW y, y = ReturnListener(x)
  PROVE  /\ Core(y) /\ (PhasesOk(x) => PhasesOk(y))
         /\ Rest(x, y) /\ y.ep = x.ep /\ y.cur = x.cur /\ y.atcp = x.atcp
         /\ \A d \in Conns : y.us[d] = x.us[d]
<1>1. /\ Core(y) /\ Rest(x, y) /\ y.ep = x.ep /\ y.cur = x.cur /\ y.atcp = x.atcp
      /\ y.us[Listener].st = x.us[Listener].st
      /\ \A d \in Conns : y.us[d] = x.us[d]
  BY ReturnedCore
<1>7. ASSUME NEW d \in Conns, Phase(x, d) PROVE Phase(y, d)
  <2>1. ~Await(x, d) /\ ~Short(x, d)
    BY DEF Await, Short, HasListener, AtcpOwner
  <2>2. Arrived(x, d) => Arrived(y, d)
    BY <1>1 DEF Arrived, Rest
  <2>3. Reported(x, d) => Reported(y, d)
    BY <1>1 DEF Reported, Rest, Pending
  <2> QED BY <1>7, <2>1, <2>2, <2>3 DEF Phase
<1>8. PhasesOk(x) => PhasesOk(y)
  BY <1>1, <1>7 DEF PhasesOk, Rest
<1> QED BY <1>1, <1>8

(* The invariant and what the endpoint waits for go from x to y.           *)
Keeps(x, y) == Core(y) /\ (PhasesOk(x) => PhasesOk(y))
LEMMA UsOpKeeps ==
  ASSUME NEW x, Core(x), NEW c \in Conns, NEW y, UsOp(x, y, c), y.failed = Nil
  PROVE  /\ Keeps(x, y) /\ x.failed = Nil /\ SameEp(x, y)
         /\ y.stcp[c].st = x.stcp[c].st
<1>1. x \in World
  BY DEF Core
<1>2. Turn(x, y, c)
  BY <1>1, UsOpTurn
<1>3. Keeps(x, y)
  BY <1>2, TurnKeeps DEF Keeps
<1> QED BY <1>3 DEF UsOp, Below, Calm, Sess

LEMMA AtcpStoppable ==
  ASSUME NEW x, Core(x), NEW c \in Conns, x.atcp[c] # "ACCEPTING"
  PROVE  Stoppable(x, c)
BY DEF Core, AtcpOk, Stoppable

Ended == {"STOPPING_STCP_FINAL", "STOPPING"}
(* atcp.c: grid_atcp_shutdown, with the session and the usock stopped in   *)
(* this order.                                                             *)
LEMMA AtcpStoppingKeeps ==
  ASSUME NEW x, Core(x), x.role = "bind", NEW c \in Conns, x.atcp[c] \in Ended,
         NEW y, y = AtcpStopping(x, c), y.failed = Nil
  PROVE  Keeps(x, y)
<1> DEFINE u == UsockStop(x, c)
           m == AtcpMove(u, c, "STOPPING")
           asked == IF x.atcp[c] = "STOPPING_STCP_FINAL" /\ StcpIdle(x, c) THEN m ELSE x
           back == IF HasListener(asked, c) THEN ReturnListener(asked) ELSE asked
           z == AtcpMove(back, c, "IDLE")
           r == Raise(z, EpOwner("ATCP"), c, "STOPPED")
<1>0. /\ x \in World /\ {"STOPPING", "IDLE"} \subseteq AtcpStates /\ "STOPPED" \in SessTypes
      /\ EpOwner("ATCP") \in Owners /\ c \in Ptrs
  BY EpOwners, Names DEF Core, AtcpStates, SessTypes, EventTypes, Sources
<1>1. \/ asked.atcp[c] = "STOPPING" /\ y = r
      \/ y = asked
  BY DEF AtcpStopping
<1>2. asked = x \/ (asked = m /\ x.atcp[c] = "STOPPING_STCP_FINAL")
  OBVIOUS
<1>3. UsOp(x, u, c) /\ u \in World
  BY <1>0, AtcpStoppable, UsockStopOp DEF Ended
<1> HIDE DEF u
<1>4. m.failed = u.failed /\ m \in World
  BY <1>0, <1>3, ShiftedIs
<1>5. ASSUME m.failed = Nil, x.atcp[c] = "STOPPING_STCP_FINAL" PROVE Keeps(x, m)
  <2>1. Keeps(x, u) /\ SameEp(x, u)
    BY <1>3, <1>4, <1>5, UsOpKeeps
  <2>2. Core(u) /\ u.role = "bind" /\ u.atcp[c] = "STOPPING_STCP_FINAL"
    BY <1>5, <2>1 DEF Keeps, SameEp
  <2>3. Due(u, c, "STOPPING") /\ Kept(u, m, c)
    BY <2>2, DueIs, KeptShift DEF Core
  <2>4. Core(m) /\ (PhasesOk(u) => PhasesOk(m))
    BY <1>0, <2>2, <2>3, ShiftKeeps
  <2> QED BY <2>1, <2>4 DEF Keeps
<1>6. asked \in World
  BY <1>0, <1>2, <1>4
<1>7. (asked.role = "bind" /\ asked.atcp[c] \in Ended) \/ asked.failed # Nil
  <2>1. CASE asked = x
    BY <2>1
  <2>2. CASE asked = m /\ m.failed = Nil
    <3>1. SameEp(x, u)
      BY <1>3, <1>4, <2>2, UsOpKeeps
    <3>2. m.role = u.role /\ m.atcp[c] = "STOPPING"
      BY <1>0, <1>3, ShiftedIs DEF Shifted, Rest
    <3> QED BY <2>2, <3>1, <3>2 DEF SameEp, Ended
  <2> QED BY <1>2, <2>1, <2>2
<1>8. asked.failed = Nil => Keeps(x, asked)
  BY <1>2, <1>5 DEF Keeps
<1> HIDE DEF asked, m
<1>9. CASE y = asked
  BY <1>8, <1>9
<1>10. CASE asked.atcp[c] = "STOPPING" /\ y = r
  <2>1. asked.failed = back.failed /\ back.failed = z.failed /\ back \in World /\ z \in World
    <3>1. ReturnListener(asked).failed = asked.failed /\ ReturnListener(asked) \in World
      <4>1. Listener \in Socks /\ EpOwner("USOCK") \in UsOwners
        BY Names DEF EpOwner, UsOwners
      <4>2. Rest(asked, ReturnListener(asked))
        BY <1>6, <4>1, OwnerIs DEF ReturnListener
      <4> QED BY <4>2 DEF Rest
    <3>2. asked.failed = back.failed /\ back \in World
      BY <1>6, <3>1
    <3> HIDE DEF back
    <3> QED BY <1>0, <3>2, ShiftedIs
  <2>2. z.failed = Nil
    <3> HIDE DEF z
    <3> QED BY <1>0, <1>10, <2>1, RaiseIs DEF SessTypes
  <2>3. Core(asked) /\ Keeps(x, asked) /\ asked.role = "bind"
    BY <1>7, <1>8, <2>1, <2>2 DEF Keeps
  <2>4. Keeps(asked, back) /\ back.role = "bind" /\ back.atcp = asked.atcp
    <3>1. CASE ~HasListener(asked, c)
      BY <2>3, <3>1 DEF Keeps
    <3>2. CASE HasListener(asked, c)
      <4>1. back = ReturnListener(asked)
        BY <3>2
      <4> HIDE DEF back
      <4> QED BY <1>10, <2>3, <3>2, <4>1, ReturnedKeeps DEF Keeps, Rest
    <3> QED BY <3>1, <3>2
  <2> HIDE DEF back
  <2>5. Due(back, c, "IDLE") /\ Kept(back, z, c)
    BY <1>10, <2>4, DueIs, KeptShift DEF Core, Keeps
  <2>6. Core(z) /\ (PhasesOk(back) => PhasesOk(z)) /\ z.atcp[c] = "IDLE"
    BY <1>0, <1>10, <2>4, <2>5, ShiftKeeps DEF Keeps
  <2>7. z.role = "bind"
    BY <1>0, <2>1, <2>4, ShiftedIs
  <2> HIDE DEF z
  <2>8. Core(y) /\ (PhasesOk(z) => PhasesOk(y))
    BY <1>0, <1>10, <2>6, <2>7, AtcpRaiseKeeps
  <2> QED BY <2>3, <2>4, <2>6, <2>8 DEF Keeps
<1> QED BY <1>1, <1>9, <1>10

(* The connection broke and is over: the endpoint stops its atcp.          *)
LEMMA AtcpStopKeeps ==
  ASSUME NEW x, Core(x), x.role = "bind", NEW c \in Conns, x.atcp[c] = "DONE",
         ~Pending(x, "ATCP", c, "ERROR"), NEW y, y = AcceptorStop(x, c), y.failed = Nil
  PROVE  Keeps(x, y)
<1> DEFINE z == AtcpMove(x, c, "STOPPING_STCP_FINAL")
<1>0. x \in World /\ "STOPPING_STCP_FINAL" \in AtcpStates
  BY DEF Core, AtcpStates
<1>1. LinkOk(x, c) /\ AtcpOk(x, c)
  BY DEF Core
<1>2. x.stcp[c].st = "IDLE" /\ ~Pending(x, "STCP", c, "STOPPED")
  BY <1>1 DEF LinkOk, Attached, Breaking
<1>3. StcpIdle(x, c)
  <2>1. ~StoppedQueued(x, "STCP", c)
    <3>1. ASSUME NEW f \in Range(x.events) PROVE ~(f.src = "STCP" /\ f.ptr = c /\ f.type = "STOPPED")
      <4>1. PICK i \in 1..Len(x.events) : f = x.events[i]
        <5>1. x.events \in Seq(Events)
          BY <1>0, Has
        <5> QED BY <5>1, LenProperties DEF Range
      <4> QED BY <1>2, <4>1 DEF Pending
    <3> QED BY <3>1 DEF StoppedQueued
  <2> QED BY <1>2, <2>1 DEF StcpIdle
<1>4. y = AtcpStopping(z, c)
  BY <1>3 DEF AcceptorStop, AipcStop, AtcpStop
<1>5. Due(x, c, "STOPPING_STCP_FINAL")
  BY <1>1 DEF Due, AtcpOk
<1>6. Kept(x, z, c)
  BY <1>1, KeptShift
<1>7. Core(z) /\ (PhasesOk(x) => PhasesOk(z)) /\ z.atcp[c] = "STOPPING_STCP_FINAL"
  BY <1>0, <1>5, <1>6, ShiftKeeps
<1>8. z.role = "bind"
  BY <1>0, ShiftedIs
<1> HIDE DEF z
<1>9. Keeps(z, y)
  BY <1>4, <1>7, <1>8, AtcpStoppingKeeps DEF Ended
<1> QED BY <1>7, <1>9 DEF Keeps


(***************************************************************************)
(* An accepted connection is gone.                                         *)
(***************************************************************************)
Removed(s, k, r) ==
    /\ r \in Seq(Tasks)
    /\ \A i \in 1..Len(r) : \E j \in 1..Len(s) : r[i] = s[j]
    /\ \A j \in 1..Len(s) : j # k => \E i \in 1..Len(r) : r[i] = s[j]
(* worker.c: grid_worker_cancel and usock.c: grid_usock_term, the tasks    *)
(* taken back.                                                             *)
LEMMA RemovedIs ==
  ASSUME NEW s \in Seq(Tasks), NEW k \in 1..Len(s), NEW r, r = RemoveAt(s, k)
  PROVE  Removed(s, k, r)
<1> DEFINE a == SubSeq(s, 1, k - 1)
           b == SubSeq(s, k + 1, Len(s))
<1>1. Len(s) \in Nat /\ \A i \in 1..Len(s) : s[i] \in Tasks
  BY LenProperties, ElementOfSeq
<1>2. k \in Int /\ 1 <= k /\ k <= Len(s)
  BY <1>1
<1>3. a \in Seq(Tasks) /\ Len(a) = k - 1 /\ \A i \in 1..(k - 1) : a[i] = s[i]
  <2>1. \A i \in 1..(k - 1) : s[i] \in Tasks
    BY <1>1, <1>2
  <2>2. /\ a \in Seq(Tasks) /\ Len(a) = IF 1 <= k - 1 THEN (k - 1) - 1 + 1 ELSE 0
        /\ \A i \in 1..((k - 1) - 1 + 1) : a[i] = s[1 + i - 1]
    BY <1>2, <2>1, SubSeqProperties
  <2> HIDE DEF a
  <2>3. \A i \in 1..(k - 1) : a[i] = s[i]
    <3> TAKE i \in 1..(k - 1)
    <3>1. a[i] = s[1 + i - 1] /\ 1 + i - 1 = i
      BY <1>2, <2>2
    <3> QED BY <3>1
  <2> QED BY <1>2, <2>2, <2>3
<1>4. b \in Seq(Tasks) /\ Len(b) = Len(s) - k /\ \A i \in 1..(Len(s) - k) : b[i] = s[k + i]
  <2>1. \A i \in (k + 1)..Len(s) : s[i] \in Tasks
    BY <1>1, <1>2
  <2>2. /\ b \in Seq(Tasks) /\ Len(b) = IF k + 1 <= Len(s) THEN Len(s) - (k + 1) + 1 ELSE 0
        /\ \A i \in 1..(Len(s) - (k + 1) + 1) : b[i] = s[k + 1 + i - 1]
    BY <1>1, <1>2, <2>1, SubSeqProperties
  <2> HIDE DEF b
  <2>3. \A i \in 1..(Len(s) - k) : b[i] = s[k + i]
    <3> TAKE i \in 1..(Len(s) - k)
    <3>1. b[i] = s[k + 1 + i - 1] /\ k + 1 + i - 1 = k + i
      BY <1>1, <1>2, <2>2
    <3> QED BY <3>1
  <2> QED BY <1>1, <1>2, <2>2, <2>3
<1>5. r = a \o b
  BY DEF RemoveAt
<1> HIDE DEF a, b
<1>6. /\ r \in Seq(Tasks) /\ Len(r) = Len(s) - 1
      /\ \A i \in 1..Len(r) : r[i] = IF i <= k - 1 THEN a[i] ELSE b[i - (k - 1)]
  <2>0. a \in Seq(Tasks) /\ b \in Seq(Tasks)
    BY <1>3, <1>4
  <2>3. /\ a \o b \in Seq(Tasks) /\ Len(a \o b) = Len(a) + Len(b)
        /\ \A i \in 1..Len(a) + Len(b) : (a \o b)[i] = IF i <= Len(a) THEN a[i] ELSE b[i - Len(a)]
    BY <2>0, ConcatProperties
  <2>1. /\ r \in Seq(Tasks) /\ Len(r) = Len(a) + Len(b)
        /\ \A i \in 1..Len(a) + Len(b) : r[i] = IF i <= Len(a) THEN a[i] ELSE b[i - Len(a)]
    BY <1>5, <2>3
  <2>2. Len(a) + Len(b) = Len(s) - 1
    BY <1>1, <1>2, <1>3, <1>4
  <2> QED BY <1>3, <2>1, <2>2
<1>7. \A i \in 1..Len(r) : \E j \in 1..Len(s) : r[i] = s[j]
  <2> TAKE i \in 1..Len(r)
  <2>1. CASE i <= k - 1
    <3>1. r[i] = s[i] /\ i \in 1..Len(s)
      BY <1>1, <1>2, <1>3, <1>6, <2>1
    <3> QED BY <3>1
  <2>2. CASE ~(i <= k - 1)
    <3>1. i - (k - 1) \in 1..(Len(s) - k) /\ k + (i - (k - 1)) = i + 1 /\ i + 1 \in 1..Len(s)
      BY <1>1, <1>2, <1>6, <2>2
    <3>2. r[i] = s[i + 1]
      BY <1>4, <1>6, <2>2, <3>1
    <3> QED BY <3>1, <3>2
  <2> QED BY <2>1, <2>2
<1>8. \A j \in 1..Len(s) : j # k => \E i \in 1..Len(r) : r[i] = s[j]
  <2> TAKE j \in 1..Len(s)
  <2> SUFFICES ASSUME j # k PROVE \E i \in 1..Len(r) : r[i] = s[j]
    OBVIOUS
  <2>1. CASE j < k
    <3>1. j \in 1..Len(r) /\ j <= k - 1 /\ j \in 1..(k - 1)
      BY <1>1, <1>2, <1>6, <2>1
    <3>2. r[j] = s[j]
      BY <1>3, <1>6, <3>1
    <3> QED BY <3>1, <3>2
  <2>2. CASE j > k
    <3>1. j - 1 \in 1..Len(r) /\ ~(j - 1 <= k - 1) /\ (j - 1) - (k - 1) \in 1..(Len(s) - k)
          /\ k + ((j - 1) - (k - 1)) = j
      BY <1>1, <1>2, <1>6, <2>2
    <3>2. r[j - 1] = s[j]
      BY <1>4, <1>6, <3>1
    <3> QED BY <3>1, <3>2
  <2> QED BY <1>1, <1>2, <2>1, <2>2
<1> QED BY <1>6, <1>7, <1>8 DEF Removed

(* Some tasks of the connection are taken back.                            *)
Trimmed(x, y, c) ==
    /\ y \in World /\ y.failed = x.failed /\ SameEp(x, y) /\ SameParts(x, y)
    /\ y.tmr = x.tmr /\ y.events = x.events /\ y.copy = x.copy
    /\ \A i \in 1..Len(y.tasks) : \E j \in 1..Len(x.tasks) : y.tasks[i] = x.tasks[j]
    /\ \A j \in 1..Len(x.tasks) : x.tasks[j].on # c => \E i \in 1..Len(y.tasks) : y.tasks[i] = x.tasks[j]

LEMMA CancelIs ==
  ASSUME NEW x \in World, NEW c \in Conns, NEW y, y = TaskCancel(x, "recv", c)
  PROVE  Trimmed(x, y, c)
<1> DEFINE t == [kind |-> "recv", on |-> c]
<1>1. x.tasks \in Seq(Tasks) /\ DOMAIN x.tasks = 1..Len(x.tasks)
  BY Has, LenProperties
<1>2. CASE t \notin Range(x.tasks)
  <2>1. y = x
    BY <1>2 DEF TaskCancel
  <2> QED BY <2>1 DEF Trimmed, SameEp, SameParts
<1>3. CASE t \in Range(x.tasks)
  <2>1. PICK k : k = CHOOSE i \in DOMAIN x.tasks : x.tasks[i] = t
    OBVIOUS
  <2>2. k \in 1..Len(x.tasks) /\ x.tasks[k] = t
    <3>1. \E i \in DOMAIN x.tasks : x.tasks[i] = t
      BY <1>1, <1>3 DEF Range
    <3>2. k \in DOMAIN x.tasks /\ x.tasks[k] = t
      BY <2>1, <3>1
    <3> QED BY <1>1, <3>2
  <2>3. PICK r : r = RemoveAt(x.tasks, k)
    OBVIOUS
  <2>4. y = [x EXCEPT !.tasks = r]
    BY <1>3, <2>1, <2>3 DEF TaskCancel, World
  <2>5. PICK s : s = x.tasks
    OBVIOUS
  <2>6. s \in Seq(Tasks) /\ k \in 1..Len(s) /\ r = RemoveAt(s, k)
    BY <1>1, <2>2, <2>3, <2>5
  <2>7. Removed(s, k, r)
    BY <2>6, RemovedIs
  <2>8. /\ y \in World /\ y.failed = x.failed /\ SameEp(x, y) /\ SameParts(x, y)
        /\ y.tasks = r /\ y.tmr = x.tmr /\ y.events = x.events /\ y.copy = x.copy
    BY <2>4, <2>7, TasksPut DEF Removed
  <2>9. \A j \in 1..Len(x.tasks) : x.tasks[j].on # c => j # k
    BY <2>2
  <2> QED BY <2>5, <2>7, <2>8, <2>9 DEF Trimmed, Removed
<1> QED BY <1>2, <1>3

LEMMA UsockTermIs ==
  ASSUME NEW x \in World, NEW c \in Conns, NEW y, y = UsockTerm(x, c)
  PROVE  y \in World /\ (y.failed = Nil => Trimmed(x, y, c))
<1> DEFINE z == TaskCancel(x, "recv", c)
<1>1. Trimmed(x, z, c) /\ z \in World
  BY CancelIs DEF Trimmed
<1>2. y = z \/ y = Fail(z, "task queued at term")
  BY DEF UsockTerm
<1> HIDE DEF z
<1>3. Fail(z, "task queued at term") \in World /\ Fail(z, "task queued at term").failed # Nil
  BY <1>1, Sites, FailIs
<1> QED BY <1>1, <1>2, <1>3

(* The record of the connection is as new. *)
Cleared(x, y, c) ==
    /\ y \in World /\ y.failed = x.failed
    /\ y.role = x.role /\ y.net = x.net /\ y.ep = x.ep /\ y.cur = x.cur
    /\ y.fsm = x.fsm /\ y.error = x.error /\ y.stat = x.stat
    /\ y.events = x.events /\ y.tasks = x.tasks /\ y.copy = x.copy
    /\ y.atcp[c] = "FREE" /\ y.us[c] = NewUsock(AtcpOwner(c, "USOCK"))
    /\ y.hdr[c] = NewHdr /\ y.stcp[c] = NewStcp /\ y.pipe[c] = NewPipe
    /\ \A u \in Socks \ {c} : y.us[u] = x.us[u]
    /\ \A d \in Conns \ {c} : /\ y.atcp[d] = x.atcp[d] /\ y.hdr[d] = x.hdr[d]
                              /\ y.stcp[d] = x.stcp[d] /\ y.pipe[d] = x.pipe[d]
LEMMA ClearedIs ==
  ASSUME NEW x \in World, NEW c \in Conns,
         NEW y, y = [x EXCEPT !.atcp[c] = "FREE", !.us[c] = NewUsock(AtcpOwner(c, "USOCK")),
                              !.hdr[c] = NewHdr, !.stcp[c] = NewStcp, !.pipe[c] = NewPipe]
  PROVE  Cleared(x, y, c)
<1> DEFINE r == NewUsock(AtcpOwner(c, "USOCK"))
           a == [x.atcp EXCEPT ![c] = "FREE"]
           u == [x.us EXCEPT ![c] = r]
           h == [x.hdr EXCEPT ![c] = NewHdr]
           s == [x.stcp EXCEPT ![c] = NewStcp]
           p == [x.pipe EXCEPT ![c] = NewPipe]
<1>1. r \in UsockRecs
  BY Names DEF NewUsock, UsockRecs, UsockStates, UsOwners, AtcpOwner, ToOne
<1>2. NewHdr \in HdrRecs /\ NewStcp \in StcpRecs /\ NewPipe \in PipeRecs /\ "FREE" \in AtcpStates
  BY NewPipeIs DEF NewHdr, HdrRecs, HdrStates, NewStcp, StcpRecs, StcpStates, AtcpStates
<1>3. c \in Socks
  BY Names
<1> HIDE DEF r
<1>4. /\ a \in [Conns -> AtcpStates] /\ u \in [Socks -> UsockRecs] /\ h \in [Conns -> HdrRecs]
      /\ s \in [Conns -> StcpRecs] /\ p \in [Conns -> PipeRecs]
  BY <1>1, <1>2, <1>3, Has
<1>5. /\ a[c] = "FREE" /\ u[c] = r /\ h[c] = NewHdr /\ s[c] = NewStcp /\ p[c] = NewPipe
      /\ \A z \in Socks \ {c} : u[z] = x.us[z]
      /\ \A d \in Conns \ {c} : a[d] = x.atcp[d] /\ h[d] = x.hdr[d] /\ s[d] = x.stcp[d] /\ p[d] = x.pipe[d]
  BY <1>3, Has
<1>6. y = [x EXCEPT !.atcp = a, !.us = u, !.hdr = h, !.stcp = s, !.pipe = p]
  BY DEF r, World
<1> HIDE DEF a, u, h, s, p
<1>8. y \in World
  <2> DEFINE y1 == [x EXCEPT !.atcp = a]
             y2 == [y1 EXCEPT !.us = u]
             y3 == [y2 EXCEPT !.hdr = h]
             y4 == [y3 EXCEPT !.stcp = s]
  <2>1. y = [y4 EXCEPT !.pipe = p]
    BY <1>6
  <2>2. y1 \in World
    BY <1>4, Put
  <2> HIDE DEF y1
  <2>3. y2 \in World
    BY <1>4, <2>2, Put
  <2> HIDE DEF y2
  <2>4. y3 \in World
    BY <1>4, <2>3, Put
  <2> HIDE DEF y3
  <2>5. y4 \in World
    BY <1>4, <2>4, Put
  <2> HIDE DEF y4
  <2>6. [y4 EXCEPT !.pipe = p] \in World
    BY <1>4, <2>5, Put
  <2> QED BY <2>1, <2>6
<1>7. /\ y.failed = x.failed
      /\ y.role = x.role /\ y.net = x.net /\ y.ep = x.ep /\ y.cur = x.cur
      /\ y.fsm = x.fsm /\ y.error = x.error /\ y.stat = x.stat
      /\ y.events = x.events /\ y.tasks = x.tasks /\ y.copy = x.copy
      /\ y.atcp = a /\ y.us = u /\ y.hdr = h /\ y.stcp = s /\ y.pipe = p
  BY <1>6 DEF World
<1> QED BY <1>5, <1>7, <1>8, ZenonT(60) DEF Cleared, r

(* atcp.c: grid_atcp_term and the memory given back, so that the identity  *)
(* is free for another connection.                                         *)
LEMMA AtcpTermIs ==
  ASSUME NEW x \in World, NEW c \in Conns, NEW y, y = AtcpTerm(x, c), y.failed = Nil
  PROVE  /\ AtcpIdle(x, c) /\ x.us[c].st = "IDLE"
         /\ \E z : Trimmed(x, z, c) /\ Cleared(z, y, c)
<1> DEFINE z == UsockTerm(x, c)
<1>1. Fail(x, "atcp: term").failed # Nil
  BY Sites, FailIs
<1>2. AtcpIdle(x, c) /\ x.us[c].st = "IDLE"
      /\ y = [z EXCEPT !.atcp[c] = "FREE", !.us[c] = NewUsock(AtcpOwner(c, "USOCK")),
                       !.hdr[c] = NewHdr, !.stcp[c] = NewStcp, !.pipe[c] = NewPipe]
  BY <1>1 DEF AtcpTerm
<1>3. z \in World /\ (z.failed = Nil => Trimmed(x, z, c))
  BY UsockTermIs
<1> HIDE DEF z
<1>4. Cleared(z, y, c)
  BY <1>2, <1>3, ClearedIs
<1>5. z.failed = Nil
  BY <1>4 DEF Cleared
<1> QED BY <1>2, <1>3, <1>4, <1>5


(* What is left of the invariant when the record is as new. *)
Gone(x, y, c) ==
    /\ y \in World /\ y.failed = x.failed
    /\ y.role = x.role /\ y.net = x.net /\ y.ep = x.ep /\ y.cur = x.cur
    /\ y.fsm = x.fsm /\ y.error = x.error /\ y.stat = x.stat
    /\ y.events = x.events /\ y.copy = x.copy
    /\ \A i \in 1..Len(y.tasks) : \E j \in 1..Len(x.tasks) : y.tasks[i] = x.tasks[j]
    /\ \A j \in 1..Len(x.tasks) : x.tasks[j].on # c => \E i \in 1..Len(y.tasks) : y.tasks[i] = x.tasks[j]
    /\ y.atcp[c] = "FREE" /\ y.us[c].st = "IDLE" /\ y.us[c].owner = AtcpOwner(c, "USOCK")
    /\ y.hdr[c].st = "IDLE" /\ y.stcp[c].st = "IDLE" /\ y.pipe[c].st = "IDLE"
    /\ \A u \in Socks \ {c} : y.us[u] = x.us[u]
    /\ \A d \in Conns \ {c} : /\ y.atcp[d] = x.atcp[d] /\ y.hdr[d] = x.hdr[d]
                              /\ y.stcp[d] = x.stcp[d] /\ y.pipe[d] = x.pipe[d]
LEMMA GoneIs ==
  ASSUME NEW x \in World, NEW c \in Conns, NEW y, y = AtcpGone(x, c), y.failed = Nil
  PROVE  /\ ~Pending(x, "ATCP", c, "STOPPED") /\ x.atcp[c] = "IDLE" /\ x.us[c].st = "IDLE"
         /\ Gone(x, y, c)
<1>1. x.list \ {c} \in SUBSET Conns
  BY Has
<1>2. PICK l : l = [x EXCEPT !.list = @ \ {c}]
  OBVIOUS
<1>3. Rest(x, l) /\ l.us = x.us /\ l.ep = x.ep /\ l.atcp = x.atcp /\ l.cur = x.cur
  BY <1>1, <1>2, ListIs
<1>4. l \in World /\ y = AtcpTerm(l, c)
  BY <1>2, <1>3 DEF AtcpGone, AcceptorTerm, AipcTerm, Rest
<1>5. /\ AtcpIdle(l, c) /\ l.us[c].st = "IDLE"
      /\ \E z : Trimmed(l, z, c) /\ Cleared(z, y, c)
  BY <1>4, AtcpTermIs
<1>6. PICK z : Trimmed(l, z, c) /\ Cleared(z, y, c)
  BY <1>5
<1>7. ~Pending(x, "ATCP", c, "STOPPED")
  <2>1. ASSUME NEW i \in 1..Len(l.events) PROVE l.events[i] \in Range(l.events)
    <3>1. l.events \in Seq(Events)
      BY <1>4, Has
    <3> QED BY <3>1, LenProperties DEF Range
  <2> QED BY <1>3, <1>5, <2>1 DEF AtcpIdle, StoppedQueued, Pending, Rest
<1>8. NewUsock(AtcpOwner(c, "USOCK")).st = "IDLE"
      /\ NewUsock(AtcpOwner(c, "USOCK")).owner = AtcpOwner(c, "USOCK")
      /\ NewHdr.st = "IDLE" /\ NewStcp.st = "IDLE" /\ NewPipe.st = "IDLE"
  BY DEF NewUsock, NewHdr, NewStcp, NewPipe
<1>9. /\ y \in World /\ y.failed = x.failed
      /\ y.role = x.role /\ y.net = x.net /\ y.ep = x.ep /\ y.cur = x.cur
      /\ y.fsm = x.fsm /\ y.error = x.error /\ y.stat = x.stat
      /\ y.events = x.events /\ y.copy = x.copy /\ y.tasks = z.tasks
  BY <1>3, <1>6 DEF Trimmed, Cleared, Rest, SameEp, SameParts
<1>10. l.tasks = x.tasks
  BY <1>3 DEF Rest
<1>11. /\ \A i \in 1..Len(y.tasks) : \E j \in 1..Len(x.tasks) : y.tasks[i] = x.tasks[j]
       /\ \A j \in 1..Len(x.tasks) : x.tasks[j].on # c => \E i \in 1..Len(y.tasks) : y.tasks[i] = x.tasks[j]
  BY <1>6, <1>9, <1>10 DEF Trimmed
<1>12. /\ y.atcp[c] = "FREE" /\ y.us[c].st = "IDLE" /\ y.us[c].owner = AtcpOwner(c, "USOCK")
       /\ y.hdr[c].st = "IDLE" /\ y.stcp[c].st = "IDLE" /\ y.pipe[c].st = "IDLE"
  BY <1>6, <1>8 DEF Cleared
<1>13. /\ z.atcp = x.atcp /\ z.us = x.us /\ z.hdr = x.hdr /\ z.stcp = x.stcp /\ z.pipe = x.pipe
  BY <1>3, <1>6 DEF Trimmed, Rest, SameEp, SameParts
<1>14. /\ \A u \in Socks \ {c} : y.us[u] = x.us[u]
       /\ \A d \in Conns \ {c} : /\ y.atcp[d] = x.atcp[d] /\ y.hdr[d] = x.hdr[d]
                                 /\ y.stcp[d] = x.stcp[d] /\ y.pipe[d] = x.pipe[d]
  BY <1>6, <1>13 DEF Cleared
<1>15. x.atcp[c] = "IDLE" /\ x.us[c].st = "IDLE"
  BY <1>3, <1>5 DEF AtcpIdle
<1> QED BY <1>7, <1>9, <1>11, <1>12, <1>14, <1>15 DEF Gone

(* The connection of the list that is gone was not the one waited for.     *)
LEMMA GonePhase ==
  ASSUME NEW x, NEW y, NEW c \in Conns, Gone(x, y, c), NEW d \in Conns \ {c}, Phase(x, d)
  PROVE  Phase(y, d)
<1>1. /\ y.us[Listener] = x.us[Listener] /\ y.us[d] = x.us[d] /\ y.atcp[d] = x.atcp[d]
      /\ y.events = x.events /\ y.copy = x.copy
  BY Names DEF Gone
<1>2. Queued(x) => Queued(y)
  <2>1. ASSUME NEW j \in 1..Len(x.tasks), x.tasks[j] = AcceptTask
        PROVE  \E i \in 1..Len(y.tasks) : y.tasks[i] = AcceptTask
    <3>1. x.tasks[j].on # c
      BY <2>1, Names DEF AcceptTask
    <3> QED BY <2>1, <3>1 DEF Gone
  <2> QED BY <1>1, <2>1 DEF Queued
<1> QED BY <1>1, <1>2 DEF Phase, Await, Arrived, Short, Reported, Pending

LEMMA GoneCounts ==
  ASSUME NEW x, Core(x), x.role = "bind", NEW c \in Conns, x.atcp[c] = "IDLE",
         NEW y, Gone(x, y, c)
  PROVE  CountsOk(y)
<1>1. x.pipe[c].st # "ACTIVE"
  BY AskingOwner
<1>2. {d \in Conns : y.pipe[d].st = "ACTIVE"} = {d \in Conns : x.pipe[d].st = "ACTIVE"}
  BY <1>1 DEF Gone
<1>3. {d \in Conns : y.atcp[d] = "ACTIVE"} = {d \in Conns : x.atcp[d] = "ACTIVE"}
  BY DEF Gone
<1>4. y.role = x.role /\ y.ep = x.ep /\ y.error = x.error /\ y.stat = x.stat
  BY DEF Gone
<1> QED BY <1>2, <1>3, <1>4 DEF Core, CountsOk, GaugesOk, AliveOf, PipesOf

LEMMA GoneKeeps ==
  ASSUME NEW x, Core(x), x.role = "bind", NEW c \in Conns, c # x.cur,
         NEW y, y = AtcpGone(x, c), y.failed = Nil
  PROVE  Keeps(x, y)
<1>1. /\ ~Pending(x, "ATCP", c, "STOPPED") /\ x.atcp[c] = "IDLE" /\ x.us[c].st = "IDLE"
      /\ Gone(x, y, c)
  BY GoneIs DEF Core
<1>2. /\ y \in World /\ y.role = "bind" /\ y.ep = x.ep /\ y.cur = x.cur /\ y.fsm = x.fsm
      /\ y.us[Listener] = x.us[Listener] /\ y.events = x.events /\ y.copy = x.copy
  BY <1>1, Names DEF Gone
<1>3. \A src, d, type : Pending(y, src, d, type) = Pending(x, src, d, type)
  BY <1>2 DEF Pending
<1>4. EventsOk(y)
  BY <1>2 DEF Core, EventsOk, Distinct, Routed, End
<1>5. ListenerOk(y)
  <2>1. ASSUME NEW i \in 1..Len(y.tasks), y.tasks[i].on = Listener PROVE y.tasks[i].kind = "accept"
    BY <1>1, <2>1 DEF Gone, Core, ListenerOk
  <2> QED BY <1>2, <2>1 DEF Core, ListenerOk
<1>6. ASSUME NEW d \in Conns PROVE LinkOk(y, d) /\ AtcpOk(y, d)
  <2>1. LinkOk(x, d) /\ AtcpOk(x, d)
    BY DEF Core
  <2>2. CASE d = c
    <3>1. ~Pending(y, "STCP", c, "STOPPED")
      BY <1>1, <1>3, <2>1, <2>2 DEF LinkOk, Breaking
    <3>2. /\ y.atcp[c] = "FREE" /\ y.us[c].st = "IDLE" /\ y.us[c].owner = AtcpOwner(c, "USOCK")
          /\ y.hdr[c].st = "IDLE" /\ y.stcp[c].st = "IDLE" /\ y.pipe[c].st = "IDLE"
      BY <1>1 DEF Gone
    <3>3. LinkOk(y, c)
      BY <1>2, <3>1, <3>2 DEF LinkOk, Restful, PipeOk, End, AtcpOwner
    <3>4. ~Pending(y, "ATCP", c, "ERROR") /\ ~Pending(y, "ATCP", c, "STOPPED")
          /\ ~Pending(y, "ATCP", c, "ACCEPTED")
      BY <1>1, <1>3, <2>1, <2>2 DEF AtcpOk
    <3>5. AtcpOk(y, c)
      BY <1>2, <3>2, <3>4 DEF AtcpOk, Listened
    <3> QED BY <2>2, <3>3, <3>5
  <2>3. CASE d # c
    <3>1. /\ y.us[d] = x.us[d] /\ y.atcp[d] = x.atcp[d] /\ y.hdr[d] = x.hdr[d]
          /\ y.stcp[d] = x.stcp[d] /\ y.pipe[d] = x.pipe[d] /\ y.role = x.role
      BY <1>1, <2>3, Names DEF Gone
    <3>2. LinkOk(y, d)
      BY <1>2, <1>3, <2>1, <3>1 DEF LinkOk, Attached, Breaking, Restful, PipeOk, End
    <3>3. AtcpOk(y, d)
      BY <1>2, <1>3, <2>1, <3>1 DEF AtcpOk
    <3> QED BY <3>2, <3>3
  <2> QED BY <2>2, <2>3
<1>7. CountsOk(y)
  BY <1>1, GoneCounts
<1>8. Core(y)
  BY <1>2, <1>4, <1>5, <1>6, <1>7 DEF Core, Running
<1>9. PhasesOk(x) => PhasesOk(y)
  <2>1. ASSUME x.cur \in Conns, Phase(x, x.cur) PROVE Phase(y, x.cur)
    BY <1>1, <2>1, GonePhase
  <2> QED BY <1>2, <2>1 DEF PhasesOk
<1> QED BY <1>8, <1>9 DEF Keeps


(***************************************************************************)
(* The bound endpoint: every event of its own.                             *)
(***************************************************************************)
LEMMA MuteIs ==
  ASSUME NEW x, EventsOk(x), x.us[Listener].st # "ACCEPTING_ERROR"
  PROVE  Mute(x)
BY DEF EventsOk, Routed, Mute

LEMMA MovedEp ==
  ASSUME NEW x \in World, NEW s \in States, NEW y, y = EpMove(x, s)
  PROVE  Rest(x, y) /\ y.us = x.us /\ y.ep = s /\ y.atcp = x.atcp /\ y.cur = x.cur
         /\ y.list = x.list
<1>1. y \in World
  BY DEF EpMove, World
<1>2. /\ y.failed = x.failed
      /\ y.role = x.role /\ y.net = x.net /\ y.fsm = x.fsm /\ y.error = x.error
      /\ y.hdr = x.hdr /\ y.stcp = x.stcp /\ y.pipe = x.pipe /\ y.stat = x.stat
      /\ y.events = x.events /\ y.tasks = x.tasks /\ y.copy = x.copy
  BY DEF EpMove, World
<1>3. y.us = x.us /\ y.ep = s /\ y.atcp = x.atcp /\ y.cur = x.cur /\ y.list = x.list
  BY DEF EpMove, World
<1> QED BY <1>1, <1>2, <1>3 DEF Rest

(* The connection that arrived is put with the others.                     *)
LEMMA ListedIs ==
  ASSUME NEW x \in World, NEW L \in SUBSET Conns, NEW y, y = [x EXCEPT !.list = L, !.cur = Nil]
  PROVE  Rest(x, y) /\ y.us = x.us /\ y.ep = x.ep /\ y.atcp = x.atcp
<1>1. y \in World
  BY DEF World
<1>2. /\ y.failed = x.failed
      /\ y.role = x.role /\ y.net = x.net /\ y.fsm = x.fsm /\ y.error = x.error
      /\ y.hdr = x.hdr /\ y.stcp = x.stcp /\ y.pipe = x.pipe /\ y.stat = x.stat
      /\ y.events = x.events /\ y.tasks = x.tasks /\ y.copy = x.copy
  BY DEF World
<1>3. y.us = x.us /\ y.ep = x.ep /\ y.atcp = x.atcp
  BY DEF World
<1> QED BY <1>1, <1>2, <1>3 DEF Rest
LEMMA UncurIs ==
  ASSUME NEW x, Core(x), x.role = "bind",
         \A d \in Conns : ~Pending(x, "ATCP", d, "ACCEPTED") /\ x.atcp[d] # "ACCEPTING",
         NEW y, y = [x EXCEPT !.list = @ \cup {x.cur}, !.cur = Nil], x.cur \in Conns
  PROVE  /\ Core(y) /\ y.role = "bind" /\ y.ep = x.ep
         /\ y.us = x.us /\ y.events = x.events
<1>1. PICK L : L = x.list \cup {x.cur}
  OBVIOUS
<1>2. x \in World /\ L \in SUBSET Conns /\ y = [x EXCEPT !.list = L, !.cur = Nil]
  BY <1>1, Has DEF Core
<1>6. Rest(x, y) /\ y.us = x.us /\ y.ep = x.ep /\ y.atcp = x.atcp
  BY <1>2, ListedIs
<1>7. \A src, d, type : Pending(y, src, d, type) = Pending(x, src, d, type)
  BY <1>6 DEF Pending, Rest
<1>8. EventsOk(y)
  BY <1>6 DEF Core, EventsOk, Distinct, Routed, End, Rest
<1>9. ASSUME NEW d \in Conns PROVE LinkOk(y, d) /\ AtcpOk(y, d)
  <2>1. LinkOk(x, d) /\ AtcpOk(x, d)
    BY DEF Core
  <2>2. LinkOk(y, d)
    BY <1>6, <1>7, <2>1 DEF LinkOk, Attached, Breaking, Restful, PipeOk, End, Rest
  <2>3. AtcpOk(y, d)
    BY <1>6, <1>7, <2>1 DEF AtcpOk, Rest
  <2> QED BY <2>2, <2>3
<1>10. CountsOk(y) /\ ListenerOk(y) /\ Running(y)
  BY <1>6 DEF Core, CountsOk, GaugesOk, AliveOf, PipesOf, ListenerOk, Running, Rest
<1> QED BY <1>6, <1>8, <1>9, <1>10 DEF Core, Rest

LEMMA AcceptedOneSafe ==
  ASSUME NEW x0, Core(x0), PhasesOk(x0), x0.role = "bind", x0.ep = "ACTIVE", x0.events # <<>>,
         NEW e, e = Head(x0.events), e.src = "ATCP", e.type = "ACCEPTED", e.ptr = x0.cur,
         NEW x, x = Taken(x0),
         NEW y \in BtcpStartAccepting([x EXCEPT !.list = @ \cup {x.cur}, !.cur = Nil])
  PROVE  Safe(y)
<1>1. x0 \in World /\ EventsOk(x0)
  BY DEF Core
<1>2. x.cur = x0.cur /\ x.atcp = x0.atcp /\ x.us = x0.us /\ x.role = "bind" /\ x.ep = "ACTIVE"
  BY <1>1, TakenIs DEF SameEp, SameParts
<1>3. Core(x) /\ EventsOk(x)
  BY TakenCore DEF Core
<1>4. x0.cur \in Conns /\ Phase(x0, x0.cur)
  BY DEF PhasesOk
<1>5. Pending(x0, "ATCP", x0.cur, "ACCEPTED") /\ ~Pending(x, "ATCP", x0.cur, "ACCEPTED")
  BY <1>1, TakenPending
<1>6. AtcpOk(x0, x0.cur)
  BY <1>4 DEF Core
<1>7. x0.atcp[x0.cur] # "ACCEPTING"
  BY <1>5, <1>6 DEF AtcpOk
<1>8. x0.us[Listener].st = "LISTENING"
  BY <1>4, <1>7 DEF Phase, Await, Arrived, Short, Reported
<1>9. ASSUME NEW d \in Conns
      PROVE  ~Pending(x, "ATCP", d, "ACCEPTED") /\ x.atcp[d] # "ACCEPTING"
  <2>1. AtcpOk(x, d)
    BY <1>3 DEF Core
  <2> QED BY <1>2, <1>5, <1>7, <2>1 DEF AtcpOk
<1>10. PICK z : z = [x EXCEPT !.list = @ \cup {x.cur}, !.cur = Nil]
  OBVIOUS
<1>11. Core(z) /\ z.role = "bind" /\ z.ep = x.ep /\ z.us = x.us /\ z.events = x.events
  BY <1>2, <1>3, <1>4, <1>9, <1>10, UncurIs, ZenonT(60)
<1>12. Mute(z)
  BY <1>2, <1>8, <1>11, MuteIs DEF Core
<1> QED BY <1>2, <1>10, <1>11, <1>12, StartAcceptingSafe

(* The listener is opened, and everything else stays.                      *)
Opened(x, y) ==
    /\ y \in World /\ SameEp(x, y) /\ y.hdr = x.hdr /\ y.stcp = x.stcp /\ y.pipe = x.pipe
    /\ y.stat = x.stat /\ y.events = x.events /\ y.tasks = x.tasks /\ y.copy = x.copy
    /\ \A d \in Conns : y.us[d] = x.us[d]
LEMMA OpenedTrans ==
  ASSUME NEW x, NEW y, NEW z, Opened(x, y), Opened(y, z)
  PROVE  Opened(x, z)
BY DEF Opened, SameEp
LEMMA OpenedFail ==
  ASSUME NEW x \in World, NEW f \in Failures \ {Nil}, NEW y, y = Fail(x, f)
  PROVE  Opened(x, y) /\ y.us = x.us /\ y.failed # Nil
<1>1. y \in World /\ y.failed # Nil
  BY FailIs
<1>2. SameEp(x, y) /\ y.hdr = x.hdr /\ y.stcp = x.stcp /\ y.pipe = x.pipe
  BY DEF Fail, World, SameEp
<1>3. y.us = x.us /\ y.stat = x.stat /\ y.events = x.events /\ y.tasks = x.tasks /\ y.copy = x.copy
  BY DEF Fail, World
<1> QED BY <1>1, <1>2, <1>3 DEF Opened
LEMMA OpenedSet ==
  ASSUME NEW x \in World, NEW b \in BOOLEAN, NEW st \in UsockStates
  PROVE  /\ Opened(x, [x EXCEPT !.us[Listener].errnum = b])
         /\ Opened(x, [x EXCEPT !.us[Listener].open = b])
         /\ [x EXCEPT !.us[Listener].open = b].us[Listener].st = x.us[Listener].st
         /\ [x EXCEPT !.us[Listener].open = b].failed = x.failed
         /\ Opened(x, UsockMove(x, Listener, st)) /\ UsockMove(x, Listener, st).us[Listener].st = st
         /\ UsockMove(x, Listener, st).failed = x.failed
<1>0. Peer \in Conns /\ Listener \in Socks /\ \A d \in Conns : d \in Socks \ {Listener}
  BY PeerIs, Names
<1>1. PICK y : y = [x EXCEPT !.us[Listener].open = b]
  OBVIOUS
<1>2. PICK z : z = UsockMove(x, Listener, st)
  OBVIOUS
<1>3. /\ Touched(x, y, Peer) /\ y \in World /\ y.us[Listener].st = x.us[Listener].st
      /\ \A u \in Socks \ {Listener} : y.us[u] = x.us[u]
  BY <1>0, <1>1, TouchedFlags
<1>4. /\ Touched(x, z, Peer) /\ z \in World /\ z.us[Listener].st = st
      /\ \A u \in Socks \ {Listener} : z.us[u] = x.us[u]
  BY <1>0, <1>2, TouchedMove
<1>5. Opened(x, y) /\ y.failed = x.failed
  BY <1>0, <1>3 DEF Touched, Two, Opened
<1>6. Opened(x, z) /\ z.failed = x.failed
  BY <1>0, <1>4 DEF Touched, Two, Opened
<1>7. PICK n : n = [x EXCEPT !.us[Listener].errnum = b]
  OBVIOUS
<1>8. /\ Touched(x, n, Peer) /\ n \in World /\ n.us[Listener].st = x.us[Listener].st
      /\ \A u \in Socks \ {Listener} : n.us[u] = x.us[u]
  BY <1>0, <1>7, TouchedFlags
<1>9. Opened(x, n)
  BY <1>0, <1>8 DEF Touched, Two, Opened
<1> QED BY <1>1, <1>2, <1>3, <1>4, <1>5, <1>6, <1>7, <1>9

LEMMA OpenedCore ==
  ASSUME NEW x, Core(x), x.role = "bind", x.us[Listener].st = "IDLE", NEW v, Opened(x, v),
         NEW s \in States, v.us[Listener].st \in {"IDLE", "LISTENING"},
         v.us[Listener].st # "IDLE" => s = "ACTIVE",
         NEW y, y = EpMove(v, s)
  PROVE  Core(y) /\ Mute(y) /\ y.role = "bind" /\ y.ep = s /\ y.failed = v.failed
<1>1. v \in World
  BY DEF Opened
<1>2. Rest(v, y) /\ y.us = v.us /\ y.ep = s /\ y.atcp = v.atcp /\ y.cur = v.cur
  BY <1>1, MovedEp
<1>3. /\ y \in World /\ y.role = "bind" /\ y.role = x.role /\ y.atcp = x.atcp /\ y.cur = x.cur /\ y.fsm = x.fsm
      /\ y.error = x.error /\ y.hdr = x.hdr /\ y.stcp = x.stcp /\ y.pipe = x.pipe
      /\ y.stat = x.stat /\ y.events = x.events /\ y.tasks = x.tasks /\ y.copy = x.copy
      /\ \A d \in Conns : y.us[d] = x.us[d]
  BY <1>2 DEF Rest, Opened, SameEp
<1>4. \A src, d, type : Pending(y, src, d, type) = Pending(x, src, d, type)
  BY <1>3 DEF Pending
<1>5. EventsOk(x) /\ Mute(x)
  BY MuteIs DEF Core
<1>6. Mute(y)
  BY <1>3, <1>5 DEF Mute
<1>7. EventsOk(y)
  BY <1>3, <1>5 DEF EventsOk, Distinct, Routed, End, Mute
<1>8. ASSUME NEW d \in Conns PROVE LinkOk(y, d) /\ AtcpOk(y, d)
  <2>1. LinkOk(x, d) /\ AtcpOk(x, d)
    BY DEF Core
  <2>2. LinkOk(y, d)
    BY <1>3, <1>4, <2>1 DEF LinkOk, Attached, Breaking, Restful, PipeOk, End
  <2>3. AtcpOk(y, d)
    BY <1>3, <1>4, <2>1 DEF AtcpOk
  <2> QED BY <2>2, <2>3
<1>9. CountsOk(y) /\ Running(y)
  BY <1>3 DEF Core, CountsOk, GaugesOk, AliveOf, PipesOf, Running
<1>10. ListenerOk(y)
  BY <1>2, <1>3 DEF Core, ListenerOk
<1>11. y.failed = v.failed
  BY <1>2 DEF Rest
<1> QED BY <1>2, <1>3, <1>6, <1>7, <1>8, <1>9, <1>10, <1>11 DEF Core

(* btcp.c, bipc.c: the listener opens and waits for the first connection,  *)
(* or the endpoint is refused.                                             *)
LEMMA StartListeningSafe ==
  ASSUME NEW x, Core(x), x.role = "bind", x.ep # "ACTIVE",
         NEW y \in BtcpStartListening(x)
  PROVE  Safe(y)
<1> DEFINE o == UsockStart(x, Listener)
           n == UsockListen(o, Listener)
<1>0. /\ x \in World /\ {"ACTIVE", "CLOSING"} \subseteq States /\ x.us[Listener].st = "IDLE"
      /\ {"STARTING", "LISTENING", "IDLE"} \subseteq UsockStates
  BY DEF Core, ListenerOk, States, UsockStates
<1>1. /\ Opened(x, o) /\ o.us[Listener].st \in {"STARTING", "IDLE"}
      /\ (o.failed = Nil => o.us[Listener].st = "STARTING")
  <2> DEFINE i == [x EXCEPT !.us[Listener].open = TRUE]
  <2>1. o = Fail(x, "usock started twice") \/ o = UsockMove(i, Listener, "STARTING")
    BY DEF UsockStart, InitFromFd
  <2>2. CASE o = Fail(x, "usock started twice")
    <3> HIDE DEF o
    <3>1. Opened(x, o) /\ o.us = x.us /\ o.failed # Nil
      BY <1>0, <2>2, Sites, OpenedFail
    <3> QED BY <1>0, <3>1
  <2>3. CASE o = UsockMove(i, Listener, "STARTING")
    <3>1. Opened(x, i) /\ i.failed = x.failed /\ i.us[Listener].st = "IDLE"
      BY <1>0, OpenedSet
    <3> HIDE DEF i, o
    <3>2. i \in World
      BY <3>1 DEF Opened
    <3>3. Opened(i, o) /\ o.us[Listener].st = "STARTING" /\ o.failed = i.failed
      BY <1>0, <2>3, <3>2, OpenedSet
    <3> QED BY <3>1, <3>3, OpenedTrans
  <2> QED BY <2>1, <2>2, <2>3
<1>2. ASSUME y = BackoffWait(x) PROVE Safe(y)
  BY <1>0, <1>2, BackoffWaitIs, BindMoved
<1>3. o \in World
  BY <1>1 DEF Opened
<1>4. /\ Opened(x, n) /\ n.us[Listener].st \in {"LISTENING", "IDLE"}
  <2>1. CASE o.us[Listener].st # "STARTING"
    <3>1. n = Fail(o, "usock: bad action")
      BY <2>1 DEF UsockListen
    <3> HIDE DEF o, n
    <3>2. Opened(o, n) /\ n.us = o.us
      BY <1>3, <3>1, Sites, OpenedFail
    <3> QED BY <1>1, <2>1, <3>2, OpenedTrans
  <2>2. CASE o.us[Listener].st = "STARTING"
    <3>1. n = UsockMove(o, Listener, "LISTENING")
      BY <2>2 DEF UsockListen
    <3> HIDE DEF o, n
    <3>2. Opened(o, n) /\ n.us[Listener].st = "LISTENING"
      BY <1>0, <1>3, <3>1, OpenedSet
    <3> QED BY <1>1, <3>2, OpenedTrans
  <2> QED BY <2>1, <2>2
<1>5. ASSUME y = EpMove(UsockStop(o, Listener), "CLOSING") PROVE Safe(y)
  <2> DEFINE p == UsockStop(o, Listener)
             f == [o EXCEPT !.us[Listener].errnum = FALSE]
             m == UsockMove(CloseFd(f, Listener), Listener, "IDLE")
             k == EpMove(m, "CLOSING")
  <2>1. CASE o.us[Listener].st = "IDLE"
    <3>1. p = o /\ o.failed # Nil
      BY <1>1, <2>1 DEF UsockStop
    <3> HIDE DEF o, p
    <3>2. y.failed = o.failed
      BY <1>0, <1>3, <1>5, <3>1, MovedEp DEF p, Rest
    <3> QED BY <3>1, <3>2 DEF Safe
  <2>2. CASE o.us[Listener].st = "STARTING"
    <3>1. p = UsockRaise(m, Listener, "STOPPED")
      BY <2>2 DEF UsockStop, UsockStopped
    <3>2. Peer \in Conns /\ Listener \in Socks /\ FALSE \in BOOLEAN
          /\ \A d \in Conns : d \in Socks \ {Listener}
      BY PeerIs, Names
    <3>3. Opened(o, f) /\ f \in World
      <4> HIDE DEF o
      <4>1. Opened(o, f)
        BY <1>0, <1>3, <3>2, OpenedSet
      <4> QED BY <4>1 DEF Opened
    <3> HIDE DEF f, o
    <3> DEFINE g == CloseFd(f, Listener)
    <3>4. Opened(f, g) /\ g \in World
      <4>1. Opened(f, g)
        BY <1>0, <3>2, <3>3, OpenedSet DEF CloseFd
      <4> QED BY <4>1 DEF Opened
    <3>5. Opened(g, m) /\ m.us[Listener].st = "IDLE"
      <4> HIDE DEF g
      <4>1. m = UsockMove(g, Listener, "IDLE")
        BY DEF g
      <4> HIDE DEF m
      <4> QED BY <1>0, <3>2, <3>4, <4>1, OpenedSet
    <3> HIDE DEF g
    <3>6. Opened(o, f) /\ Opened(f, g)
      BY <3>3, <3>4
    <3>7. Opened(x, m) /\ m \in World
      <4>1. Opened(o, m)
        BY <3>5, <3>6, OpenedTrans
      <4>2. Opened(x, m)
        BY <1>1, <4>1, OpenedTrans
      <4> QED BY <4>2 DEF Opened
    <3> HIDE DEF m, p
    <3>8. m.ep \in States /\ m.ep = x.ep
      BY <1>0, <3>7, Has DEF Opened, SameEp
    <3>9. PICK q : q = EpMove(m, m.ep)
      OBVIOUS
    <3>10. q = m
      BY <3>7, <3>9 DEF EpMove, World
    <3>11. Core(m) /\ m.role = "bind" /\ m.ep # "ACTIVE"
      <4>1. Opened(x, m) /\ m.us[Listener].st \in {"IDLE", "LISTENING"} /\ m.ep \in States
            /\ (m.us[Listener].st # "IDLE" => m.ep = "ACTIVE")
        BY <3>5, <3>7, <3>8
      <4>2. Core(q) /\ Mute(q) /\ q.role = "bind" /\ q.ep = m.ep /\ q.failed = m.failed
        BY <1>0, <3>9, <4>1, OpenedCore
      <4> QED BY <3>8, <3>10, <4>2
    <3>12. Moved(m, p, m.ep) /\ p \in World
      <4>1. m.us[Listener].owner \in UsOwners
        BY <3>2, <3>7, UsRec
      <4>2. m.us[Listener].owner \in Owners /\ m.us[Listener].owner.src \notin {"STCP", "ATCP"}
        BY <4>1 DEF UsOwners, Owners, Sources
      <4>3. Listener \in Ptrs /\ "STOPPED" \in SessTypes
        BY Names DEF SessTypes, EventTypes
      <4>4. Quiet(m, p)
        BY <3>1, <3>7, <4>2, <4>3, RaiseQuiet DEF UsockRaise
      <4> QED BY <4>4, MovedIs DEF Quiet
    <3>13. Moved(p, y, "CLOSING")
      <4>1. y = EpMove(p, "CLOSING")
        BY <1>5 DEF p
      <4> QED BY <1>0, <3>12, <4>1, EpMoveIs
    <3>14. Moved(m, y, "CLOSING")
      BY <3>7, <3>12, <3>13, MovedTrans
    <3> QED BY <3>11, <3>14, BindMoved
  <2> QED BY <1>1, <2>1, <2>2
<1>6. ASSUME y \in BtcpStartAccepting(EpMove(n, "ACTIVE")) PROVE Safe(y)
  <2> HIDE DEF n
  <2>1. PICK z : z = EpMove(n, "ACTIVE")
    OBVIOUS
  <2>2. Core(z) /\ Mute(z) /\ z.role = "bind" /\ z.ep = "ACTIVE" /\ z.failed = n.failed
    BY <1>0, <1>4, <2>1, OpenedCore
  <2> QED BY <1>6, <2>1, <2>2, StartAcceptingSafe
<1>7. \/ y = BackoffWait(x) \/ y = EpMove(UsockStop(o, Listener), "CLOSING")
      \/ y \in BtcpStartAccepting(EpMove(n, "ACTIVE"))
  BY DEF BtcpStartListening
<1> QED BY <1>2, <1>5, <1>6, <1>7


LEMMA TakenPhases ==
  ASSUME NEW x0, Core(x0), PhasesOk(x0), x0.events # <<>>, ~Telling(x0, Head(x0.events)),
         NEW x, x = Taken(x0)
  PROVE  PhasesOk(x)
<1>1. x0 \in World
  BY DEF Core
<1>2. x.role = x0.role /\ x.ep = x0.ep /\ x.cur = x0.cur
  BY <1>1, TakenIs DEF SameEp
<1>3. ASSUME x0.cur \in Conns, Phase(x0, x0.cur) PROVE Phase(x, x0.cur)
  BY <1>1, <1>3, TakenPhase
<1> QED BY <1>2, <1>3 DEF PhasesOk

LEMMA BadSafe ==
  ASSUME NEW x \in World, NEW f \in Failures \ {Nil}, NEW y \in Bad(x, f)
  PROVE  Safe(y)
BY FailSafe DEF Bad

(* The events of the connections. *)
LEMMA BtcpActiveSafe ==
  ASSUME NEW x0, Core(x0), PhasesOk(x0), x0.role = "bind", x0.ep = "ACTIVE", x0.events # <<>>,
         NEW e, e = Head(x0.events), e.src = "ATCP",
         NEW x, x = Taken(x0), NEW y \in BtcpActive(x, e)
  PROVE  Safe(y)
<1>1. x0 \in World /\ EventsOk(x0)
  BY DEF Core
<1>2. x.cur = x0.cur /\ x.atcp = x0.atcp /\ x.role = "bind"
  BY <1>1, TakenIs DEF SameEp
<1>3. Core(x) /\ x \in World
  BY TakenCore DEF Core
<1>4. e.ptr \in Conns /\ e.to = "ep"
  <2>1. 1 \in 1..Len(x0.events) /\ e = x0.events[1]
    BY <1>1, TakenIs
  <2> QED BY <1>1, <2>1 DEF EventsOk, Routed
<1>5. "btcp: bad event" \in Failures \ {Nil}
  BY Sites
<1>6. CASE e.ptr = x.cur
  <2>1. CASE e.type = "ACCEPTED"
    <3>1. y \in BtcpStartAccepting([x EXCEPT !.list = @ \cup {x.cur}, !.cur = Nil])
      BY <1>6, <2>1 DEF BtcpActive
    <3> QED BY <1>2, <1>6, <2>1, <3>1, AcceptedOneSafe
  <2>2. CASE e.type # "ACCEPTED"
    <3>1. y \in Bad(x, "btcp: bad event")
      BY <1>6, <2>2 DEF BtcpActive
    <3> QED BY <1>3, <1>5, <3>1, BadSafe
  <2> QED BY <2>1, <2>2
<1>7. CASE e.ptr # x.cur
  <2>0. /\ \/ e.type = "ERROR" /\ y = AcceptorStop(x, e.ptr)
           \/ e.type = "STOPPED" /\ y = AtcpGone(x, e.ptr)
           \/ y \in Bad(x, "btcp: bad event")
    BY <1>7 DEF BtcpActive
  <2> SUFFICES ASSUME e.type \in {"ERROR", "STOPPED"}, y.failed = Nil PROVE Core(y) /\ PhasesOk(y)
    BY <1>3, <1>5, <2>0, BadSafe DEF Safe
  <2>1. PhasesOk(x)
    <3>1. ~Telling(x0, e)
      BY <1>4 DEF Telling
    <3> QED BY <3>1, TakenPhases
  <2>2. Keeps(x, y)
    <3>1. CASE y \in Bad(x, "btcp: bad event")
      BY <1>3, <1>5, <3>1, FailIs DEF Bad
    <3>2. CASE e.type = "STOPPED" /\ y = AtcpGone(x, e.ptr)
      BY <1>2, <1>3, <1>4, <1>7, <3>2, GoneKeeps
    <3>3. CASE e.type = "ERROR" /\ y = AcceptorStop(x, e.ptr)
      <4>1. Pending(x0, "ATCP", e.ptr, "ERROR") /\ ~Pending(x, "ATCP", e.ptr, "ERROR")
        BY <1>1, <3>3, TakenPending
      <4>2. x.atcp[e.ptr] = "DONE"
        BY <1>2, <1>4, <4>1 DEF Core, AtcpOk
      <4> QED BY <1>2, <1>3, <1>4, <3>3, <4>1, <4>2, AtcpStopKeeps
    <3> QED BY <2>0, <3>1, <3>2, <3>3
  <2> QED BY <2>1, <2>2 DEF Keeps
<1> QED BY <1>6, <1>7

(* btcp.c, bipc.c: every event of a bound endpoint.                        *)
LEMMA BindHandlerSafe ==
  ASSUME NEW x0, Core(x0), PhasesOk(x0), x0.role = "bind", x0.events # <<>>,
         NEW e, e = Head(x0.events),
         NEW x, x = Taken(x0), NEW y \in BtcpHandler(x, e) \cup BipcHandler(x, e)
  PROVE  Safe(y)
<1>1. x0 \in World
  BY DEF Core
<1>2. x.ep = x0.ep /\ x.role = "bind"
  BY <1>1, TakenIs DEF SameEp
<1>3. Core(x) /\ x \in World
  BY TakenCore DEF Core
<1>4. y \in BtcpHandler(x, e)
  BY DEF BipcHandler
<1>5. CASE x.ep = "ACTIVE" /\ e.src = "ATCP"
  <2>1. y \in BtcpActive(x, e)
    BY <1>4, <1>5 DEF BtcpHandler
  <2> QED BY <1>2, <1>5, <2>1, BtcpActiveSafe
<1>6. CASE x.ep = "CLOSING" /\ e.src = "USOCK" /\ e.type = "STOPPED"
  <2>1. y = BackoffWait(x)
    BY <1>4, <1>6 DEF BtcpHandler
  <2> QED BY <1>2, <1>3, <1>6, <2>1, BackoffWaitIs, BindMoved
<1>7. CASE ~(x.ep = "ACTIVE" /\ e.src = "ATCP")
           /\ ~(x.ep = "CLOSING" /\ e.src = "USOCK" /\ e.type = "STOPPED")
  <2>1. y \in BackoffOver(x, e, BtcpStartListening(x))
    BY <1>4, <1>7 DEF BtcpHandler
  <2>2. \/ Moved(x, y, "STOPPING_BACKOFF") /\ x.ep = "WAITING"
        \/ y \in BtcpStartListening(x) /\ x.ep = "STOPPING_BACKOFF"
        \/ y \in World /\ y.failed # Nil
    BY <1>3, <2>1, BackoffOverIs
  <2>3. CASE Moved(x, y, "STOPPING_BACKOFF") /\ x.ep = "WAITING"
    BY <1>2, <1>3, <2>3, BindMoved
  <2>4. CASE y \in BtcpStartListening(x) /\ x.ep = "STOPPING_BACKOFF"
    BY <1>2, <1>3, <2>4, StartListeningSafe
  <2> QED BY <2>2, <2>3, <2>4 DEF Safe
<1> QED BY <1>5, <1>6, <1>7


(***************************************************************************)
(* An accepted connection: every event of its own.                         *)
(***************************************************************************)
LEMMA SessCore ==
  ASSUME NEW x, Core(x), NEW y, NEW c \in Conns, Sess(x, y, c), y.failed = Nil, LinkOk(y, c)
  PROVE  Core(y) /\ (PhasesOk(x) => PhasesOk(y))
<1>1. x \in World /\ y \in World /\ Running(y)
  BY DEF Core, Sess, SameEp, Running
<1>2. EventsOk(y) /\ ListenerOk(y)
  BY <1>1, SessEvents, SessListener DEF Core
<1>3. \A d \in Conns : AtcpOk(y, d)
  BY <1>1, SessAtcp DEF Core
<1>4. \A d \in Conns : LinkOk(y, d)
  BY <1>1, SessOtherLink DEF Core
<1>5. CountsOk(y)
  BY <1>1, SessCounts DEF Core, CountsOk
<1> QED BY <1>1, <1>2, <1>3, <1>4, <1>5, SessPhases DEF Core

LEMMA TakenBind ==    \* what the other events of an atcp leave
  ASSUME NEW x0, Core(x0), PhasesOk(x0), x0.events # <<>>,
         NEW e, e = Head(x0.events), e.to = "atcp", NEW x, x = Taken(x0)
  PROVE  /\ Core(x) /\ x \in World /\ x0 \in World /\ e.of \in Conns
         /\ x.role = x0.role /\ x.ep = x0.ep /\ x.cur = x0.cur /\ x.atcp = x0.atcp
         /\ x.us = x0.us /\ x.stcp = x0.stcp /\ x.failed = x0.failed
         /\ EventsOk(x0) /\ Routed(x0, e)
         /\ x.atcp[e.of] # "ACCEPTING" => PhasesOk(x)
<1>1. x0 \in World /\ EventsOk(x0)
  BY DEF Core
<1>2. x.role = x0.role /\ x.ep = x0.ep /\ x.cur = x0.cur /\ x.atcp = x0.atcp
      /\ x.us = x0.us /\ x.stcp = x0.stcp /\ x.failed = x0.failed
  BY <1>1, TakenIs DEF SameEp, SameParts
<1>3. Core(x) /\ x \in World
  BY TakenCore DEF Core
<1>4. Routed(x0, e)
  <2>1. 1 \in 1..Len(x0.events) /\ e = x0.events[1]
    BY <1>1, TakenIs
  <2> QED BY <1>1, <2>1 DEF EventsOk
<1>5. e.of \in Conns
  <2>1. e \in Events
    BY <1>1, TakenIs
  <2> QED BY <2>1 DEF Events, ToOne
<1>6. ASSUME x.atcp[e.of] # "ACCEPTING" PROVE PhasesOk(x)
  <2>1. ~Telling(x0, e)
    BY <1>2, <1>4, <1>6 DEF Telling, Routed
  <2> QED BY <2>1, TakenPhases
<1> QED BY <1>1, <1>2, <1>3, <1>4, <1>5, <1>6

(* Its session stopped: it stops its socket. *)
LEMMA SessionOverKeeps ==
  ASSUME NEW x, Core(x), x.role = "bind", NEW c \in Conns, x.atcp[c] = "STOPPING_STCP",
         x.stcp[c].st = "IDLE", ~Pending(x, "STCP", c, "STOPPED"),
         NEW y, y = UsockStop(AtcpMove(x, c, "STOPPING_USOCK"), c), y.failed = Nil
  PROVE  Keeps(x, y)
<1>1. PICK m : m = AtcpMove(x, c, "STOPPING_USOCK")
  OBVIOUS
<1>2. "STOPPING_USOCK" \in AtcpStates /\ AtcpOk(x, c)
  BY DEF AtcpStates, Core
<1>3. Due(x, c, "STOPPING_USOCK") /\ Kept(x, m, c)
  BY <1>2, DueIs DEF Kept
<1>4. Core(m) /\ (PhasesOk(x) => PhasesOk(m)) /\ m.atcp[c] = "STOPPING_USOCK"
  BY <1>1, <1>2, <1>3, ShiftKeeps
<1>5. Stoppable(m, c) /\ m \in World
  BY <1>4, AtcpStoppable DEF Core
<1>6. UsOp(m, y, c)
  BY <1>1, <1>5, UsockStopOp
<1>7. Keeps(m, y)
  BY <1>4, <1>6, UsOpKeeps
<1> QED BY <1>4, <1>7 DEF Keeps

(* Its socket stopped: it is done, and says so. *)
LEMMA SocketOverKeeps ==
  ASSUME NEW x, Core(x), x.role = "bind", NEW c \in Conns, x.atcp[c] = "STOPPING_USOCK",
         NEW y, y = Raise(AtcpMove(x, c, "DONE"), EpOwner("ATCP"), c, "ERROR"), y.failed = Nil
  PROVE  Keeps(x, y)
<1>1. PICK m : m = AtcpMove(x, c, "DONE")
  OBVIOUS
<1>2. "DONE" \in AtcpStates /\ AtcpOk(x, c) /\ LinkOk(x, c) /\ "ERROR" \in SessTypes
  BY DEF AtcpStates, Core, SessTypes, EventTypes
<1>3. Due(x, c, "DONE") /\ Kept(x, m, c)
  BY <1>2, DueIs, KeptShift
<1>4. Core(m) /\ (PhasesOk(x) => PhasesOk(m)) /\ m.atcp[c] = "DONE"
  BY <1>1, <1>2, <1>3, ShiftKeeps
<1>5. m.role = "bind"
  BY <1>1, <1>2, ShiftedIs DEF Core
<1>6. Core(y) /\ (PhasesOk(m) => PhasesOk(y))
  BY <1>1, <1>2, <1>4, <1>5, AtcpRaiseKeeps
<1> QED BY <1>4, <1>6 DEF Keeps


(* A connection is counted, or no longer counted. *)
LEMMA RecountedIs ==
  ASSUME NEW x, Core(x), x.role = "bind", NEW c \in Conns, NEW s \in AtcpStates,
         NEW a, Wide(x, a), a.failed = Nil, Still(x, a), a.ep = x.ep, GaugesOk(a), Due(a, c, s),
         a.stat["current"] = x.stat["current"],
         a.stat["alive"] = x.stat["alive"] - On(x.atcp[c] = "ACTIVE") + On(s = "ACTIVE"),
         NEW m, m = AtcpMove(a, c, s)
  PROVE  /\ Frame(m) /\ Links(m, Conns \ {c}) /\ CountsOk(m)
         /\ LinkOk(a, c) /\ a.role = "bind" /\ Shifted(a, m, c, s)
         /\ m.role = "bind" /\ m.ep = x.ep /\ m.cur = x.cur /\ m.us[Listener] = x.us[Listener]
         /\ x.atcp[c] # "ACCEPTING" /\ PhasesOk(x) => PhasesOk(m)
<1>1. x \in World /\ a \in World /\ Frame(x) /\ Links(x, Conns) /\ CountsOk(x)
  BY CoreIs DEF Frame, Wide
<1>2. a.role = "bind" /\ a.us[Listener] = x.us[Listener]
  BY DEF Wide, Places
<1>3. Frame(a)
  <2>1. x.us[Listener].st # "IDLE" => a.ep = "ACTIVE"
    BY <1>1 DEF Frame, ListenerOk
  <2> QED BY <1>1, <2>1, WideFrame
<1>4. Links(a, Conns)
  <2>1. \A d \in Conns : Kept(x, a, d)
    BY <1>1, <1>2, KeptIs DEF Attached, Breaking, Still, Links
  <2> QED BY <1>1, <2>1, WideLink DEF Links, Kept
<1>5. Shifted(a, m, c, s)
  BY <1>1, ShiftedIs
<1>6. Frame(m)
  BY <1>2, <1>3, <1>5, ShiftFrame
<1>7. Links(m, Conns \ {c})
  BY <1>2, <1>4, <1>5, ShiftLink DEF Links
<1>8. CountsOk(m)
  <2>1. AliveOf(m) = AliveOf(a) - On(a.atcp[c] = "ACTIVE") + On(s = "ACTIVE")
        /\ AliveOf(a) \in Int /\ PipesOf(m) = PipesOf(a)
    BY <1>1, <1>2, <1>5, ShiftAlive
  <2>2. AliveOf(a) = AliveOf(x) /\ a.atcp = x.atcp
    BY <1>2 DEF AliveOf, Still
  <2>3. PipesOf(a) = PipesOf(x)
    BY WidePipes
  <2>4. m.stat = a.stat /\ GaugesOk(m)
    BY <1>5 DEF Shifted, Rest, GaugesOk
  <2> QED BY <1>1, <2>1, <2>2, <2>3, <2>4 DEF CountsOk
<1>9. m.role = "bind" /\ m.ep = x.ep /\ m.cur = x.cur /\ m.us[Listener] = x.us[Listener]
  BY <1>2, <1>5 DEF Shifted, Rest, Still
<1>10. ASSUME x.atcp[c] # "ACCEPTING", PhasesOk(x) PROVE PhasesOk(m)
  <2>1. PhasesOk(a)
    <3>1. ASSUME x.cur \in Conns, Phase(x, x.cur) PROVE Phase(a, x.cur)
      BY <1>1, <3>1, WidePhase
    <3> QED BY <1>2, <1>10, <3>1 DEF PhasesOk, Still
  <2>2. a.atcp[c] # "ACCEPTING"
    BY <1>10 DEF Still
  <2> QED BY <1>5, <2>1, <2>2, ShiftPhases
<1> QED BY <1>2, <1>4, <1>5, <1>6, <1>7, <1>8, <1>9, <1>10 DEF Links

(* It broke: its session is told to stop. *)
LEMMA AcceptedBrokeKeeps ==
  ASSUME NEW x, Core(x), x.role = "bind", NEW c \in Conns, x.atcp[c] = "ACTIVE",
         NEW y, y = SessionStop(AtcpMove(Broken(x), c, "STOPPING_STCP"), c), y.failed = Nil
  PROVE  Keeps(x, y)
<1>1. PICK a : a = Broken(x)
  OBVIOUS
<1>2. PICK m : m = AtcpMove(a, c, "STOPPING_STCP")
  OBVIOUS
<1>3. x \in World /\ "STOPPING_STCP" \in AtcpStates /\ LinkOk(x, c) /\ AtcpOk(x, c)
      /\ {"inprogress", "alive", "current", "errors"} \subseteq Stats
  BY DEF Core, AtcpStates, Stats
<1>4. Bumped(x, a, "alive", -1) /\ a \in World
  BY <1>1, <1>3, StatBumped DEF Broken, Bumped, Wide
<1>5. Shifted(a, m, c, "STOPPING_STCP") /\ m \in World /\ m.failed = a.failed
  BY <1>2, <1>3, <1>4, ShiftedIs
<1>6. Sess(m, y, c) /\ y \in World
  BY <1>1, <1>2, <1>5, SessionStopIs, SessWorld
<1>7. /\ y = m /\ m.stcp[c].st \in {"IDLE", "STOPPING"}
      \/ /\ m.stcp[c].st \in Live /\ y.pipe[c].st = "IDLE"
         /\ y.stcp[c].st = "STOPPING" \/ (y.stcp[c].st = "IDLE" /\ Restful(y, c))
         /\ y.stcp[c].st = "STOPPING" => NoStop(m, y)
  BY <1>1, <1>2, <1>5, SessionStopIs
<1>8. m.failed = Nil /\ a.failed = Nil
  BY <1>5, <1>6, SessWorld
<1>9. Wide(x, a) /\ Still(x, a) /\ a.ep = x.ep /\ a.error = x.error /\ a.role = "bind"
      /\ a.stat["alive"] = x.stat["alive"] + (-1) /\ \A n \in Stats \ {"alive"} : a.stat[n] = x.stat[n]
  BY <1>4, <1>8 DEF Bumped, Wide, Places
<1>10. GaugesOk(a) /\ a.stat["current"] = x.stat["current"]
  BY <1>3, <1>9 DEF Core, CountsOk, GaugesOk
<1>11. Due(a, c, "STOPPING_STCP")
  <2>1. \A type \in {"ERROR", "STOPPED"} : Pending(a, "ATCP", c, type) => Pending(x, "ATCP", c, type)
    BY <1>3, <1>8, <1>9, WidePending DEF Pending, Foreign
  <2>2. a.us[c].st # "BEING_ACCEPTED"
    BY <1>3, <1>8, <1>9 DEF Wide, Places, Usable, AtcpOk
  <2> QED BY <1>3, <2>1, <2>2 DEF Due, AtcpOk
<1>12. a.stat["alive"] = x.stat["alive"] - On(x.atcp[c] = "ACTIVE") + On("STOPPING_STCP" = "ACTIVE")
  <2>1. x.stat["alive"] \in Int
    BY <1>3, Has
  <2> QED BY <1>9, <2>1 DEF On
<1>13. /\ Frame(m) /\ Links(m, Conns \ {c}) /\ CountsOk(m)
       /\ LinkOk(a, c) /\ a.role = "bind" /\ Shifted(a, m, c, "STOPPING_STCP")
       /\ m.role = "bind" /\ m.ep = x.ep /\ m.cur = x.cur /\ m.us[Listener] = x.us[Listener]
       /\ x.atcp[c] # "ACCEPTING" /\ PhasesOk(x) => PhasesOk(m)
  BY <1>2, <1>3, <1>8, <1>9, <1>10, <1>11, <1>12, RecountedIs
<1>14. m.stcp[c].st # "STOPPING" /\ ~Pending(m, "STCP", c, "STOPPED")
       /\ (m.stcp[c].st = "IDLE" => Restful(m, c)) /\ PipeOk(m, c)
  <2>1. ~Breaking(a, c)
    BY <1>9 DEF Breaking, Still
  <2>2. a.stcp[c].st # "STOPPING" /\ ~Pending(a, "STCP", c, "STOPPED")
        /\ (a.stcp[c].st = "IDLE" => Restful(a, c)) /\ PipeOk(a, c)
    BY <1>13, <2>1 DEF LinkOk
  <2>3. /\ m.stcp = a.stcp /\ m.hdr = a.hdr /\ m.us = a.us /\ m.pipe = a.pipe /\ m.events = a.events
        /\ m.role = a.role
    BY <1>13 DEF Shifted, Rest
  <2> QED BY <2>2, <2>3 DEF Restful, PipeOk, End, Pending
<1>15. y.role = "bind" /\ y.ep = m.ep /\ y.atcp = m.atcp /\ Breaking(y, c)
  <2>1. y.role = "bind" /\ y.ep = m.ep /\ y.atcp = m.atcp
    BY <1>6, <1>13 DEF Sess, SameEp
  <2> QED BY <1>13, <2>1 DEF Breaking, Shifted
<1>16. LinkOk(y, c)
  <2>1. CASE y = m /\ m.stcp[c].st = "IDLE"
    BY <1>14, <1>15, <2>1 DEF LinkOk
  <2>2. CASE y.pipe[c].st = "IDLE" /\ y.stcp[c].st = "IDLE" /\ Restful(y, c)
    BY <1>15, <2>2 DEF LinkOk, PipeOk
  <2>3. CASE y.pipe[c].st = "IDLE" /\ y.stcp[c].st = "STOPPING" /\ NoStop(m, y)
    <3>1. ~Pending(y, "STCP", c, "STOPPED")
      BY <1>5, <1>6, <1>14, <2>3, SessPending DEF Pending, NoStop
    <3> QED BY <1>15, <2>3, <3>1 DEF LinkOk, PipeOk
  <2> QED BY <1>7, <1>14, <2>1, <2>2, <2>3
<1>17. ASSUME NEW d \in Conns \ {c} PROVE LinkOk(y, d)
  BY <1>5, <1>6, <1>13, SessOtherLink DEF Links
<1>18. Frame(y)
  BY <1>6, <1>13, SessFrame
<1>19. CountsOk(y)
  BY <1>5, <1>6, <1>13, SessCounts DEF CountsOk
<1>20. Core(y)
  BY <1>16, <1>17, <1>18, <1>19, CoreIs DEF Links
<1>21. PhasesOk(x) => PhasesOk(y)
  BY <1>5, <1>6, <1>13, SessPhases
<1> QED BY <1>20, <1>21 DEF Keeps


(* atcp.c:180-217: the connection that arrived.                            *)
LEMMA ClearUs ==
  ASSUME NEW x \in World
  PROVE  ClearError(x).us = x.us
<1>1. [x EXCEPT !.error = FALSE] \in World /\ [x EXCEPT !.error = FALSE].us = x.us
  <2>1. \A b \in BOOLEAN : [x EXCEPT !.error = b] \in World
    BY Put
  <2>2. [x EXCEPT !.error = FALSE].us = x.us
    BY DEF World
  <2> QED BY <2>1, <2>2
<1>2. StatIncrement([x EXCEPT !.error = FALSE], "errors", -1).us = x.us
  BY <1>1, StatUs
<1> QED BY <1>2 DEF ClearError

(* The connection that arrived is counted, and its listener given back. *)
LEMMA ArrivedCounted ==
  ASSUME NEW x, Core(x), x.role = "bind", NEW c \in Conns, x.atcp[c] = "ACCEPTING",
         x.us[c].st = "ACCEPTED",
         NEW m, m = AtcpMove(StatIncrement(ClearError(ReturnListener(x)), "alive", 1), c, "ACTIVE"),
         m.failed = Nil
  PROVE  /\ Core(m) /\ m.role = "bind" /\ m.ep = x.ep /\ m.cur = x.cur /\ m.atcp[c] = "ACTIVE"
         /\ m.us[Listener].st = x.us[Listener].st
<1>1. PICK r : r = ReturnListener(x)
  OBVIOUS
<1>2. PICK k : k = ClearError(r)
  OBVIOUS
<1>3. PICK a : a = StatIncrement(k, "alive", 1)
  OBVIOUS
<1>4. /\ Core(r) /\ Rest(x, r) /\ r.ep = x.ep /\ r.cur = x.cur /\ r.atcp = x.atcp
      /\ r.us[Listener].st = x.us[Listener].st
      /\ \A d \in Conns : r.us[d] = x.us[d]
  BY <1>1, ReturnedCore
<1>5. r \in World /\ r.role = "bind" /\ AtcpOk(r, c) /\ CountsOk(r)
      /\ "ACTIVE" \in AtcpStates /\ {"inprogress", "alive", "current", "errors"} \subseteq Stats
  BY <1>4 DEF Core, AtcpStates, Stats, Rest
<1>6. Erred(r, k, FALSE) /\ k \in World
  BY <1>2, <1>5, ErrorIs DEF Erred, Wide
<1>7. Bumped(k, a, "alive", 1) /\ a \in World
  BY <1>3, <1>5, <1>6, StatBumped DEF Bumped, Wide
<1>8. Shifted(a, m, c, "ACTIVE") /\ m.failed = a.failed
  BY <1>1, <1>2, <1>3, <1>5, <1>7, ShiftedIs
<1>9. a.failed = Nil /\ k.failed = Nil
  BY <1>7, <1>8 DEF Bumped, Wide
<1>10. Wide(k, a) /\ a.ep = k.ep /\ Still(k, a) /\ a.error = k.error
       /\ a.stat["alive"] = k.stat["alive"] + 1
       /\ \A n \in Stats \ {"alive"} : a.stat[n] = k.stat[n]
  BY <1>7, <1>9 DEF Bumped
<1>11. Wide(r, k) /\ k.ep = r.ep /\ Still(r, k) /\ (ErrorGauge(r) => ErrorGauge(k))
       /\ \A n \in Stats \ {"errors"} : k.stat[n] = r.stat[n]
  BY <1>6, <1>9 DEF Erred
<1>12. Wide(r, a) /\ Still(r, a) /\ a.ep = r.ep
  <2>1. Wide(r, a)
    BY <1>5, <1>10, <1>11, WideTrans
  <2> QED BY <1>10, <1>11, <2>1 DEF Still
<1>13. a.role = "bind"
  BY <1>5, <1>9, <1>12 DEF Wide, Places
<1>14. GaugesOk(a) /\ a.stat["current"] = r.stat["current"]
  <2>1. ErrorGauge(a)
    <3>1. ErrorGauge(k)
      BY <1>5, <1>11 DEF CountsOk, GaugesOk, ErrorGauge
    <3>2. a.stat["errors"] = k.stat["errors"]
      BY <1>5, <1>10
    <3> QED BY <1>10, <3>1, <3>2 DEF ErrorGauge
  <2>2. a.stat["inprogress"] = r.stat["inprogress"] /\ a.stat["current"] = r.stat["current"]
    BY <1>5, <1>10, <1>11
  <2> QED BY <1>5, <1>13, <2>1, <2>2 DEF CountsOk, GaugesOk, ErrorGauge
<1>15. a.stat["alive"] = r.stat["alive"] - On(r.atcp[c] = "ACTIVE") + On("ACTIVE" = "ACTIVE")
  <2>1. r.stat["alive"] \in Int
    BY <1>5, Has
  <2>2. a.stat["alive"] = r.stat["alive"] + 1
    BY <1>5, <1>10, <1>11
  <2> QED BY <1>4, <2>1, <2>2 DEF On
<1>16. Due(a, c, "ACTIVE")
  <2>1. \A type \in {"ERROR", "STOPPED"} : Pending(a, "ATCP", c, type) => Pending(r, "ATCP", c, type)
    BY <1>5, <1>9, <1>12, WidePending DEF Pending, Foreign
  <2>2. a.us = r.us
    <3>1. k.us = r.us
      BY <1>2, <1>5, ClearUs
    <3>2. a.us = k.us
      BY <1>3, <1>6, StatUs
    <3> QED BY <3>1, <3>2
  <2>3. a.us[c].st = "ACCEPTED"
    BY <1>4, <2>2
  <2> QED BY <1>4, <1>5, <2>1, <2>3 DEF Due, AtcpOk
<1>17. /\ Frame(m) /\ Links(m, Conns \ {c}) /\ CountsOk(m)
       /\ LinkOk(a, c) /\ a.role = "bind" /\ Shifted(a, m, c, "ACTIVE")
       /\ m.role = "bind" /\ m.ep = r.ep /\ m.cur = r.cur /\ m.us[Listener] = r.us[Listener]
       /\ r.atcp[c] # "ACCEPTING" /\ PhasesOk(r) => PhasesOk(m)
  <2>1. Core(r) /\ r.role = "bind" /\ c \in Conns /\ "ACTIVE" \in AtcpStates
        /\ m = AtcpMove(a, c, "ACTIVE")
    BY <1>1, <1>2, <1>3, <1>4, <1>5
  <2> QED BY <1>9, <1>12, <1>14, <1>15, <1>16, <2>1, RecountedIs
<1>18. LinkOk(m, c)
  <2>1. a.atcp[c] = "ACCEPTING"
    BY <1>4, <1>12 DEF Still
  <2>2. Kept(a, m, c)
    BY <1>17, <2>1, KeptShift
  <2> QED BY <1>17, <2>2, ShiftLink
<1>19. Core(m)
  BY <1>17, <1>18, CoreIs DEF Links
<1> QED BY <1>4, <1>17, <1>19 DEF Shifted

(* The endpoint is told, and the session starts. *)
LEMMA ArrivedSafe ==
  ASSUME NEW x0, Core(x0), PhasesOk(x0), x0.events # <<>>,
         NEW e, e = Head(x0.events), e.to = "atcp", NEW x, x = Taken(x0),
         NEW c, c = e.of, x.atcp[c] = "ACCEPTING", NEW y \in AtcpAccepted(x, c)
  PROVE  Safe(y)
<1> SUFFICES ASSUME y.failed = Nil PROVE Core(y) /\ PhasesOk(y)
  BY DEF Safe
<1>1. /\ Core(x) /\ x \in World /\ x0 \in World /\ c \in Conns
      /\ x.role = x0.role /\ x.ep = x0.ep /\ x.cur = x0.cur /\ x.atcp = x0.atcp
      /\ x.us = x0.us
  BY TakenBind
<1>2. AtcpOk(x, c) /\ AtcpOk(x0, c)
  BY <1>1 DEF Core
<1>3. x.role = "bind" /\ x.cur = c
  BY <1>2 DEF AtcpOk
<1>4. PICK m : m = AtcpMove(StatIncrement(ClearError(ReturnListener(x)), "alive", 1), c, "ACTIVE")
  OBVIOUS
<1>5. PICK t : t = Raise(m, EpOwner("ATCP"), c, "ACCEPTED")
  OBVIOUS
<1>6. PICK u : u = UsockActivate(t, c)
  OBVIOUS
<1>7. y \in SessionStart(u, c)
  BY <1>4, <1>5, <1>6 DEF AtcpAccepted
<1>8. m \in World
  <2>1. ReturnListener(x) \in World
    BY <1>1, <1>3, ReturnedCore DEF Core
  <2>2. ClearError(ReturnListener(x)) \in World
    BY <2>1, ErrorIs DEF Erred, Wide
  <2>3. "alive" \in Stats /\ "ACTIVE" \in AtcpStates
    BY DEF Stats, AtcpStates
  <2>4. StatIncrement(ClearError(ReturnListener(x)), "alive", 1) \in World
    BY <2>2, <2>3, StatBumped DEF Bumped, Wide
  <2> QED BY <1>1, <1>4, <2>3, <2>4, ShiftedIs
<1>9. "ACCEPTED" \in SessTypes /\ "ACCEPTED" \in EventTypes /\ EpOwner("ATCP") \in Owners /\ c \in Ptrs
  BY <1>1, EpOwners, Names DEF SessTypes, EventTypes, Sources
<1>10. t \in World /\ (t.failed = Nil => m.failed = Nil /\ SameEp(m, t) /\ SameParts(m, t))
  BY <1>5, <1>8, <1>9, RaiseIs
<1>11. UsOp(t, u, c) /\ u \in World
  BY <1>1, <1>6, <1>10, UsockActivateOp, UsOpWorld
<1>12. Sess(u, y, c) /\ u.failed = Nil
  BY <1>1, <1>7, <1>11, SessionStartIs, SessWorld
<1>13. /\ y.stcp[c].st = "PROTOHDR" /\ y.pipe[c].st = u.pipe[c].st
       /\ NoStop(u, y) /\ u.stcp[c].st = "IDLE"
  BY <1>1, <1>7, <1>11, SessionStartIs
<1>14. t.failed = Nil /\ t.us[c].st = "ACCEPTED"
  <2>1. t.failed = Nil
    BY <1>11, <1>12, BelowIs, UsOpWorld
  <2>2. ASSUME t.us[c].st # "ACCEPTED" PROVE FALSE
    <3>1. u = Fail(t, "usock: bad action")
      BY <1>6, <2>2 DEF UsockActivate
    <3>2. u.failed # Nil
      BY <1>10, <3>1, FailIs, Sites
    <3> QED BY <1>12, <3>2
  <2> QED BY <2>1, <2>2
<1>15. m.failed = Nil /\ SameEp(m, t) /\ SameParts(m, t)
  BY <1>10, <1>14
<1>16. x.us[c].st = "ACCEPTED"
  <2>1. m.us = ReturnListener(x).us
    <3>1. PICK r : r = ReturnListener(x)
      OBVIOUS
    <3>2. r \in World
      BY <1>1, <1>3, <3>1, ReturnedCore DEF Core
    <3>3. ClearError(r) \in World /\ ClearError(r).us = r.us
      BY <3>2, ErrorIs, ClearUs DEF Erred, Wide
    <3>4. StatIncrement(ClearError(r), "alive", 1).us = r.us
      BY <3>3, StatUs
    <3>5. "alive" \in Stats /\ "ACTIVE" \in AtcpStates
      BY DEF Stats, AtcpStates
    <3>6. StatIncrement(ClearError(r), "alive", 1) \in World
      BY <3>3, <3>5, StatBumped DEF Bumped, Wide
    <3>7. m.us = StatIncrement(ClearError(r), "alive", 1).us
      BY <1>1, <1>4, <3>1, <3>5, <3>6, AtcpMoveIs
    <3> QED BY <3>1, <3>4, <3>7
  <2>2. ReturnListener(x).us[c] = x.us[c]
    BY <1>1, <1>3, ReturnedCore
  <2>3. t.us = m.us
    BY <1>15 DEF SameParts
  <2> QED BY <1>14, <2>1, <2>2, <2>3
<1>17. /\ Core(m) /\ m.role = "bind" /\ m.ep = x.ep /\ m.cur = x.cur /\ m.atcp[c] = "ACTIVE"
       /\ m.us[Listener].st = x.us[Listener].st
  BY <1>1, <1>3, <1>4, <1>15, <1>16, ArrivedCounted
<1>18. /\ Core(t) /\ (PhasesOk(m) => PhasesOk(t)) /\ m.failed = Nil
       /\ SameEp(m, t) /\ SameParts(m, t) /\ Pending(t, "ATCP", c, "ACCEPTED")
  <2>1. c = m.cur /\ m.atcp[c] \notin {"FREE", "ACCEPTING"}
    BY <1>3, <1>17
  <2> QED BY <1>1, <1>5, <1>9, <1>14, <1>17, <2>1, AtcpRaiseKeeps
<1>19. PhasesOk(t)
  <2>1. t.cur = c /\ t.ep = x0.ep /\ t.us[Listener].st = x0.us[Listener].st
    BY <1>1, <1>3, <1>17, <1>18 DEF SameEp, SameParts
  <2>2. ASSUME x0.ep = "ACTIVE" PROVE x0.us[Listener].st = "LISTENING"
    <3>1. Phase(x0, c)
      BY <1>1, <1>3, <2>2 DEF PhasesOk
    <3>2. x0.us[c].st \notin Fresh
      BY <1>1, <1>16 DEF Fresh
    <3> QED BY <3>1, <3>2 DEF Phase, Await, Short, Arrived, Reported
  <2> QED BY <1>1, <1>18, <2>1, <2>2 DEF PhasesOk, Phase, Reported
<1>20. /\ Keeps(t, u) /\ t.failed = Nil /\ SameEp(t, u)
       /\ u.stcp[c].st = t.stcp[c].st
  BY <1>1, <1>11, <1>12, <1>18, UsOpKeeps
<1>21. Core(u) /\ PhasesOk(u)
  BY <1>19, <1>20 DEF Keeps
<1>22. u.role = "bind" /\ u.atcp[c] = "ACTIVE" /\ y.role = "bind" /\ y.atcp[c] = "ACTIVE"
  <2>1. SameEp(u, y)
    BY <1>12 DEF Sess
  <2> QED BY <1>17, <1>18, <1>20, <2>1 DEF SameEp
<1>23. LinkOk(u, c) /\ u.pipe[c].st # "ACTIVE" /\ ~Pending(u, "STCP", c, "STOPPED")
  <2>1. LinkOk(u, c)
    BY <1>1, <1>21 DEF Core
  <2> QED BY <1>13, <1>22, <2>1 DEF LinkOk, Breaking, PipeOk
<1>24. ~Pending(y, "STCP", c, "STOPPED")
  BY <1>1, <1>11, <1>12, <1>13, <1>23, SessPending DEF Pending, NoStop
<1>25. LinkOk(y, c)
  BY <1>13, <1>22, <1>23, <1>24 DEF LinkOk, Attached, PipeOk
<1>26. Core(y) /\ (PhasesOk(u) => PhasesOk(y))
  BY <1>1, <1>12, <1>21, <1>25, SessCore
<1> QED BY <1>21, <1>26


(* atcp.c:219-230: the listener was short of descriptors.                  *)
LEMMA SetUs ==
  ASSUME NEW x \in World
  PROVE  SetError(x).us = x.us
<1>1. \A b \in BOOLEAN : [x EXCEPT !.error = b] \in World
  BY Put
<1>2. [x EXCEPT !.error = TRUE] \in World /\ [x EXCEPT !.error = TRUE].us = x.us
  <2>1. [x EXCEPT !.error = TRUE].us = x.us
    BY DEF World
  <2> QED BY <1>1, <2>1
<1>3. StatIncrement([x EXCEPT !.error = TRUE], "errors", 1).us = x.us
  BY <1>2, StatUs
<1> QED BY <1>3 DEF SetError

(* The listener was short of descriptors: it tries again at once. *)
LEMMA ShortSafe ==
  ASSUME NEW x0, Core(x0), PhasesOk(x0), x0.events # <<>>,
         NEW e, e = Head(x0.events), e.to = "atcp", NEW x, x = Taken(x0),
         NEW c, c = e.of, x.atcp[c] = "ACCEPTING", e.type = "ACCEPT_ERROR",
         NEW y \in UsockAccept(SetError(x), c, Listener)
  PROVE  Safe(y)
<1> SUFFICES ASSUME y.failed = Nil PROVE Core(y) /\ PhasesOk(y)
  BY DEF Safe
<1>1. /\ Core(x) /\ x \in World /\ x0 \in World /\ c \in Conns
      /\ x.role = x0.role /\ x.ep = x0.ep /\ x.cur = x0.cur /\ x.atcp = x0.atcp
      /\ x.us = x0.us /\ EventsOk(x0) /\ Routed(x0, e)
  BY TakenBind
<1>2. AtcpOk(x, c) /\ ListenerOk(x0) /\ EventsOk(x) /\ CountsOk(x)
      /\ \A d \in Conns : LinkOk(x, d)
  BY <1>1 DEF Core
<1>3. x.role = "bind" /\ x.cur = c
  BY <1>2 DEF AtcpOk
<1>4. e.src = "LISTENER" /\ e.ptr = Listener /\ x0.us[Listener].st = "ACCEPTING_ERROR"
  BY <1>1 DEF Routed
<1>5. x.ep = "ACTIVE"
  BY <1>1, <1>2, <1>4 DEF ListenerOk
<1>6. x.us[c].st \in Fresh /\ x.us[Listener].owner = AtcpOwner(c, "LISTENER")
  <2>1. Phase(x0, c)
    BY <1>1, <1>3, <1>5 DEF PhasesOk
  <2> QED BY <1>1, <1>4, <2>1 DEF Phase, Await, Arrived, Short, Reported
<1>7. Mute(x)
  <2>1. ~Pending(x, "LISTENER", Listener, "ACCEPT_ERROR")
    BY <1>1, <1>4, TakenPending
  <2> QED BY <1>2, <2>1 DEF Mute, Pending, EventsOk, Routed
<1>8. PICK s : s = SetError(x)
  OBVIOUS
<1>9. s.us = x.us /\ Erred(x, s, TRUE) /\ s \in World
  BY <1>1, <1>8, SetUs, ErrorIs DEF Erred, Wide
<1>10. x.us[c].owner = AtcpOwner(c, "USOCK")
  BY <1>1, <1>3, AskingOwner
<1>11. s.failed = Nil
  <2>1. Outcome(s, y, c)
    <3>1. s.us[c].st \in Fresh /\ s.us[c].owner = AtcpOwner(c, "USOCK")
          /\ s.us[Listener].owner = AtcpOwner(c, "LISTENER")
      BY <1>6, <1>9, <1>10
    <3> QED BY <1>1, <1>8, <1>9, <3>1, UsockAcceptIs
  <2> QED BY <2>1 DEF Outcome, Accepts
<1>12. Wide(x, s) /\ s.ep = x.ep /\ Still(x, s) /\ (ErrorGauge(x) => ErrorGauge(s))
       /\ \A n \in Stats \ {"errors"} : s.stat[n] = x.stat[n]
  BY <1>9, <1>11 DEF Erred
<1>13. s.role = "bind"
  BY <1>3, <1>11, <1>12 DEF Wide, Places
<1>14. GaugesOk(s) /\ s.stat["alive"] = x.stat["alive"] /\ s.stat["current"] = x.stat["current"]
  <2>1. {"inprogress", "alive", "current", "errors"} \subseteq Stats
    BY DEF Stats
  <2>2. s.stat["inprogress"] = x.stat["inprogress"] /\ s.stat["alive"] = x.stat["alive"]
        /\ s.stat["current"] = x.stat["current"]
    BY <1>12, <2>1
  <2> QED BY <1>2, <1>3, <1>12, <1>13, <2>2 DEF CountsOk, GaugesOk, ErrorGauge
<1>15. Core(s)
  <2>1. \A d \in Conns : Kept(x, s, d)
    BY <1>2, <1>3, <1>12, <1>13, KeptIs DEF Attached, Breaking, Still
  <2>2. AliveOf(s) = AliveOf(x)
    BY <1>3, <1>12, <1>13 DEF AliveOf, Still
  <2>3. s.stat["alive"] = AliveOf(s)
    BY <1>2, <1>14, <2>2 DEF CountsOk
  <2> QED BY <1>1, <1>5, <1>11, <1>12, <1>14, <2>1, <2>3, WideKeeps
<1>16. Mute(s)
  BY <1>1, <1>7, <1>11, <1>12, WidePending DEF Mute, Foreign
<1>17. Asking(s, c)
  BY <1>1, <1>3, <1>5, <1>6, <1>9, <1>12, <1>13, <1>15, <1>16 DEF Asking, Still
<1>18. Safe(y)
  BY <1>1, <1>8, <1>17, AcceptSafe
<1> QED BY <1>18 DEF Safe

LEMMA KeepsSafe ==
  ASSUME NEW x, NEW y, PhasesOk(x), y.failed = Nil => Keeps(x, y)
  PROVE  Safe(y)
BY DEF Safe, Keeps

(* atcp.c: every event of an accepted connection.                          *)
LEMMA AtcpHandlerSafe ==
  ASSUME NEW x0, Core(x0), PhasesOk(x0), x0.events # <<>>,
         NEW e, e = Head(x0.events), e.to = "atcp", NEW x, x = Taken(x0),
         NEW y \in AtcpHandler(x, e.of, e) \cup AipcHandler(x, e.of, e)
  PROVE  Safe(y)
<1>1. PICK c : c = e.of
  OBVIOUS
<1>2. /\ Core(x) /\ x \in World /\ x0 \in World /\ c \in Conns
      /\ x.role = x0.role /\ x.ep = x0.ep /\ x.cur = x0.cur /\ x.atcp = x0.atcp
      /\ x.us = x0.us /\ x.stcp = x0.stcp /\ x.failed = x0.failed
      /\ EventsOk(x0) /\ Routed(x0, e)
      /\ x.atcp[c] # "ACCEPTING" => PhasesOk(x)
  BY <1>1, TakenBind
<1>3. x.role = "bind" \/ x.atcp[c] = "FREE"
  <2>1. AtcpOk(x, c) /\ x.role \in {"bind", "connect"}
    BY <1>2, Has DEF Core
  <2> QED BY <2>1 DEF AtcpOk
<1>4. CASE x.atcp[c] \in Ended /\ y = AtcpStopping(x, c)
  <2>1. y.failed = Nil => Keeps(x, y)
    BY <1>2, <1>3, <1>4, AtcpStoppingKeeps DEF Ended
  <2> QED BY <1>2, <1>4, <2>1, KeepsSafe DEF Ended
<1>5. CASE x.atcp[c] = "ACCEPTING" /\ y \in AtcpAccepted(x, c)
  BY <1>1, <1>5, ArrivedSafe
<1>6. CASE x.atcp[c] = "ACCEPTING" /\ e.type = "ACCEPT_ERROR"
           /\ y \in UsockAccept(SetError(x), c, Listener)
  BY <1>1, <1>6, ShortSafe
<1>7. CASE x.atcp[c] = "ACTIVE" /\ y = SessionStop(AtcpMove(Broken(x), c, "STOPPING_STCP"), c)
  <2>1. y.failed = Nil => Keeps(x, y)
    BY <1>2, <1>3, <1>7, AcceptedBrokeKeeps
  <2> QED BY <1>2, <1>7, <2>1, KeepsSafe
<1>8. CASE x.atcp[c] = "STOPPING_STCP" /\ e.src = "STCP" /\ e.type = "STOPPED"
           /\ y = UsockStop(AtcpMove(x, c, "STOPPING_USOCK"), c)
  <2>1. e.ptr = c
    <3>1. x0.role = "bind"
      BY <1>2, <1>3, <1>8
    <3> QED BY <1>1, <1>2, <1>8, <3>1 DEF Routed, End
  <2>2. Pending(x0, "STCP", c, "STOPPED") /\ ~Pending(x, "STCP", c, "STOPPED")
    BY <1>2, <1>8, <2>1, TakenPending
  <2>3. x.stcp[c].st = "IDLE"
    <3>1. LinkOk(x0, c)
      BY <1>2 DEF Core
    <3> QED BY <1>2, <2>2, <3>1 DEF LinkOk
  <2>4. y.failed = Nil => Keeps(x, y)
    BY <1>2, <1>3, <1>8, <2>2, <2>3, SessionOverKeeps
  <2> QED BY <1>2, <1>8, <2>4, KeepsSafe
<1>9. CASE x.atcp[c] = "STOPPING_USOCK" /\ y = x
  BY <1>2, <1>9 DEF Safe
<1>10. CASE x.atcp[c] = "STOPPING_USOCK"
            /\ y = Raise(AtcpMove(x, c, "DONE"), EpOwner("ATCP"), c, "ERROR")
  <2>1. y.failed = Nil => Keeps(x, y)
    BY <1>2, <1>3, <1>10, SocketOverKeeps
  <2> QED BY <1>2, <1>10, <2>1, KeepsSafe
<1>11. CASE y \in Bad(x, "atcp: bad event")
  BY <1>2, <1>11, BadSafe, Sites
<1>12. y \in AtcpHandler(x, c, e)
  BY <1>1 DEF AipcHandler
<1>13. x.atcp[c] = "ACCEPTING" /\ e.type = "ACCEPT_ERROR"
       /\ y \in InBound(UsockAccept(SetError(x), c, Listener))
       => y \in UsockAccept(SetError(x), c, Listener)
  BY InBoundIs
<1>14. \/ x.atcp[c] \in Ended /\ y = AtcpStopping(x, c)
       \/ x.atcp[c] = "ACCEPTING" /\ y \in AtcpAccepted(x, c)
       \/ x.atcp[c] = "ACCEPTING" /\ e.type = "ACCEPT_ERROR"
          /\ y \in InBound(UsockAccept(SetError(x), c, Listener))
       \/ x.atcp[c] = "ACTIVE" /\ y = SessionStop(AtcpMove(Broken(x), c, "STOPPING_STCP"), c)
       \/ x.atcp[c] = "STOPPING_STCP" /\ e.src = "STCP" /\ e.type = "STOPPED"
          /\ y = UsockStop(AtcpMove(x, c, "STOPPING_USOCK"), c)
       \/ x.atcp[c] = "STOPPING_USOCK" /\ y = x
       \/ x.atcp[c] = "STOPPING_USOCK"
          /\ y = Raise(AtcpMove(x, c, "DONE"), EpOwner("ATCP"), c, "ERROR")
       \/ y \in Bad(x, "atcp: bad event")
  BY <1>12, Zenon DEF AtcpHandler, Ended
<1> QED BY <1>4, <1>5, <1>6, <1>7, <1>8, <1>9, <1>10, <1>11, <1>13, <1>14


(***************************************************************************)
(* The events of a context.                                                *)
(***************************************************************************)
LEMMA EpEventSafe ==
  ASSUME NEW x0, Core(x0), PhasesOk(x0), x0.events # <<>>,
         NEW e, e = Head(x0.events), NEW x, x = Taken(x0), NEW y \in EpHandler(x, FALSE, e)
  PROVE  Safe(y)
<1>1. x0 \in World
  BY DEF Core
<1>2. x.role = x0.role /\ x.net = x0.net
  BY <1>1, TakenIs DEF SameEp
<1>3. x0.role \in {"bind", "connect"} /\ x0.net \in {"tcp", "ipc"}
  BY <1>1, Has
<1>4. CASE x0.role = "bind" /\ y \in BtcpHandler(x, e) \cup BipcHandler(x, e)
  BY <1>4, BindHandlerSafe
<1>5. CASE x0.role = "connect" /\ y \in CtcpHandler(x, e) \cup CipcHandler(x, e)
  BY <1>5, ConnectHandlerSafe
<1>6. \/ x0.role = "bind" /\ y \in BtcpHandler(x, e) \cup BipcHandler(x, e)
      \/ x0.role = "connect" /\ y \in CtcpHandler(x, e) \cup CipcHandler(x, e)
  BY <1>2, <1>3 DEF EpHandler
<1> QED BY <1>4, <1>5, <1>6

LEMMA SessEventSafe ==
  ASSUME NEW x0, Core(x0), PhasesOk(x0), x0.events # <<>>,
         NEW e, e = Head(x0.events), NEW x, x = Taken(x0), e.to \in {"stcp", "hdr", "pipe"},
         NEW y \in StcpHandler(x, e.of, e) \cup SipcHandler(x, e.of, e)
                   \cup HdrHandler(x, e.of, e) \cup PipeHandler(x, e.of, e)
  PROVE  Safe(y)
<1>1. x0 \in World /\ EventsOk(x0)
  BY DEF Core
<1>2. e \in Events /\ 1 \in 1..Len(x0.events) /\ e = x0.events[1] /\ x \in World
  BY <1>1, TakenIs
<1>3. e.of \in Conns
  BY <1>2 DEF Events, ToOne
<1>4. Routed(x0, e)
  BY <1>1, <1>2 DEF EventsOk
<1>5. ~Telling(x0, e)
  BY <1>4 DEF Telling, Routed
<1>6. PhasesOk(x)
  BY <1>5, TakenPhases
<1>7. Core(x)
  BY TakenCore
<1>8. Turn(x, y, e.of)
  BY <1>2, <1>3, StcpHandlerTurn, HdrHandlerTurn, PipeHandlerTurn
<1>9. ASSUME y.failed = Nil PROVE Core(y) /\ (PhasesOk(x) => PhasesOk(y))
  BY <1>3, <1>7, <1>8, <1>9, TurnKeeps
<1> QED BY <1>6, <1>9 DEF Safe

(* An endpoint that runs is not shut down and not destroyed.               *)
LEMMA NotOver ==
  ASSUME NEW x0, Core(x0), x0.events # <<>>, NEW x, x = Taken(x0),
         NEW y \in {EpShutdown(x), EpTerm(x)}
  PROVE  Safe(y)
<1>1. Core(x)
  BY TakenCore
<1>2. x \in World /\ x.fsm = "ACTIVE"
  BY <1>1 DEF Core, Running
<1>3. y = Fail(x, "ep: bad state") \/ y = Fail(x, "ep: term")
  BY <1>2 DEF EpShutdown, EpTerm
<1> QED BY <1>2, <1>3, FailSafe, Sites

(* One event of the queue is handled.                                      *)
LEMMA HandleSafe ==
  ASSUME stop = FALSE, NEW x0, Core(x0), PhasesOk(x0), x0.events # <<>>,
         NEW y \in Handle(Taken(x0), Head(x0.events))
  PROVE  Safe(y)
<1>1. PICK e : e = Head(x0.events)
  OBVIOUS
<1>2. PICK x : x = Taken(x0)
  OBVIOUS
<1>3. e \in Events
  BY <1>1, TakenIs DEF Core
<1>4. e.to \in {"ep", "atcp", "stcp", "hdr", "pipe", "epfsm", "sock"}
  BY <1>3 DEF Events, ToOne
<1>5. y \in Handle(x, e)
  BY <1>1, <1>2
<1>6. CASE e.to = "ep"
  <2>1. y \in EpHandler(x, FALSE, e)
    BY <1>5, <1>6 DEF Handle
  <2> QED BY <1>1, <1>2, <2>1, EpEventSafe
<1>7. CASE e.to = "atcp"
  <2>1. y \in AtcpHandler(x, e.of, e) \cup AipcHandler(x, e.of, e)
    BY <1>5, <1>7 DEF Handle
  <2> QED BY <1>1, <1>2, <1>7, <2>1, AtcpHandlerSafe
<1>8. CASE e.to \in {"stcp", "hdr", "pipe"}
  <2>1. y \in StcpHandler(x, e.of, e) \cup SipcHandler(x, e.of, e)
              \cup HdrHandler(x, e.of, e) \cup PipeHandler(x, e.of, e)
    BY <1>5, <1>8 DEF Handle
  <2> QED BY <1>1, <1>2, <1>8, <2>1, SessEventSafe
<1>9. CASE e.to \in {"epfsm", "sock"}
  <2>1. y \in {EpShutdown(x), EpTerm(x)}
    BY <1>5, <1>9 DEF Handle
  <2> QED BY <1>2, <2>1, NotOver
<1> QED BY <1>4, <1>6, <1>7, <1>8, <1>9

(* The context is left when no event remains.                              *)
LEMMA ProcessSafe ==
  ASSUME stop = FALSE, Safe(w), Process
  PROVE  Safe(w')
<1>1. w.failed = Nil /\ w.events # <<>> /\ Core(w) /\ PhasesOk(w)
  BY DEF Process, Safe
<1>2. PICK v \in Handle(Taken(w), Head(w.events)) :
          w' = IF v.failed = Nil /\ v.events = <<>> THEN [v EXCEPT !.did = {}] ELSE v
  BY DEF Process, Taken
<1>3. Safe(v)
  BY <1>1, <1>2, HandleSafe
<1>4. PICK c \in Conns : TRUE
  BY Names
<1>5. CASE v.failed = Nil /\ w' = [v EXCEPT !.did = {}]
  <2>1. Core(v) /\ PhasesOk(v)
    BY <1>3, <1>5 DEF Safe
  <2>2. UsOp(v, w', c)
    <3>1. {} \in SUBSET {"send", "recv"} /\ v \in World
      BY <2>1 DEF Core
    <3> QED BY <1>4, <1>5, <3>1, DidIs
  <2>3. w'.failed = Nil => Keeps(v, w')
    BY <1>4, <2>1, <2>2, UsOpKeeps
  <2> QED BY <2>1, <2>3, KeepsSafe
<1> QED BY <1>2, <1>3, <1>5


(***************************************************************************)
(* The worker.                                                             *)
(***************************************************************************)
InLine(x, t) == \/ \E i \in 1..Len(x.tasks) : x.tasks[i] = t
                \/ \E i \in 1..Len(x.copy) : x.copy[i] = t
Watched(x) == x.us[Listener].reg /\ x.us[Listener].in
(* Tasks go on to the worker or come to an end, and the listener is polled.*)
Served(x, y) ==
    /\ y \in World /\ y.failed = x.failed /\ SameEp(x, y)
    /\ y.hdr = x.hdr /\ y.stcp = x.stcp /\ y.pipe = x.pipe /\ y.stat = x.stat
    /\ y.events = x.events /\ \A d \in Conns : y.us[d] = x.us[d]
    /\ y.us[Listener].st = x.us[Listener].st
    /\ y.us[Listener].asock = x.us[Listener].asock
    /\ y.us[Listener].owner = x.us[Listener].owner
    /\ \A t \in Tasks : InLine(y, t) => InLine(x, t)

(* Each part of the invariant when a task is moved or done.                *)
LEMMA LinesTyped ==
  ASSUME NEW x \in World
  PROVE  /\ \A i \in 1..Len(x.tasks) : x.tasks[i] \in Tasks /\ InLine(x, x.tasks[i])
         /\ \A i \in 1..Len(x.copy) : x.copy[i] \in Tasks /\ InLine(x, x.copy[i])
<1>1. x.tasks \in Seq(Tasks) /\ x.copy \in Seq(Tasks)
  BY Has
<1>2. /\ \A i \in 1..Len(x.tasks) : x.tasks[i] \in Tasks
      /\ \A i \in 1..Len(x.copy) : x.copy[i] \in Tasks
  BY <1>1
<1> QED BY <1>2 DEF InLine

LEMMA ServedCore ==
  ASSUME NEW x, Core(x), NEW y, Served(x, y)
  PROVE  Core(y)
<1>1. y \in World /\ x \in World /\ Running(y)
  BY DEF Core, Served, Running, SameEp
<1>2. \A src, p, type : Pending(y, src, p, type) = Pending(x, src, p, type)
  BY DEF Served, Pending
<1>3. EventsOk(y)
  BY DEF Core, EventsOk, Distinct, Routed, End, Served, SameEp
<1>4. ASSUME NEW c \in Conns PROVE LinkOk(y, c) /\ AtcpOk(y, c)
  <2>1. LinkOk(x, c) /\ AtcpOk(x, c)
    BY DEF Core
  <2>2. LinkOk(y, c)
    BY <1>2, <2>1 DEF Served, SameEp, LinkOk, Attached, Breaking, Restful, PipeOk, End
  <2>3. AtcpOk(y, c)
    BY <1>2, <2>1 DEF Served, SameEp, AtcpOk
  <2> QED BY <2>2, <2>3
<1>5. CountsOk(y)
  BY DEF Core, CountsOk, GaugesOk, AliveOf, PipesOf, Served, SameEp
<1>6. ListenerOk(y)
  <2>1. ListenerOk(x)
    BY DEF Core
  <2>2. ASSUME NEW t \in Tasks, InLine(x, t), t.on = Listener PROVE t.kind = "accept"
    BY <2>1, <2>2 DEF ListenerOk, InLine
  <2>3. ASSUME NEW t \in Tasks, InLine(y, t), t.on = Listener PROVE t.kind = "accept"
    BY <2>2, <2>3 DEF Served
  <2>4. /\ \A i \in 1..Len(y.tasks) : y.tasks[i].on = Listener => y.tasks[i].kind = "accept"
        /\ \A i \in 1..Len(y.copy) : y.copy[i].on = Listener => y.copy[i].kind = "accept"
    BY <1>1, <2>3, LinesTyped
  <2> QED BY <2>1, <2>4 DEF ListenerOk, Served, SameEp
<1> QED BY <1>1, <1>3, <1>4, <1>5, <1>6 DEF Core

LEMMA ServedPhases ==
  ASSUME NEW x, PhasesOk(x), NEW y, Served(x, y),
         InLine(x, AcceptTask) \/ Watched(x) => InLine(y, AcceptTask) \/ Watched(y)
  PROVE  PhasesOk(y)
<1>1. ASSUME NEW c \in Conns, Await(x, c) PROVE Await(y, c)
  <2>1. InLine(x, AcceptTask) \/ Watched(x)
    BY <1>1 DEF Await, Queued, InLine, Watched
  <2>2. Queued(y) \/ (y.us[Listener].reg /\ y.us[Listener].in)
    BY <2>1 DEF Queued, InLine, Watched
  <2> QED BY <1>1, <2>2 DEF Await, Served, SameEp
<1>2. ASSUME NEW c \in Conns, Phase(x, c) PROVE Phase(y, c)
  <2>1. CASE Await(x, c)
    BY <1>1, <2>1 DEF Phase
  <2>2. CASE Arrived(x, c)
    BY <2>2 DEF Phase, Arrived, Served, SameEp
  <2>3. CASE Short(x, c)
    BY <2>3 DEF Phase, Short, Served, SameEp
  <2>4. CASE Reported(x, c)
    BY <2>4 DEF Phase, Reported, Served, Pending
  <2> QED BY <1>2, <2>1, <2>2, <2>3, <2>4 DEF Phase
<1> QED BY <1>2 DEF PhasesOk, Served, SameEp

(* The worker takes its tasks. *)
LEMMA TakeTasksSafe ==
  ASSUME Safe(w), TakeTasks
  PROVE  Safe(w')
<1>1. Core(w) /\ PhasesOk(w) /\ w \in World /\ w.failed = Nil
  BY DEF TakeTasks, Settled, Safe, Core
<1>2. w' = [w EXCEPT !.copy = w.tasks, !.tasks = <<>>] /\ w.copy = <<>>
  BY DEF TakeTasks
<1>3. w.tasks \in Seq(Tasks) /\ <<>> \in Seq(Tasks)
  BY <1>1, Has
<1>4. PICK v : v = [w EXCEPT !.copy = w.tasks]
  OBVIOUS
<1>5. v \in World /\ w' = [v EXCEPT !.tasks = <<>>]
  <2>1. \A s \in Seq(Tasks) : [w EXCEPT !.copy = s] \in World
    BY <1>1, Put
  <2>2. w' = [v EXCEPT !.tasks = <<>>]
    BY <1>2, <1>4
  <2> QED BY <1>3, <1>4, <2>1, <2>2
<1>6. w' \in World
  <2>1. \A s \in Seq(Tasks) : [v EXCEPT !.tasks = s] \in World
    BY <1>5, Put
  <2> QED BY <1>3, <1>5, <2>1
<1>7. /\ w'.failed = w.failed /\ SameEp(w, w') /\ w'.us = w.us
      /\ w'.hdr = w.hdr /\ w'.stcp = w.stcp /\ w'.pipe = w.pipe /\ w'.stat = w.stat
      /\ w'.events = w.events /\ w'.copy = w.tasks /\ w'.tasks = <<>>
  BY <1>1, <1>2 DEF World, SameEp
<1>8. \A t : InLine(w', t) = InLine(w, t)
  BY <1>2, <1>7 DEF InLine
<1>9. Served(w, w')
  BY <1>6, <1>7, <1>8 DEF Served
<1>10. InLine(w, AcceptTask) \/ Watched(w) => InLine(w', AcceptTask) \/ Watched(w')
  BY <1>7, <1>8 DEF Watched
<1> QED BY <1>1, <1>9, <1>10, ServedCore, ServedPhases DEF Safe


(* The worker takes the next task from its copy. *)
LEMMA TaskTaken ==
  ASSUME NEW x \in World, x.copy # <<>>, NEW v, v = [x EXCEPT !.copy = Tail(@)]
  PROVE  /\ Served(x, v) /\ v.us = x.us /\ Head(x.copy) \in Tasks /\ InLine(x, Head(x.copy))
         /\ v.failed = x.failed
         /\ \A t \in Tasks : t # Head(x.copy) /\ InLine(x, t) => InLine(v, t)
<1>1. x.copy \in Seq(Tasks)
  BY Has
<1>2. PICK s : s = Tail(x.copy)
  OBVIOUS
<1>3. /\ s \in Seq(Tasks) /\ Len(x.copy) \in Nat /\ Len(x.copy) > 0 /\ Len(s) = Len(x.copy) - 1
      /\ \A i \in 1..Len(s) : s[i] = x.copy[i + 1]
      /\ Head(x.copy) = x.copy[1]
  BY <1>1, <1>2
<1>4. v = [x EXCEPT !.copy = s]
  BY <1>2
<1>5. v \in World
  <2>1. \A q \in Seq(Tasks) : [x EXCEPT !.copy = q] \in World
    BY Put
  <2> QED BY <1>3, <1>4, <2>1
<1>6. /\ v.failed = x.failed /\ SameEp(x, v) /\ v.us = x.us
      /\ v.hdr = x.hdr /\ v.stcp = x.stcp /\ v.pipe = x.pipe /\ v.stat = x.stat
      /\ v.events = x.events /\ v.tasks = x.tasks /\ v.copy = s
  BY <1>4 DEF World, SameEp
<1>7. \A i \in 1..Len(s) : i + 1 \in 1..Len(x.copy) /\ s[i] = x.copy[i + 1]
  BY <1>3
<1>8. 1 \in 1..Len(x.copy)
      /\ \A i \in 1..Len(x.copy) : i # 1 => i - 1 \in 1..Len(s) /\ s[i - 1] = x.copy[i]
  BY <1>3
<1>9. ASSUME NEW t \in Tasks, InLine(v, t) PROVE InLine(x, t)
  BY <1>6, <1>7, <1>9 DEF InLine
<1>10. ASSUME NEW t \in Tasks, t # Head(x.copy), InLine(x, t) PROVE InLine(v, t)
  BY <1>3, <1>6, <1>8, <1>10 DEF InLine
<1>11. Head(x.copy) \in Tasks /\ InLine(x, Head(x.copy))
  BY <1>3, <1>8, LinesTyped
<1>12. Served(x, v)
  BY <1>5, <1>6, <1>9 DEF Served
<1> QED BY <1>6, <1>10, <1>11, <1>12

LEMMA ServedTrans ==
  ASSUME NEW x, NEW y, NEW z, Served(x, y), Served(y, z)
  PROVE  Served(x, z)
BY DEF Served, SameEp

(* The task that polls the listener. *)
LEMMA AcceptTaskIs ==
  ASSUME NEW x \in World, NEW y, y = UsockTask(x, "accept", Listener)
  PROVE  Served(x, y) /\ Watched(y)
<1>1. PICK q : q = [x.us[Listener] EXCEPT !.reg = TRUE, !.in = FALSE, !.out = FALSE]
  OBVIOUS
<1>2. x.us \in [Socks -> UsockRecs] /\ Listener \in Socks
  BY Has, Names
<1>3. x.us[Listener] \in UsockRecs
  BY <1>2
<1>4. /\ q \in UsockRecs /\ q.st = x.us[Listener].st /\ q.asock = x.us[Listener].asock
      /\ q.owner = x.us[Listener].owner /\ q.reg
  BY <1>1, <1>3 DEF UsockRecs
<1>5. PICK v : v = PollerAdd(x, Listener)
  OBVIOUS
<1>6. v = [x EXCEPT !.us = [x.us EXCEPT ![Listener] = q]]
  BY <1>1, <1>2, <1>3, <1>5, ZenonT(60) DEF PollerAdd, World, UsockRecs
<1>7. /\ v \in World /\ v.failed = x.failed /\ SameEp(x, v)
      /\ v.us[Listener] = q /\ \A z \in Socks \ {Listener} : v.us[z] = x.us[z]
      /\ v.hdr = x.hdr /\ v.stcp = x.stcp /\ v.pipe = x.pipe
      /\ v.stat = x.stat /\ v.events = x.events /\ v.tasks = x.tasks /\ v.copy = x.copy
  BY <1>2, <1>4, <1>6, UsPut
<1>8. PICK r : r = [q EXCEPT !.in = TRUE]
  OBVIOUS
<1>9. /\ r \in UsockRecs /\ r.st = x.us[Listener].st /\ r.asock = x.us[Listener].asock
      /\ r.owner = x.us[Listener].owner /\ r.reg /\ r.in
  BY <1>4, <1>8 DEF UsockRecs
<1>10. y = [v EXCEPT !.us = [v.us EXCEPT ![Listener] = r]]
  BY <1>2, <1>5, <1>7, <1>8 DEF UsockTask, PollerIn
<1>11. /\ y \in World /\ y.failed = v.failed /\ SameEp(v, y)
       /\ y.us[Listener] = r /\ \A z \in Socks \ {Listener} : y.us[z] = v.us[z]
       /\ y.hdr = v.hdr /\ y.stcp = v.stcp /\ y.pipe = v.pipe
       /\ y.stat = v.stat /\ y.events = v.events /\ y.tasks = v.tasks /\ y.copy = v.copy
  BY <1>2, <1>7, <1>9, <1>10, UsPut
<1>12. \A d \in Conns : y.us[d] = x.us[d]
  BY <1>7, <1>11, Names
<1>13. \A t \in Tasks : InLine(y, t) => InLine(x, t)
  BY <1>7, <1>11 DEF InLine
<1>14. SameEp(x, y)
  BY <1>7, <1>11 DEF SameEp
<1> QED BY <1>7, <1>9, <1>11, <1>12, <1>13, <1>14 DEF Served, Watched

(* The timer of the interval is started or stopped by the worker. *)
LEMMA RetryTaskQuiet ==
  ASSUME NEW x \in World, NEW kind \in TimerKinds,
         NEW y, y = TimerTask(x, kind, "retry", TimerOwner("retry"))
  PROVE  Quiet(x, y)
<1>1. PICK c \in Conns : TRUE
  BY Names
<1>2. UsOp(x, [x EXCEPT !.tmr["retry"].armed = TRUE], c)
      /\ UsOp(x, [x EXCEPT !.tmr["retry"] = IdleTimer], c)
  BY Names, TimerSetOps
<1>3. CASE y = [x EXCEPT !.tmr["retry"].armed = TRUE]
  BY <1>2, <1>3, UsOpQuiet
<1>4. CASE y = x
  BY <1>4, QuietSame
<1>5. CASE y = Raise([x EXCEPT !.tmr["retry"] = IdleTimer], TimerOwner("retry"), "retry", "STOPPED")
  <2>1. PICK v : v = [x EXCEPT !.tmr["retry"] = IdleTimer]
    OBVIOUS
  <2>2. Quiet(x, v) /\ v \in World
    BY <1>2, <2>1, UsOpQuiet, UsOpWorld
  <2>3. TimerOwner("retry") = EpOwner("TIMER") /\ EpOwner("TIMER") \in Owners
        /\ TimerOwner("retry").src = "TIMER"
    BY Names, EpOwners DEF TimerOwner, EpOwner, Sources
  <2>4. "STOPPED" \in SessTypes /\ "retry" \in Ptrs
    BY Names DEF SessTypes, EventTypes
  <2>5. Quiet(v, y)
    BY <1>5, <2>1, <2>2, <2>3, <2>4, RaiseQuiet
  <2> QED BY <2>2, <2>5, QuietTrans DEF Quiet
<1> QED BY <1>3, <1>4, <1>5 DEF TimerTask

(* Quiet steps and the operations of a usock keep the invariant.           *)
LEMMA QuietSafe ==
  ASSUME NEW x, Core(x), PhasesOk(x), NEW y, Quiet(x, y)
  PROVE  Safe(y)
<1>1. ASSUME y.failed = Nil PROVE Core(y) /\ (PhasesOk(x) => PhasesOk(y))
  BY <1>1, QuietKeeps
<1> QED BY <1>1 DEF Safe

LEMMA UsOpSafe ==
  ASSUME NEW x, Core(x), PhasesOk(x), NEW c \in Conns, NEW y, UsOp(x, y, c)
  PROVE  Safe(y)
<1>1. x \in World
  BY DEF Core
<1>2. Quiet(x, y)
  BY <1>1, UsOpQuiet
<1> QED BY <1>2, QuietSafe

(* The worker runs a task. *)
LEMMA RunTaskSafe ==
  ASSUME Safe(w), RunTask
  PROVE  Safe(w')
<1>1. Core(w) /\ PhasesOk(w) /\ w \in World /\ w.failed = Nil /\ w.copy # <<>>
  BY DEF RunTask, Settled, Safe, Core
<1>2. PICK t : t = Head(w.copy)
  OBVIOUS
<1>3. PICK v : v = [w EXCEPT !.copy = Tail(@)]
  OBVIOUS
<1>4. w' = IF t.kind \in {"timer_start", "timer_stop"}
           THEN TimerTask(v, t.kind, t.on, TimerOwner(t.on))
           ELSE UsockTask(v, t.kind, t.on)
  BY <1>2, <1>3 DEF RunTask
<1>5. /\ Served(w, v) /\ v.us = w.us /\ t \in Tasks /\ InLine(w, t)
      /\ \A q \in Tasks : q # t /\ InLine(w, q) => InLine(v, q)
  BY <1>1, <1>2, <1>3, TaskTaken
<1>6. Core(v) /\ v \in World
  BY <1>1, <1>5, ServedCore DEF Core
<1>7. AcceptTask \in Tasks
  BY Names DEF AcceptTask, Tasks, UsockKinds
<1>8. t # AcceptTask => PhasesOk(v)
  <2>1. ASSUME t # AcceptTask, InLine(w, AcceptTask) \/ Watched(w)
        PROVE  InLine(v, AcceptTask) \/ Watched(v)
    BY <1>5, <1>7, <2>1 DEF Watched
  <2> QED BY <1>1, <1>5, <2>1, ServedPhases
<1>9. CASE t.kind \in TimerKinds
  <2>1. t.on \in Timers /\ t # AcceptTask
    BY <1>5, <1>9 DEF Tasks, TimerKinds, UsockKinds, AcceptTask
  <2>2. w' = TimerTask(v, t.kind, t.on, TimerOwner(t.on))
    BY <1>4, <1>9 DEF TimerKinds
  <2>3. CASE t.on \in Conns
    <3>1. UsOp(v, w', t.on)
      BY <1>6, <1>9, <2>2, <2>3, TimerTaskOp
    <3> QED BY <1>6, <1>8, <2>1, <2>3, <3>1, UsOpSafe
  <2>4. CASE t.on = "retry"
    <3>1. Quiet(v, w')
      BY <1>6, <1>9, <2>2, <2>4, RetryTaskQuiet
    <3> QED BY <1>6, <1>8, <2>1, <3>1, QuietSafe
  <2> QED BY <2>1, <2>3, <2>4 DEF Timers
<1>10. CASE t.kind \in UsockKinds
  <2>1. t.on \in Socks
    BY <1>5, <1>10 DEF Tasks, TimerKinds, UsockKinds
  <2>2. w' = UsockTask(v, t.kind, t.on)
    BY <1>4, <1>10 DEF UsockKinds
  <2>3. CASE t.on \in Conns
    <3>1. v.us[t.on].st # "CANCELLING"
      BY <1>6, <2>3 DEF Core, AtcpOk, Listened
    <3>2. UsOp(v, w', t.on)
      BY <1>6, <1>10, <2>2, <2>3, <3>1, UsockTaskOp
    <3>3. t # AcceptTask
      BY <2>3, Names DEF AcceptTask
    <3> QED BY <1>6, <1>8, <2>3, <3>2, <3>3, UsOpSafe
  <2>4. CASE t.on = Listener
    <3>1. ListenerOk(w)
      BY <1>1 DEF Core
    <3>2. t.kind = "accept"
      BY <1>5, <2>4, <3>1 DEF ListenerOk, InLine
    <3>3. Served(v, w') /\ Watched(w')
      BY <1>6, <2>2, <2>4, <3>2, AcceptTaskIs
    <3>4. Served(w, w')
      BY <1>5, <3>3, ServedTrans
    <3> QED BY <1>1, <3>3, <3>4, ServedCore, ServedPhases DEF Safe
  <2> QED BY <2>1, <2>3, <2>4 DEF Socks
<1>11. t.kind \in TimerKinds \/ t.kind \in UsockKinds
  BY <1>5 DEF Tasks
<1> QED BY <1>9, <1>10, <1>11


(* A timer expires. *)
LEMMA ExpireSafe ==
  ASSUME Safe(w), NEW t \in Timers, Expire(t)
  PROVE  Safe(w')
<1>1. Core(w) /\ PhasesOk(w) /\ w \in World /\ w.failed = Nil
  BY DEF Expire, Settled, Safe, Core
<1>2. PICK v : v = [w EXCEPT !.tmr[t].armed = FALSE]
  OBVIOUS
<1>3. w' = IF v.tmr[t].st # "ACTIVE" THEN v ELSE Raise(v, TimerOwner(t), t, "TIMEOUT")
  BY <1>2 DEF Expire
<1>4. PICK c \in Conns : t \in Conns => c = t
  BY Names
<1>5. UsOp(w, v, c) /\ v \in World
  <2>1. \A b \in BOOLEAN : UsOp(w, [w EXCEPT !.tmr[t].armed = b], c)
    BY <1>1, TimerSetOps
  <2> QED BY <1>2, <2>1, UsOpWorld
<1>6. "TIMEOUT" \in SessTypes
  BY DEF SessTypes, EventTypes
<1>7. Quiet(w, v)
  BY <1>1, <1>5, UsOpQuiet
<1>8. CASE w' = v
  BY <1>1, <1>7, <1>8, QuietSafe
<1>9. CASE w' = Raise(v, TimerOwner(t), t, "TIMEOUT")
  <2>1. CASE t \in Conns
    <3>1. UsOp(v, w', t)
      BY <1>5, <1>6, <1>9, <2>1, TimerRaise
    <3>2. Quiet(v, w')
      BY <1>5, <2>1, <3>1, UsOpQuiet
    <3>3. Quiet(w, w')
      BY <1>1, <1>7, <3>2, QuietTrans DEF Quiet
    <3> QED BY <1>1, <3>3, QuietSafe
  <2>2. CASE t = "retry"
    <3>1. TimerOwner(t) \in Owners /\ TimerOwner(t).src = "TIMER" /\ t \in Ptrs
      BY <2>2, Names, EpOwners DEF TimerOwner, EpOwner, Sources
    <3>2. Quiet(v, w')
      BY <1>5, <1>6, <1>9, <3>1, RaiseQuiet
    <3>3. Quiet(w, w')
      BY <1>1, <1>7, <3>2, QuietTrans DEF Quiet
    <3> QED BY <1>1, <3>3, QuietSafe
  <2> QED BY <2>1, <2>2 DEF Timers
<1> QED BY <1>3, <1>8, <1>9

(* A descriptor is ready. *)
LEMMA PolledSafe ==
  ASSUME NEW x, Core(x), PhasesOk(x), NEW u \in Socks,
         NEW y \in FdIn(x, u) \cup FdOut(x, u) \cup FdErr(x, u),
         u = Listener => y \in FdIn(x, u) \cup FdOut(x, u)
  PROVE  Safe(y)
<1>1. x \in World /\ ListenerOk(x) /\ EventsOk(x)
  BY DEF Core
<1>2. CASE u \in Conns
  <2>1. x.us[u].st \notin Listened
    BY <1>2 DEF Core, AtcpOk
  <2>2. UsOp(x, y, u)
    BY <1>1, <1>2, <2>1, FdOp
  <2> QED BY <1>2, <2>2, UsOpSafe
<1>3. CASE u = Listener /\ x.us[Listener].st # "ACCEPTING"
  <2>1. x.us[Listener].st \in {"IDLE", "LISTENING", "ACCEPTING_ERROR"}
    BY <1>1, <1>3 DEF ListenerOk
  <2>2. y = Fail(x, "usock: bad source")
    BY <1>3, <2>1 DEF FdIn, FdOut, Ignoring
  <2> QED BY <1>1, <2>2, FailSafe, Sites
<1>4. CASE u = Listener /\ x.us[Listener].st = "ACCEPTING"
  <2>1. y \in AcceptIn(x, Listener) \/ y = Fail(x, "usock: bad source")
    BY <1>4 DEF FdIn, FdOut, Ignoring
  <2>2. x.role = "bind" /\ x.ep = "ACTIVE"
    BY <1>1, <1>4 DEF ListenerOk
  <2>3. x.cur \in Conns /\ Phase(x, x.cur)
    BY <2>2 DEF PhasesOk
  <2>4. Await(x, x.cur)
    BY <1>4, <2>3 DEF Phase, Arrived, Short, Reported
  <2>5. Mute(x)
    BY <1>1, <1>4, MuteIs
  <2>6. Asking(x, x.cur) /\ x.us[Listener].asock = x.cur
    BY <2>2, <2>4, <2>5 DEF Asking, Await
  <2>7. CASE y \in AcceptIn(x, Listener)
    BY <2>3, <2>6, <2>7, AcceptInSafe
  <2>8. CASE y = Fail(x, "usock: bad source")
    BY <1>1, <2>8, FailSafe, Sites
  <2> QED BY <2>1, <2>7, <2>8
<1> QED BY <1>2, <1>3, <1>4 DEF Socks

(* The poller reports a descriptor: the actions of the model.              *)
LEMMA PollSafe ==
  ASSUME Safe(w), \/ \E u \in Socks : PollIn(u) \/ PollOut(u)
                  \/ \E c \in Conns : PollErr(c)
  PROVE  Safe(w')
<1>1. w.failed = Nil
  BY DEF PollIn, PollOut, PollErr, Polling, Settled
<1>2. Core(w) /\ PhasesOk(w)
  BY <1>1 DEF Safe
<1>3. CASE \E u \in Socks : PollIn(u) \/ PollOut(u)
  <2>1. PICK u \in Socks : PollIn(u) \/ PollOut(u)
    BY <1>3
  <2>2. w' \in FdIn(w, u) \cup FdOut(w, u)
    BY <2>1, InBoundIs DEF PollIn, PollOut
  <2> QED BY <1>2, <2>2, PolledSafe
<1>4. CASE \E c \in Conns : PollErr(c)
  <2>1. PICK c \in Conns : PollErr(c)
    BY <1>4
  <2>2. w' \in FdErr(w, c) /\ c \in Socks /\ c # Listener
    BY <2>1, Names DEF PollErr
  <2> QED BY <1>2, <2>2, PolledSafe
<1> QED BY <1>3, <1>4

(* The endpoint is created. *)
LEMMA StartSafe ==
  ASSUME Safe(w), Start
  PROVE  Safe(w')
<1>1. Core(w) /\ w \in World /\ w.ep = "IDLE" /\ w' \in EpInit(w)
  BY DEF Start, Settled, Safe, Core
<1>2. w.role \in {"bind", "connect"} /\ w.net \in {"tcp", "ipc"}
  BY <1>1, Has
<1>3. "GONE" \in States /\ "GONE" \in Idling /\ w.ep \in Idling
  BY <1>1 DEF States, Idling
<1>4. Moved(w, Refused(w), "GONE")
  BY <1>1, <1>3, EpMoveIs DEF Refused
<1>5. CASE w.role = "bind"
  <2>1. w' = Refused(w) \/ w' \in BtcpStartListening(w)
    BY <1>1, <1>2, <1>5 DEF EpInit, BtcpCreate, BipcCreate, BipcStartListening
  <2>2. CASE w' = Refused(w)
    BY <1>1, <1>4, <1>5, <2>2, BindMoved
  <2>3. CASE w' \in BtcpStartListening(w)
    BY <1>1, <1>5, <2>3, StartListeningSafe
  <2> QED BY <2>1, <2>2, <2>3
<1>6. CASE w.role = "connect"
  <2>1. Alone(w)
    BY <1>1, <1>6, AloneIs
  <2>2. \/ w' = Refused(w) \/ w' \in CtcpStartResolving(w)
        \/ w' \in CipcStartConnecting(w)
    BY <1>1, <1>2, <1>6 DEF EpInit, CtcpCreate, CipcCreate
  <2>3. CASE w' = Refused(w)
    BY <1>1, <1>3, <1>4, <1>6, <2>1, <2>3, ConnectMoved
  <2>4. CASE w' \in CtcpStartResolving(w)
    BY <1>1, <1>3, <1>6, <2>1, <2>4, StartResolving
  <2>5. CASE w' \in CipcStartConnecting(w)
    BY <1>1, <1>3, <1>6, <2>1, <2>5, StartConnecting
  <2> QED BY <2>2, <2>3, <2>4, <2>5
<1> QED BY <1>2, <1>5, <1>6

(* The user and the resolver. *)
LEMMA OutsideSafe ==
  ASSUME Safe(w), DnsNotify \/ (\E c \in Conns : UserSend(c) \/ UserRecv(c))
  PROVE  Safe(w')
<1>1. Core(w) /\ PhasesOk(w) /\ w \in World
  BY DEF DnsNotify, UserSend, UserRecv, Settled, Safe, Core
<1>2. CASE DnsNotify
  <2>1. PICK ok \in BOOLEAN : w' = DnsNotified(w, ok)
    BY <1>2 DEF DnsNotify
  <2>2. Quiet(w, w')
    BY <1>1, <2>1, DnsOps
  <2> QED BY <1>1, <2>2, QuietSafe
<1>3. CASE \E c \in Conns : UserSend(c) \/ UserRecv(c)
  <2>1. PICK c \in Conns : w' \in PipeSend(w, c) \cup PipeRecv(w, c)
    BY <1>3 DEF UserSend, UserRecv
  <2>2. UsOp(w, w', c)
    BY <1>1, <2>1, PipeSendOp
  <2> QED BY <1>1, <2>2, UsOpSafe
<1> QED BY <1>2, <1>3

(***************************************************************************)
(* The invariant of the endpoint.                                          *)
(***************************************************************************)
TransportInv == stop \in BOOLEAN /\ (~stop => Safe(w))

(* Every action keeps the invariant.                                       *)
LEMMA TransportStep ==
  ASSUME TransportInv, TransportNext \/ UNCHANGED vars
  PROVE  TransportInv'
<1> USE DEF TransportInv
<1>1. CASE Process
  <2>1. UNCHANGED stop
    BY <1>1 DEF Process
  <2>2. ASSUME stop = FALSE PROVE Safe(w')
    BY <1>1, <2>2, ProcessSafe
  <2> QED BY <2>1, <2>2
<1>2. CASE TakeTasks
  <2>1. UNCHANGED stop
    BY <1>2 DEF TakeTasks
  <2> QED BY <1>2, <2>1, TakeTasksSafe
<1>3. CASE RunTask
  <2>1. UNCHANGED stop
    BY <1>3 DEF RunTask
  <2> QED BY <1>3, <2>1, RunTaskSafe
<1>4. CASE Start
  <2>1. UNCHANGED stop
    BY <1>4 DEF Start
  <2> QED BY <1>4, <2>1, StartSafe
<1>5. CASE Stop
  BY <1>5 DEF Stop
<1>6. CASE DnsNotify
  <2>1. UNCHANGED stop
    BY <1>6 DEF DnsNotify
  <2> QED BY <1>6, <2>1, OutsideSafe
<1>7. CASE \E t \in Timers : Expire(t)
  <2>1. UNCHANGED stop
    BY <1>7 DEF Expire
  <2> QED BY <1>7, <2>1, ExpireSafe
<1>8. CASE \E u \in Socks : PollIn(u) \/ PollOut(u)
  <2>1. UNCHANGED stop
    BY <1>8 DEF PollIn, PollOut, Polling
  <2> QED BY <1>8, <2>1, PollSafe
<1>9. CASE \E c \in Conns : PollErr(c) \/ UserSend(c) \/ UserRecv(c)
  <2>1. UNCHANGED stop
    BY <1>9 DEF PollErr, Polling, UserSend, UserRecv
  <2>2. CASE \E c \in Conns : PollErr(c)
    BY <2>1, <2>2, PollSafe
  <2>3. CASE \E c \in Conns : UserSend(c) \/ UserRecv(c)
    BY <2>1, <2>3, OutsideSafe
  <2> QED BY <1>9, <2>2, <2>3
<1>10. CASE UNCHANGED vars
  BY <1>10 DEF vars, Safe, Core, Running, EventsOk, Distinct, Routed
<1> QED BY <1>1, <1>2, <1>3, <1>4, <1>5, <1>6, <1>7, <1>8, <1>9, <1>10 DEF TransportNext


(* It holds in the beginning.                                              *)
LEMMA FirstWorld ==
  ASSUME TransportInit
  PROVE  w \in World
<1>1. PICK role \in {"bind", "connect"}, net \in {"tcp", "ipc"} :
          w = [role |-> role, net |-> net, ep |-> "IDLE",
               cur |-> Nil, list |-> {}, atcp |-> [c \in Conns |-> "FREE"],
               dns |-> "IDLE", found |-> FALSE,
               us |-> [u \in Socks |->
                         NewUsock(IF u = Listener \/ role = "connect" THEN EpOwner("USOCK")
                                  ELSE AtcpOwner(u, "USOCK"))],
               hdr |-> [c \in Conns |-> NewHdr], stcp |-> [c \in Conns |-> NewStcp],
               pipe |-> [c \in Conns |-> NewPipe],
               tmr |-> [t \in Timers |-> IdleTimer],
               fsm |-> "ACTIVE", error |-> FALSE, stat |-> [n \in Stats |-> 0],
               did |-> {}, events |-> <<>>, tasks |-> <<>>, copy |-> <<>>, failed |-> Nil]
  BY DEF TransportInit
<1>2. ASSUME NEW u \in Socks
      PROVE  NewUsock(IF u = Listener \/ role = "connect" THEN EpOwner("USOCK")
                      ELSE AtcpOwner(u, "USOCK")) \in UsockRecs
  <2>1. EpOwner("USOCK") \in UsOwners
    BY DEF EpOwner, UsOwners
  <2>2. u # Listener => AtcpOwner(u, "USOCK") \in UsOwners
    BY <1>2 DEF AtcpOwner, UsOwners, ToOne, Socks
  <2>3. \A o \in UsOwners : NewUsock(o) \in UsockRecs
    BY DEF NewUsock, UsockRecs, UsockStates
  <2> QED BY <2>1, <2>2, <2>3
<1>3. [u \in Socks |-> NewUsock(IF u = Listener \/ role = "connect" THEN EpOwner("USOCK")
                                ELSE AtcpOwner(u, "USOCK"))] \in [Socks -> UsockRecs]
  BY <1>2
<1>4. /\ NewHdr \in HdrRecs /\ NewStcp \in StcpRecs /\ NewPipe \in PipeRecs
      /\ IdleTimer \in TimerRecs /\ "FREE" \in AtcpStates /\ "IDLE" \in States
  BY NewPipeIs DEF NewHdr, HdrRecs, HdrStates, NewStcp, StcpRecs, StcpStates, IdleTimer,
         TimerRecs, AtcpStates, States
<1>5. /\ [c \in Conns |-> NewHdr] \in [Conns -> HdrRecs]
      /\ [c \in Conns |-> NewStcp] \in [Conns -> StcpRecs]
      /\ [c \in Conns |-> NewPipe] \in [Conns -> PipeRecs]
      /\ [t \in Timers |-> IdleTimer] \in [Timers -> TimerRecs]
      /\ [c \in Conns |-> "FREE"] \in [Conns -> AtcpStates]
      /\ [n \in Stats |-> 0] \in [Stats -> Int]
  BY <1>4
<1>6. "IDLE" \in DnsStates /\ "ACTIVE" \in FsmStates
  BY DEF DnsStates, FsmStates
<1>7. <<>> \in Seq(Events) /\ <<>> \in Seq(Tasks)
  OBVIOUS
<1> QED BY <1>1, <1>3, <1>4, <1>5, <1>6, <1>7 DEF World

LEMMA TransportFirst ==
  ASSUME TransportInit
  PROVE  TransportInv
<1>1. w \in World
  BY FirstWorld
<1>2. /\ w.ep = "IDLE" /\ w.cur = Nil /\ w.fsm = "ACTIVE" /\ w.error = FALSE
      /\ w.role \in {"bind", "connect"} /\ w.events = <<>> /\ w.tasks = <<>> /\ w.copy = <<>>
      /\ \A n \in Stats : w.stat[n] = 0
      /\ w.us[Listener].st = "IDLE"
  BY Names DEF TransportInit, NewUsock
<1>3. ASSUME NEW c \in Conns
      PROVE  /\ w.atcp[c] = "FREE" /\ w.hdr[c].st = "IDLE" /\ w.stcp[c].st = "IDLE"
             /\ w.pipe[c].st = "IDLE" /\ w.us[c].st = "IDLE"
             /\ w.us[c].owner = End(w, c, "USOCK")
  BY <1>3, Names DEF TransportInit, NewUsock, NewHdr, NewStcp, NewPipe, End, EpOwner, AtcpOwner
<1>4. EventsOk(w) /\ Running(w) /\ ListenerOk(w)
  BY <1>2 DEF EventsOk, Distinct, Running, ListenerOk
<1>5. ASSUME NEW c \in Conns PROVE LinkOk(w, c) /\ AtcpOk(w, c)
  <2>1. \A src, p, type : ~Pending(w, src, p, type)
    BY <1>2 DEF Pending
  <2> QED BY <1>2, <1>3, <2>1 DEF LinkOk, AtcpOk, Restful, PipeOk, Listened
<1>6. CountsOk(w)
  <2>1. {c \in Conns : w.atcp[c] = "ACTIVE"} = {} /\ {c \in Conns : w.pipe[c].st = "ACTIVE"} = {}
    BY <1>3
  <2>2. AliveOf(w) = 0 /\ PipesOf(w) = 0
    BY <1>2, <2>1, FS_EmptySet DEF AliveOf, PipesOf
  <2> QED BY <1>2, <2>2 DEF CountsOk, GaugesOk, Stats
<1>7. PhasesOk(w)
  BY <1>2 DEF PhasesOk
<1>8. stop = FALSE
  BY DEF TransportInit
<1> QED BY <1>1, <1>4, <1>5, <1>6, <1>7, <1>8 DEF TransportInv, Safe, Core

(* In every state of an endpoint that was not asked to stop and has met no *)
(* failed assertion, the sessions, accepted connections, counters and      *)
(* queued events fit together (Core), and a bound endpoint is in a phase   *)
(* of its wait for the next connection (PhasesOk).                         *)
THEOREM TransportInvariant == TransportSpec => []TransportInv
<1>1. TransportInit => TransportInv
  BY TransportFirst
<1>2. TransportInv /\ [TransportNext]_vars => TransportInv'
  BY TransportStep
<1> QED BY <1>1, <1>2, PTL DEF TransportSpec

(* What is in one of two sequences is in both together.                    *)
LEMMA InConcat ==
  ASSUME NEW s \in Seq(Tasks), NEW z \in Seq(Tasks), NEW t,
         (\E i \in 1..Len(s) : s[i] = t) \/ (\E i \in 1..Len(z) : z[i] = t)
  PROVE  t \in Range(s \o z)
<1>1. /\ Len(s) \in Nat /\ Len(z) \in Nat /\ s \o z \in Seq(Tasks) /\ Len(s \o z) = Len(s) + Len(z)
      /\ \A i \in 1..(Len(s) + Len(z)) : (s \o z)[i] = IF i <= Len(s) THEN s[i] ELSE z[i - Len(s)]
  OBVIOUS
<1>2. \E i \in 1..Len(s \o z) : (s \o z)[i] = t
  <2>1. CASE \E i \in 1..Len(s) : s[i] = t
    BY <1>1, <2>1
  <2>2. CASE \E i \in 1..Len(z) : z[i] = t
    <3>1. PICK i \in 1..Len(z) : z[i] = t
      BY <2>2
    <3>2. Len(s) + i \in 1..(Len(s) + Len(z)) /\ ~(Len(s) + i <= Len(s)) /\ (Len(s) + i) - Len(s) = i
      BY <1>1
    <3>3. (s \o z)[Len(s) + i] = z[i]
      BY <1>1, <3>2
    <3> QED BY <1>1, <3>1, <3>2, <3>3
  <2> QED BY <2>1, <2>2
<1>3. DOMAIN (s \o z) = 1..Len(s \o z)
  BY <1>1
<1> QED BY <1>2, <1>3 DEF Range

(* btcp.c, bipc.c, atcp.c, usock.c: a bound endpoint that was not asked to *)
(* stop waits for the next connection whenever its context is left, after  *)
(* a shortage of descriptors too: the listener and the socket to accept    *)
(* into know of each other, and the listener is polled or about to be.     *)
THEOREM AlwaysListening == TransportSpec => []Listening
<1>1. TransportInv => Listening
  <2> SUFFICES ASSUME TransportInv, w.role = "bind", w.ep = "ACTIVE", ~stop, Settled
               PROVE  /\ w.cur # Nil /\ w.us[w.cur].asock = Listener
                      /\ w.us[Listener].asock = w.cur /\ w.us[Listener].st = "ACCEPTING"
                      /\ \/ TaskQueued(w, "accept", Listener)
                         \/ w.us[Listener].reg /\ w.us[Listener].in
    BY DEF Listening
  <2>1. PhasesOk(w) /\ w \in World /\ w.events = <<>>
    BY DEF TransportInv, Settled, Safe, Core
  <2>2. w.cur \in Conns /\ Phase(w, w.cur)
    BY <2>1 DEF PhasesOk
  <2>3. Await(w, w.cur)
    BY <2>1, <2>2 DEF Phase, Arrived, Short, Reported, Pending
  <2>4. Queued(w) => TaskQueued(w, "accept", Listener)
    <3>1. w.tasks \in Seq(Tasks) /\ w.copy \in Seq(Tasks)
      BY <2>1, Has
    <3> QED BY <3>1, InConcat DEF Queued, TaskQueued, AcceptTask
  <2> QED BY <2>2, <2>3, <2>4, Names DEF Await
<1> QED BY <1>1, TransportInvariant, PTL

(* ep.c:206-229, atcp.c, ctcp.c, pipe.c: when the context is left, the     *)
(* statistics count the connections that are established, the attempt in   *)
(* progress, the pipes the socket has and the endpoint in error, whatever  *)
(* broke, was accepted or was refused in between.                          *)
THEOREM CountersStayTrue == TransportSpec => []CountersTrue
<1>1. TransportInv => CountersTrue
  BY DEF TransportInv, CountersTrue, Settled, Safe, Core, CountsOk, GaugesOk, AliveOf, PipesOf
<1> QED BY <1>1, TransportInvariant, PTL
=============================================================================
