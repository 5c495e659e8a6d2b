---------------------------- MODULE InprocProofs ----------------------------
(***************************************************************************)
(* Proofs about the in-process connection under orderly use, for every     *)
(* number of threads, receive buffer and number of messages: no assertion  *)
(* fails, flow control has one token per sender, and the two queues, the   *)
(* exposed messages and the events between the contexts implement an       *)
(* ordered channel without loss or duplicate.                              *)
(*                                                                         *)
(* The argument is the phase of the connection.  A thread carries at most  *)
(* one event, and the events that are on their way determine in which      *)
(* phase both sessions and both endpoints are; every operation leads from  *)
(* a phase to a phase.                                                     *)
(***************************************************************************)
EXTENDS Inproc, SequenceTheorems, TLAPS

(* The records that the sessions are.                                      *)
Sessions == [state : SessionStates, fsm : {"idle", "active", "stopping"},
             peer : BOOLEAN, sending : BOOLEAN, receiving : BOOLEAN,
             queue : Seq(Nat), msg : 0..MaxMsgs,
             in : {"off", "idle", "async"}, out : {"off", "idle", "async"}]

EndpointStates == {None, "DISCONNECTED", "ACTIVE", "STOPPING"}

Types ==
    /\ ep \in [Sides -> EndpointStates]
    /\ ses \in [Sides -> Sessions]
    /\ sent \in [Sides -> Nat]
    /\ got \in [Sides -> Nat]
    /\ carried \in [Threads -> Seq(Events)]

(* A thread carries one event at most, and no event is carried twice.      *)
OneEach ==
    /\ \A th \in Threads :
          carried[th] = << >> \/ \E e \in Events : carried[th] = <<e>>
    /\ \A th, u \in Threads :
          th # u /\ carried[th] = carried[u] => carried[th] = << >>

(* The messages a queue has room for.                                      *)
Bound == IF RcvBuf > 1 THEN RcvBuf - 1 ELSE 1
QueuesFit == \A s \in Sides : Len(ses[s].queue) <= Bound

(* A session without a pipe.                                               *)
Off(s) == ses[s].in = "off" /\ ses[s].out = "off"

(* An endpoint that waits for a connection.                                *)
Idle(s) == ses[s] = NoSession /\ ep[s] = (IF s = "c" THEN "DISCONNECTED" ELSE "ACTIVE")

(* The bound endpoint keeps the session of a connection that is gone.      *)
Kept == /\ ses["b"].state = "DISCONNECTED" /\ ses["b"].fsm = "active" /\ Off("b")
        /\ ep["b"] = "ACTIVE"

(* A session with its pipe.                                                *)
Live(s) == /\ ep[s] = "ACTIVE" /\ ses[s].state = "ACTIVE" /\ ses[s].fsm = "active"
           /\ ses[s].in # "off" /\ ses[s].out # "off"
           /\ ses[s].in = "idle" <=> ses[s].queue # << >>

(* A session that has not transferred anything.                            *)
Clean(s) == /\ ep[s] = "ACTIVE" /\ ses[s].fsm = "active"
            /\ ~ses[s].sending /\ ~ses[s].receiving
            /\ ses[s].queue = << >> /\ ses[s].msg = 0

(* A session that is stopping and waits for the answer of its peer.        *)
Waits(s) == /\ ep[s] = "STOPPING" /\ ses[s].fsm = "stopping"
            /\ ses[s].state = "STOPPING_PEER" /\ Off(s)

(* The phases: no connection; s is asked for one, its peer learns that it  *)
(* accepted, s learns that the pipe is up; s is told that its peer left,   *)
(* and the answer to that.                                                 *)
Apart ==
    /\ Carried = {}
    /\ (ep["c"] = None /\ ses["c"] = NoSession) \/ Idle("c")
    /\ (ep["b"] = None /\ ses["b"] = NoSession) \/ Idle("b") \/ Kept

Asked(s) ==
    /\ Carried = {Event("CONNECT", s)}
    /\ Idle(s)
    /\ Clean(Other(s)) /\ ses[Other(s)].state = "CONNECTING" /\ Off(Other(s))

Accepted(s) ==
    /\ Carried = {Event("READY", s)}
    /\ Clean(s) /\ ses[s].state = "CONNECTING" /\ Off(s)
    /\ Clean(Other(s)) /\ ses[Other(s)].state = "READY" /\ Off(Other(s))

Confirmed(s) ==
    /\ Carried = {Event("ACCEPTED", s)}
    /\ Clean(s) /\ ses[s].state = "READY" /\ Off(s)
    /\ Clean(Other(s)) /\ ses[Other(s)].state = "ACTIVE"
    /\ ses[Other(s)].in = "async" /\ ses[Other(s)].out = "idle"

Left(s) ==
    /\ Carried = {Event("DISCONNECT", s)}
    /\ Live(s) /\ Waits(Other(s))

Answered(s) ==
    /\ Carried = {Event("DISCONNECT", s)}
    /\ Waits(s)
    /\ IF s = "b" THEN Idle("c") ELSE Kept

(* What flow control keeps about the messages s sends.                     *)
Token(s) ==
    LET announced == Event("SENT", Other(s)) \in Carried
        parked    == ses[Other(s)].receiving
        confirmed == Event("RECEIVED", s) \in Carried
    IN  /\ ses[s].sending <=> ses[s].out = "async"
        /\ ses[s].sending <=> announced \/ parked \/ confirmed
        /\ ~(announced /\ parked) /\ ~(announced /\ confirmed) /\ ~(parked /\ confirmed)
        /\ ses[s].msg # 0 <=> announced \/ parked

Transfers == [type : {"SENT", "RECEIVED"}, to : Sides]

(* Both sides have a pipe and only messages are on their way.              *)
Connected ==
    /\ Carried \subseteq Transfers
    /\ \A s \in Sides : Live(s) /\ Token(s)

Changing == \E s \in Sides : Asked(s) \/ Accepted(s) \/ Confirmed(s) \/ Left(s) \/ Answered(s)

Phase == Apart \/ Connected \/ Changing

(* The inductive invariant.                                                *)
IInv == Types /\ OneEach /\ QueuesFit /\ NoAbort /\ Phase

-----------------------------------------------------------------------------
(* The sides, the empty session and the fields of the others.              *)

LEMMA SidesAre ==
  /\ Other("b") = "c" /\ Other("c") = "b"
  /\ \A s \in Sides : /\ Other(s) \in Sides /\ Other(s) # s /\ Other(Other(s)) = s
                      /\ Sides = {s, Other(s)}
                      /\ \A u \in Sides : u = s \/ u = Other(s)
<1>1. Other("b") = "c"
  BY DEF Other, Sides
<1>2. Other("c") = "b"
  BY DEF Other, Sides
<1>3. QED
  BY <1>1, <1>2 DEF Sides

LEMMA SetState == ASSUME NEW n \in Sessions, NEW v \in SessionStates
                  PROVE  [n EXCEPT !.state = v] \in Sessions
BY SMTT(30) DEF Sessions

LEMMA SetFsm == ASSUME NEW n \in Sessions, NEW v \in {"idle", "active", "stopping"}
                PROVE  [n EXCEPT !.fsm = v] \in Sessions
BY SMTT(30) DEF Sessions

LEMMA SetPeer == ASSUME NEW n \in Sessions, NEW v \in BOOLEAN
                 PROVE  [n EXCEPT !.peer = v] \in Sessions
BY SMTT(30) DEF Sessions

LEMMA SetSending == ASSUME NEW n \in Sessions, NEW v \in BOOLEAN
                    PROVE  [n EXCEPT !.sending = v] \in Sessions
BY SMTT(30) DEF Sessions

LEMMA SetReceiving == ASSUME NEW n \in Sessions, NEW v \in BOOLEAN
                      PROVE  [n EXCEPT !.receiving = v] \in Sessions
BY SMTT(30) DEF Sessions

LEMMA SetQueue == ASSUME NEW n \in Sessions, NEW v \in Seq(Nat)
                  PROVE  [n EXCEPT !.queue = v] \in Sessions
BY SMTT(30) DEF Sessions

LEMMA SetMsg == ASSUME NEW n \in Sessions, NEW v \in 0..MaxMsgs
                PROVE  [n EXCEPT !.msg = v] \in Sessions
BY SMTT(30) DEF Sessions

LEMMA SetIn == ASSUME NEW n \in Sessions, NEW v \in {"off", "idle", "async"}
               PROVE  [n EXCEPT !.in = v] \in Sessions
BY SMTT(30) DEF Sessions

LEMMA SetOut == ASSUME NEW n \in Sessions, NEW v \in {"off", "idle", "async"}
                PROVE  [n EXCEPT !.out = v] \in Sessions
BY SMTT(30) DEF Sessions

LEMMA SetOne ==
  ASSUME NEW t \in [Sides -> Sessions], NEW s \in Sides, NEW n \in Sessions
  PROVE  /\ [t EXCEPT ![s] = n] \in [Sides -> Sessions]
         /\ [t EXCEPT ![s] = n][s] = n
         /\ \A u \in Sides : u # s => [t EXCEPT ![s] = n][u] = t[u]
BY SMT

LEMMA EmptySession ==
  /\ NoSession \in Sessions
  /\ NoSession.state = "IDLE" /\ NoSession.fsm = "idle"
  /\ ~NoSession.sending /\ ~NoSession.receiving
  /\ NoSession.queue = << >> /\ NoSession.msg = 0
  /\ NoSession.in = "off" /\ NoSession.out = "off"
<1>1. 0 \in 0..MaxMsgs /\ << >> \in Seq(Nat)
  BY BoundsAssumption
<1>2. NoSession \in Sessions
  BY <1>1 DEF NoSession, Sessions, SessionStates
<1>3. QED
  BY <1>2 DEF NoSession

-----------------------------------------------------------------------------
(* What each change of a session leaves in its fields.                     *)

(* A session that starts.                                                  *)
Begun(state, peer) == [NoSession EXCEPT !.state = state, !.fsm = "active", !.peer = peer]

LEMMA BegunIs ==
  ASSUME NEW st \in SessionStates, NEW p \in BOOLEAN
  PROVE  /\ Begun(st, p) \in Sessions
         /\ Begun(st, p).state = st /\ Begun(st, p).fsm = "active"
         /\ ~Begun(st, p).sending /\ ~Begun(st, p).receiving
         /\ Begun(st, p).queue = << >> /\ Begun(st, p).msg = 0
         /\ Begun(st, p).in = "off" /\ Begun(st, p).out = "off"
<1>. DEFINE a == [NoSession EXCEPT !.state = st]
            b == [a EXCEPT !.fsm = "active"]
            c == [b EXCEPT !.peer = p]
<1>1. /\ Begun(st, p).state = st /\ Begun(st, p).fsm = "active"
      /\ ~Begun(st, p).sending /\ ~Begun(st, p).receiving
      /\ Begun(st, p).queue = << >> /\ Begun(st, p).msg = 0
      /\ Begun(st, p).in = "off" /\ Begun(st, p).out = "off"
  BY DEF Begun, NoSession
<1>2. Begun(st, p) = c
  BY DEF Begun
<1>3. a \in Sessions
  BY EmptySession, SetState
<1>. HIDE DEF a
<1>4. b \in Sessions
  BY <1>3, SetFsm
<1>. HIDE DEF b
<1>5. c \in Sessions
  BY <1>4, SetPeer
<1>. HIDE DEF c
<1>6. QED
  BY <1>1, <1>2, <1>5, Zenon

LEMMA ConnectIs ==
  ASSUME NEW s
  PROVE  /\ SessionConnect(s) \in Sessions
         /\ SessionConnect(s).state = "CONNECTING" /\ SessionConnect(s).fsm = "active"
         /\ ~SessionConnect(s).sending /\ ~SessionConnect(s).receiving
         /\ SessionConnect(s).queue = << >> /\ SessionConnect(s).msg = 0
         /\ SessionConnect(s).in = "off" /\ SessionConnect(s).out = "off"
<1>. DEFINE a == [NoSession EXCEPT !.state = "CONNECTING"]
            b == [a EXCEPT !.fsm = "active"]
<1>1. /\ SessionConnect(s).state = "CONNECTING" /\ SessionConnect(s).fsm = "active"
      /\ ~SessionConnect(s).sending /\ ~SessionConnect(s).receiving
      /\ SessionConnect(s).queue = << >> /\ SessionConnect(s).msg = 0
      /\ SessionConnect(s).in = "off" /\ SessionConnect(s).out = "off"
  BY DEF SessionConnect, NoSession
<1>2. SessionConnect(s) = b
  BY DEF SessionConnect
<1>3. a \in Sessions
  BY EmptySession, SetState DEF SessionStates
<1>. HIDE DEF a
<1>4. b \in Sessions
  BY <1>3, SetFsm
<1>. HIDE DEF b
<1>5. QED
  BY <1>1, <1>2, <1>4, Zenon

LEMMA StopIs ==
  ASSUME NEW n \in Sessions
  PROVE  /\ n.state = "DISCONNECTED" => StopSession(n).state = "STOPPING"
         /\ n.state # "DISCONNECTED" =>
               /\ StopSession(n) \in Sessions
               /\ StopSession(n).state = "STOPPING_PEER"
               /\ StopSession(n).fsm = "stopping"
               /\ StopSession(n).in = "off" /\ StopSession(n).out = "off"
               /\ StopSession(n).queue = n.queue
<1>1. CASE n.state = "DISCONNECTED"
  BY <1>1 DEF StopSession, Sessions
<1>2. CASE n.state # "DISCONNECTED"
  <2>. DEFINE a == [n EXCEPT !.fsm = "stopping"]
              b == [a EXCEPT !.state = "STOPPING_PEER"]
              c == [b EXCEPT !.in = "off"]
              d == [c EXCEPT !.out = "off"]
  <2>1. StopSession(n) = d
    BY <1>2 DEF StopSession
  <2>2. /\ StopSession(n).state = "STOPPING_PEER"
        /\ StopSession(n).fsm = "stopping"
        /\ StopSession(n).in = "off" /\ StopSession(n).out = "off"
        /\ StopSession(n).queue = n.queue
    BY <1>2 DEF StopSession, Sessions
  <2>3. a \in Sessions
    BY SetFsm
  <2>. HIDE DEF a
  <2>4. b \in Sessions
    BY <2>3, SetState DEF SessionStates
  <2>. HIDE DEF b
  <2>5. c \in Sessions
    BY <2>4, SetIn
  <2>. HIDE DEF c
  <2>6. d \in Sessions
    BY <2>5, SetOut
  <2>. HIDE DEF d
  <2>7. QED
    BY <1>2, <2>1, <2>2, <2>6, Zenon
<1>3. QED
  BY <1>1, <1>2, Zenon

LEMMA PipeIs ==
  ASSUME NEW n \in Sessions, NEW m, m = WithPipe(n) \/ m = [WithPipe(n) EXCEPT !.peer = TRUE]
  PROVE  /\ m \in Sessions
         /\ m.state = "ACTIVE" /\ m.in = "async" /\ m.out = "idle"
         /\ m.fsm = n.fsm /\ m.sending = n.sending /\ m.receiving = n.receiving
         /\ m.queue = n.queue /\ m.msg = n.msg
<1>. DEFINE a == [n EXCEPT !.state = "ACTIVE"]
            b == [a EXCEPT !.in = "async"]
            c == [b EXCEPT !.out = "idle"]
            d == [c EXCEPT !.peer = TRUE]
<1>1. WithPipe(n) = c
  BY DEF WithPipe
<1>2. /\ c.state = "ACTIVE" /\ c.in = "async" /\ c.out = "idle"
      /\ c.fsm = n.fsm /\ c.sending = n.sending /\ c.receiving = n.receiving
      /\ c.queue = n.queue /\ c.msg = n.msg
  BY DEF Sessions
<1>3. a \in Sessions
  BY SetState DEF SessionStates
<1>. HIDE DEF a
<1>4. b \in Sessions
  BY <1>3, SetIn
<1>. HIDE DEF b
<1>5. c \in Sessions
  BY <1>4, SetOut
<1>. HIDE DEF c
<1>6. /\ d \in Sessions
      /\ d.state = c.state /\ d.in = c.in /\ d.out = c.out
      /\ d.fsm = c.fsm /\ d.sending = c.sending /\ d.receiving = c.receiving
      /\ d.queue = c.queue /\ d.msg = c.msg
  <2>1. d \in Sessions
    BY <1>5, SetPeer
  <2>2. QED
    BY <2>1, <1>5 DEF Sessions
<1>7. CASE m = WithPipe(n)
  BY <1>7, <1>1, <1>2, <1>5, Zenon
<1>8. CASE m = [WithPipe(n) EXCEPT !.peer = TRUE]
  <2>1. m = d
    BY <1>8, <1>1
  <2>. HIDE DEF d
  <2>2. QED
    BY <2>1, <1>2, <1>6
<1>9. QED
  BY <1>7, <1>8

(* grid_sinproc_send: message v is exposed.                                *)
Exposing(t, s, v) ==
    [t EXCEPT ![s].msg = v, ![s].sending = TRUE, ![s].out = "async"]

LEMMA SendIs ==
  ASSUME NEW t \in [Sides -> Sessions], NEW s \in Sides, NEW v \in 0..MaxMsgs, NEW z,
         z = Exposing(t, s, v)
  PROVE  /\ z \in [Sides -> Sessions]
         /\ z[s].msg = v /\ z[s].sending /\ z[s].out = "async"
         /\ z[s].state = t[s].state /\ z[s].fsm = t[s].fsm /\ z[s].in = t[s].in
         /\ z[s].receiving = t[s].receiving /\ z[s].queue = t[s].queue
         /\ \A u \in Sides : u # s => z[u] = t[u]
<1>0. z = [t EXCEPT ![s].msg = v, ![s].sending = TRUE, ![s].out = "async"]
  BY DEF Exposing
<1>. DEFINE a == [t[s] EXCEPT !.msg = v]
            b == [a EXCEPT !.sending = TRUE]
            c == [b EXCEPT !.out = "async"]
<1>1. /\ z[s].msg = v /\ z[s].sending /\ z[s].out = "async"
      /\ z[s].state = t[s].state /\ z[s].fsm = t[s].fsm /\ z[s].in = t[s].in
      /\ z[s].receiving = t[s].receiving /\ z[s].queue = t[s].queue
      /\ \A u \in Sides : u # s => z[u] = t[u]
  BY <1>0 DEF Sessions
<1>2. z = [t EXCEPT ![s] = c]
  BY <1>0
<1>3. a \in Sessions
  BY SetMsg
<1>. HIDE DEF a
<1>4. b \in Sessions
  BY <1>3, SetSending
<1>. HIDE DEF b
<1>5. c \in Sessions
  BY <1>4, SetOut
<1>. HIDE DEF c
<1>6. z \in [Sides -> Sessions]
  BY <1>2, <1>5, SetOne, Zenon
<1>7. QED
  BY <1>1, <1>6, Zenon

(* The message of the peer waits.                                          *)
Parking(t, s) ==
    [t EXCEPT ![s].receiving = TRUE]

LEMMA ParkIs ==
  ASSUME NEW t \in [Sides -> Sessions], NEW s \in Sides, NEW z,
         z = Parking(t, s)
  PROVE  /\ z \in [Sides -> Sessions]
         /\ z[s].msg = t[s].msg /\ z[s].sending = t[s].sending /\ z[s].out = t[s].out
         /\ z[s].state = t[s].state /\ z[s].fsm = t[s].fsm /\ z[s].in = t[s].in
         /\ z[s].receiving /\ z[s].queue = t[s].queue
         /\ \A u \in Sides : u # s => z[u] = t[u]
<1>0. z = [t EXCEPT ![s].receiving = TRUE]
  BY DEF Parking
<1>. DEFINE a == [t[s] EXCEPT !.receiving = TRUE]
<1>1. /\ z[s].msg = t[s].msg /\ z[s].sending = t[s].sending /\ z[s].out = t[s].out
      /\ z[s].state = t[s].state /\ z[s].fsm = t[s].fsm /\ z[s].in = t[s].in
      /\ z[s].receiving /\ z[s].queue = t[s].queue
      /\ \A u \in Sides : u # s => z[u] = t[u]
  BY <1>0 DEF Sessions
<1>2. z = [t EXCEPT ![s] = a]
  BY <1>0
<1>3. a \in Sessions
  BY SetReceiving
<1>. HIDE DEF a
<1>4. z \in [Sides -> Sessions]
  BY <1>2, <1>3, SetOne, Zenon
<1>5. QED
  BY <1>1, <1>4, Zenon

(* The pipe is writable again.                                             *)
Confirming(t, s) ==
    [t EXCEPT ![s].sending = FALSE, ![s].out = "idle"]

LEMMA ConfirmIs ==
  ASSUME NEW t \in [Sides -> Sessions], NEW s \in Sides, NEW z,
         z = Confirming(t, s)
  PROVE  /\ z \in [Sides -> Sessions]
         /\ z[s].msg = t[s].msg /\ ~z[s].sending /\ z[s].out = "idle"
         /\ z[s].state = t[s].state /\ z[s].fsm = t[s].fsm /\ z[s].in = t[s].in
         /\ z[s].receiving = t[s].receiving /\ z[s].queue = t[s].queue
         /\ \A u \in Sides : u # s => z[u] = t[u]
<1>0. z = [t EXCEPT ![s].sending = FALSE, ![s].out = "idle"]
  BY DEF Confirming
<1>. DEFINE a == [t[s] EXCEPT !.sending = FALSE]
            b == [a EXCEPT !.out = "idle"]
<1>1. /\ z[s].msg = t[s].msg /\ ~z[s].sending /\ z[s].out = "idle"
      /\ z[s].state = t[s].state /\ z[s].fsm = t[s].fsm /\ z[s].in = t[s].in
      /\ z[s].receiving = t[s].receiving /\ z[s].queue = t[s].queue
      /\ \A u \in Sides : u # s => z[u] = t[u]
  BY <1>0 DEF Sessions
<1>2. z = [t EXCEPT ![s] = b]
  BY <1>0
<1>3. a \in Sessions
  BY SetSending
<1>. HIDE DEF a
<1>4. b \in Sessions
  BY <1>3, SetOut
<1>. HIDE DEF b
<1>5. z \in [Sides -> Sessions]
  BY <1>2, <1>4, SetOne, Zenon
<1>6. QED
  BY <1>1, <1>5, Zenon

(* The bound session after its peer left.                                  *)
LEMMA KeepIs ==
  ASSUME NEW n \in Sessions, NEW m,
         m = [n EXCEPT !.state = "DISCONNECTED", !.peer = FALSE, !.in = "off", !.out = "off"]
  PROVE  /\ m \in Sessions /\ m.state = "DISCONNECTED" /\ m.fsm = n.fsm
         /\ m.in = "off" /\ m.out = "off" /\ m.queue = n.queue
<1>. DEFINE a == [n EXCEPT !.state = "DISCONNECTED"]
            b == [a EXCEPT !.peer = FALSE]
            c == [b EXCEPT !.in = "off"]
            d == [c EXCEPT !.out = "off"]
<1>1. /\ m.state = "DISCONNECTED" /\ m.fsm = n.fsm
      /\ m.in = "off" /\ m.out = "off" /\ m.queue = n.queue
  BY DEF Sessions
<1>2. m = d
  OBVIOUS
<1>3. a \in Sessions
  BY SetState DEF SessionStates
<1>. HIDE DEF a
<1>4. b \in Sessions
  BY <1>3, SetPeer
<1>. HIDE DEF b
<1>5. c \in Sessions
  BY <1>4, SetIn
<1>. HIDE DEF c
<1>6. d \in Sessions
  BY <1>5, SetOut
<1>. HIDE DEF d
<1>7. QED
  BY <1>1, <1>2, <1>6, Zenon

LEMMA QueueIn ==
  ASSUME NEW t \in [Sides -> Sessions], NEW s \in Sides, NEW q \in Seq(Nat)
  PROVE  [t EXCEPT ![s].queue = q] \in [Sides -> Sessions]
<1>1. [t[s] EXCEPT !.queue = q] \in Sessions
  BY SetQueue
<1>2. QED
  BY <1>1

LEMMA NoMsgIn ==
  ASSUME NEW t \in [Sides -> Sessions], NEW s \in Sides
  PROVE  [t EXCEPT ![s].msg = 0] \in [Sides -> Sessions]
<1>1. 0 \in 0..MaxMsgs
  BY BoundsAssumption
<1>2. [t[s] EXCEPT !.msg = 0] \in Sessions
  BY <1>1, SetMsg
<1>3. QED
  BY <1>2

LEMMA ReceivingIn ==
  ASSUME NEW t \in [Sides -> Sessions], NEW s \in Sides, NEW v \in BOOLEAN
  PROVE  [t EXCEPT ![s].receiving = v] \in [Sides -> Sessions]
<1>1. [t[s] EXCEPT !.receiving = v] \in Sessions
  BY SetReceiving
<1>2. QED
  BY <1>1

LEMMA InIn ==
  ASSUME NEW t \in [Sides -> Sessions], NEW s \in Sides, NEW v \in {"off", "idle", "async"}
  PROVE  [t EXCEPT ![s].in = v] \in [Sides -> Sessions]
<1>1. [t[s] EXCEPT !.in = v] \in Sessions
  BY SetIn
<1>2. QED
  BY <1>1

(* The first message of the queue is received.                             *)
Trimming(t, s, q, i) ==
    [[t EXCEPT ![s].queue = q] EXCEPT ![s].in = i]

LEMMA TrimIs ==
  ASSUME NEW t \in [Sides -> Sessions], NEW s \in Sides,
         NEW q \in Seq(Nat), NEW i \in {"idle", "async"}, NEW z,
         z = Trimming(t, s, q, i)
  PROVE  /\ z \in [Sides -> Sessions]
         /\ z[s].queue = q /\ z[s].in = i /\ z[s].receiving = t[s].receiving
         /\ z[s].state = t[s].state /\ z[s].fsm = t[s].fsm /\ z[s].out = t[s].out
         /\ z[s].sending = t[s].sending /\ z[s].msg = t[s].msg
         /\ \A u \in Sides : u # s => z[u] = t[u]
<1>0. z = [[t EXCEPT ![s].queue = q] EXCEPT ![s].in = i]
  BY DEF Trimming
<1>. DEFINE a == [t EXCEPT ![s].queue = q]
            b == [a EXCEPT ![s].in = i]
<1>1. /\ z[s].queue = q /\ z[s].in = i /\ z[s].receiving = t[s].receiving
      /\ z[s].state = t[s].state /\ z[s].fsm = t[s].fsm /\ z[s].out = t[s].out
      /\ z[s].sending = t[s].sending /\ z[s].msg = t[s].msg
      /\ \A u \in Sides : u # s => z[u] = t[u]
  BY <1>0 DEF Sessions
<1>2. z = b
  BY <1>0
<1>3. a \in [Sides -> Sessions]
  BY QueueIn
<1>. HIDE DEF a
<1>4. b \in [Sides -> Sessions]
  BY <1>3, InIn
<1>. HIDE DEF b
<1>5. QED
  BY <1>1, <1>2, <1>4, Zenon

(* The sessions z after the message of session p was taken: session s has  *)
(* queue q.                                                                *)
MoveResult(t, z, s, p, q, receiving) ==
    /\ z \in [Sides -> Sessions]
    /\ z[s].queue = q /\ z[s].in = "idle" /\ z[s].receiving = receiving
    /\ z[s].state = t[s].state /\ z[s].fsm = t[s].fsm /\ z[s].out = t[s].out
    /\ z[s].sending = t[s].sending /\ z[s].msg = t[s].msg
    /\ z[p].msg = 0
    /\ z[p].state = t[p].state /\ z[p].fsm = t[p].fsm /\ z[p].out = t[p].out
    /\ z[p].in = t[p].in /\ z[p].sending = t[p].sending
    /\ z[p].receiving = t[p].receiving /\ z[p].queue = t[p].queue

(* The message of session p moves to the end of the queue of session s.    *)
Moving(t, s, p, q) ==
    [[t EXCEPT ![s].queue = q, ![p].msg = 0] EXCEPT ![s].in = "idle"]

LEMMA MoveIs ==
  ASSUME NEW t \in [Sides -> Sessions], NEW s \in Sides, NEW p \in Sides, s # p,
         NEW q \in Seq(Nat)
  PROVE  MoveResult(t, Moving(t, s, p, q), s, p, q, t[s].receiving)
<1>. DEFINE z == Moving(t, s, p, q)
<1>0. z = [[t EXCEPT ![s].queue = q, ![p].msg = 0] EXCEPT ![s].in = "idle"]
  BY DEF Moving
<1>. DEFINE a == [t EXCEPT ![s].queue = q]
            b == [a EXCEPT ![p].msg = 0]
            c == [b EXCEPT ![s].in = "idle"]
<1>1. /\ z[s].queue = q /\ z[s].in = "idle" /\ z[s].receiving = t[s].receiving
      /\ z[s].state = t[s].state /\ z[s].fsm = t[s].fsm /\ z[s].out = t[s].out
      /\ z[s].sending = t[s].sending /\ z[s].msg = t[s].msg
  BY <1>0 DEF Sessions
<1>2. /\ z[p].msg = 0
      /\ z[p].state = t[p].state /\ z[p].fsm = t[p].fsm /\ z[p].out = t[p].out
      /\ z[p].in = t[p].in /\ z[p].sending = t[p].sending
      /\ z[p].receiving = t[p].receiving /\ z[p].queue = t[p].queue
  BY <1>0 DEF Sessions
<1>3. z = c
  BY <1>0
<1>4. a \in [Sides -> Sessions]
  BY QueueIn
<1>. HIDE DEF a
<1>5. b \in [Sides -> Sessions]
  BY <1>4, NoMsgIn
<1>. HIDE DEF b
<1>6. c \in [Sides -> Sessions]
  BY <1>5, InIn
<1>. HIDE DEF c
<1>7. QED
  BY <1>1, <1>2, <1>3, <1>6, Zenon DEF MoveResult

(* The same when a message that waited takes the place of the first one,   *)
(* which was received.                                                     *)
Taking(t, s, p, q, x) ==
    [[[t EXCEPT ![s].queue = q]
        EXCEPT ![s].queue = Append(@, x), ![p].msg = 0, ![s].receiving = FALSE]
        EXCEPT ![s].in = "idle"]

LEMMA TakeIs ==
  ASSUME NEW t \in [Sides -> Sessions], NEW s \in Sides, NEW p \in Sides, s # p,
         NEW q \in Seq(Nat), NEW x \in Nat
  PROVE  MoveResult(t, Taking(t, s, p, q, x), s, p, Append(q, x), FALSE)
<1>. DEFINE z == Taking(t, s, p, q, x)
<1>0. z = [[[t EXCEPT ![s].queue = q]
                  EXCEPT ![s].queue = Append(@, x), ![p].msg = 0, ![s].receiving = FALSE]
                  EXCEPT ![s].in = "idle"]
  BY DEF Taking
<1>. DEFINE n == [t EXCEPT ![s].queue = q]
            a == [n EXCEPT ![s].queue = Append(q, x)]
            b == [a EXCEPT ![p].msg = 0]
            c == [b EXCEPT ![s].receiving = FALSE]
            d == [c EXCEPT ![s].in = "idle"]
<1>10. Append(q, x) \in Seq(Nat)
  BY <1>0
<1>1. n \in [Sides -> Sessions] /\ n[s].queue = q
  <2>1. n[s].queue = q
    BY <1>0 DEF Sessions
  <2>2. QED
    BY <2>1, QueueIn
<1>2. z = d
  <2>1. z = [[[n EXCEPT ![s].queue = Append(n[s].queue, x)]
                 EXCEPT ![p].msg = 0, ![s].receiving = FALSE]
                 EXCEPT ![s].in = "idle"]
    BY <1>0, Zenon
  <2>. HIDE DEF n
  <2>2. QED
    BY <2>1, <1>1, Zenon
<1>3. /\ d[s].queue = Append(q, x) /\ d[s].in = "idle" /\ d[s].receiving = FALSE
      /\ d[s].state = t[s].state /\ d[s].fsm = t[s].fsm /\ d[s].out = t[s].out
      /\ d[s].sending = t[s].sending /\ d[s].msg = t[s].msg
  BY <1>0 DEF Sessions
<1>4. /\ d[p].msg = 0
      /\ d[p].state = t[p].state /\ d[p].fsm = t[p].fsm /\ d[p].out = t[p].out
      /\ d[p].in = t[p].in /\ d[p].sending = t[p].sending
      /\ d[p].receiving = t[p].receiving /\ d[p].queue = t[p].queue
  BY <1>0 DEF Sessions
<1>. HIDE DEF n
<1>5. a \in [Sides -> Sessions]
  BY <1>10, <1>1, QueueIn
<1>. HIDE DEF a
<1>6. b \in [Sides -> Sessions]
  BY <1>5, NoMsgIn
<1>. HIDE DEF b
<1>7. c \in [Sides -> Sessions]
  BY <1>6, ReceivingIn
<1>. HIDE DEF c
<1>8. d \in [Sides -> Sessions]
  BY <1>7, InIn
<1>. HIDE DEF d
<1>9. QED
  BY <1>2, <1>3, <1>4, <1>8, Zenon DEF MoveResult

-----------------------------------------------------------------------------
(* Events on their way.                                                    *)

LEMMA EventIs ==
  /\ \A type \in EventTypes, to \in Sides :
        /\ Event(type, to) \in Events
        /\ Event(type, to).type = type /\ Event(type, to).to = to
  /\ \A e \in Events : e = Event(e.type, e.to) /\ e.type \in EventTypes /\ e.to \in Sides
BY DEF Event, Events

LEMMA ElementsAre == /\ ToSet(<< >>) = {}
                     /\ \A e : ToSet(<<e>>) = {e}
BY DEF ToSet

LEMMA WaitingIs ==
  ASSUME OneEach, NEW th \in Threads
  PROVE  /\ Rest(th) = << >>
         /\ Waiting(th) = Carried \ ToSet(carried[th])
         /\ carried[th] = << >> => Waiting(th) = Carried
         /\ \A e : carried[th] = <<e>> => e \in Carried /\ Waiting(th) = Carried \ {e}
<1>1. Rest(th) = << >>
  <2>1. CASE carried[th] = << >>
    BY <2>1 DEF Rest
  <2>2. ASSUME NEW e \in Events, carried[th] = <<e>>
        PROVE  Rest(th) = << >>
    BY <2>2 DEF Rest
  <2>3. QED
    BY <2>1, <2>2 DEF OneEach
<1>2. Waiting(th) = UNION {ToSet(carried[u]) : u \in Threads \ {th}}
  BY <1>1, ElementsAre DEF Waiting
<1>3. ASSUME NEW u \in Threads, u # th, NEW x \in ToSet(carried[u])
      PROVE  x \notin ToSet(carried[th])
  <2>1. SUFFICES ASSUME x \in ToSet(carried[th]) PROVE FALSE
    OBVIOUS
  <2>2. carried[u] # << >> /\ carried[th] # << >>
    BY <1>3, <2>1, ElementsAre
  <2>3. PICK e \in Events, f \in Events : carried[u] = <<e>> /\ carried[th] = <<f>>
    BY <2>2 DEF OneEach
  <2>4. x = e /\ x = f
    BY <2>1, <2>3, <1>3, ElementsAre
  <2>5. QED
    BY <2>2, <2>3, <2>4, <1>3 DEF OneEach
<1>4. Waiting(th) = Carried \ ToSet(carried[th])
  BY <1>2, <1>3 DEF Carried
<1>5. ASSUME NEW e, carried[th] = <<e>>
      PROVE  e \in Carried /\ Waiting(th) = Carried \ {e}
  BY <1>4, <1>5, ElementsAre DEF Carried
<1>6. QED
  BY <1>1, <1>4, <1>5, ElementsAre

(* A thread leaves the context without an event or with one that no other  *)
(* thread carries.                                                         *)
LEMMA LeaveIs ==
  ASSUME OneEach, carried \in [Threads -> Seq(Events)], NEW th \in Threads, NEW new,
         \/ new = << >>
         \/ \E e \in Events : new = <<e>> /\ e \notin Waiting(th),
         Leave(th, new)
  PROVE  /\ (carried \in [Threads -> Seq(Events)])'
         /\ OneEach'
         /\ Carried' = Waiting(th) \cup ToSet(new)
<1>1. Rest(th) = << >> /\ Waiting(th) = UNION {ToSet(carried[u]) : u \in Threads \ {th}}
  BY WaitingIs, ElementsAre DEF Waiting
<1>2. new \in Seq(Events) /\ new \o Rest(th) = new
  <2>1. new \in Seq(Events)
    <3>1. CASE new = << >>
      BY <3>1
    <3>2. ASSUME NEW e \in Events, new = <<e>>
          PROVE  new \in Seq(Events)
      BY <3>2
    <3>3. QED
      BY <3>1, <3>2
  <2>2. QED
    BY <1>1, <2>1, ConcatEmptySeq
<1>3. carried' = [carried EXCEPT ![th] = new]
  BY <1>2 DEF Leave
<1>4. carried' \in [Threads -> Seq(Events)] /\ carried'[th] = new
      /\ \A u \in Threads : u # th => carried'[u] = carried[u]
  BY <1>2, <1>3
<1>5. ASSUME NEW u \in Threads, u # th, carried[u] = new
      PROVE  new = << >>
  <2>1. SUFFICES ASSUME NEW e \in Events, new = <<e>>, e \notin Waiting(th) PROVE FALSE
    OBVIOUS
  <2>2. e \in ToSet(carried[u])
    BY <1>5, <2>1, ElementsAre
  <2>3. QED
    BY <2>1, <2>2, <1>1, <1>5
<1>6. OneEach'
  BY <1>4, <1>5 DEF OneEach
<1>7. Carried' = Waiting(th) \cup ToSet(new)
  BY <1>1, <1>4 DEF Carried
<1>8. QED
  BY <1>4, <1>6, <1>7

LEMMA IsWaitingIs ==
  ASSUME NEW th \in Threads, NEW to \in Sides, NEW type \in EventTypes
  PROVE  /\ Waiting(th) = {} => ~IsWaiting(th, type, to)
         /\ Event(type, to) \in Waiting(th) => IsWaiting(th, type, to)
         /\ (/\ Waiting(th) \subseteq Events
             /\ Object(type) # "connect"
             /\ IsWaiting(th, type, to)) => Event(type, to) \in Waiting(th)
         /\ Pushable(th, << >>)
         /\ Pushable(th, <<Event(type, to)>>) <=> ~IsWaiting(th, type, to)
<1>1. Waiting(th) = {} => ~IsWaiting(th, type, to)
  BY DEF IsWaiting
<1>2. Event(type, to) \in Waiting(th) => IsWaiting(th, type, to)
  BY EventIs DEF IsWaiting
<1>3. ASSUME Waiting(th) \subseteq Events, Object(type) # "connect", IsWaiting(th, type, to)
      PROVE  Event(type, to) \in Waiting(th)
  <2>1. PICK e \in Waiting(th) : e.to = to /\ Object(e.type) = Object(type)
    BY <1>3 DEF IsWaiting
  <2>2. e.type = type
    BY <2>1, <1>3 DEF Object
  <2>3. QED
    BY <2>1, <2>2, <1>3, EventIs
<1>4. Pushable(th, << >>)
  BY DEF Pushable
<1>5. Pushable(th, <<Event(type, to)>>) <=> ~IsWaiting(th, type, to)
  BY EventIs DEF Pushable
<1>6. QED
  BY <1>1, <1>2, <1>3, <1>4, <1>5

LEMMA CallIs ==
  ASSUME IInv, NEW th \in Threads, NEW s, Calls(th, s)
  PROVE  carried[th] = << >> /\ Waiting(th) = Carried
BY WaitingIs DEF Calls, IInv

LEMMA DeliveryIs ==
  ASSUME IInv, NEW th \in Threads, NEW s \in Sides, NEW type \in EventTypes,
         Delivers(th, type, s)
  PROVE  /\ carried[th] = <<Event(type, s)>> /\ Event(type, s) \in Carried
         /\ Waiting(th) = Carried \ {Event(type, s)}
<1>1. carried[th] = <<Event(type, s)>>
  BY DEF Delivers, IInv, OneEach
<1>2. QED
  BY <1>1, WaitingIs DEF IInv

LEMMA CarriedEvents ==
  ASSUME Types
  PROVE  Carried \subseteq Events
BY DEF Types, Carried, ToSet

(* The events that are on their way tell how far the connection is.        *)
LEMMA PhaseIs ==
  ASSUME Phase, NEW type \in EventTypes, NEW s \in Sides, Event(type, s) \in Carried
  PROVE  /\ type = "CONNECT" => Asked(s)
         /\ type = "READY" => Accepted(s)
         /\ type = "ACCEPTED" => Confirmed(s)
         /\ type = "DISCONNECT" => Left(s) \/ Answered(s)
         /\ type \in {"SENT", "RECEIVED"} => Connected
<1>1. Event(type, s).type = type /\ Event(type, s).to = s
  BY EventIs
<1>2. CASE Apart
  BY <1>2 DEF Apart
<1>3. CASE Connected
  <2>1. type \in {"SENT", "RECEIVED"}
    BY <1>1, <1>3 DEF Connected, Transfers
  <2>2. QED
    BY <1>3, <2>1
<1>4. ASSUME NEW u \in Sides, NEW x \in EventTypes, Carried = {Event(x, u)}
      PROVE  type = x /\ s = u
  BY <1>1, <1>4, EventIs
<1>5. ASSUME NEW u \in Sides, Asked(u)
      PROVE  type = "CONNECT" /\ s = u
  BY <1>4, <1>5 DEF Asked, EventTypes
<1>6. ASSUME NEW u \in Sides, Accepted(u)
      PROVE  type = "READY" /\ s = u
  BY <1>4, <1>6 DEF Accepted, EventTypes
<1>7. ASSUME NEW u \in Sides, Confirmed(u)
      PROVE  type = "ACCEPTED" /\ s = u
  BY <1>4, <1>7 DEF Confirmed, EventTypes
<1>8. ASSUME NEW u \in Sides, Left(u) \/ Answered(u)
      PROVE  type = "DISCONNECT" /\ s = u
  BY <1>4, <1>8 DEF Left, Answered, EventTypes
<1>9. QED
  BY <1>2, <1>3, <1>5, <1>6, <1>7, <1>8 DEF Phase, Changing

LEMMA CalmPhase ==
  ASSUME Phase, Calm
  PROVE  Apart \/ Connected
<1>1. Carried \subseteq Transfers
  BY DEF Calm, Carried, Transfers
<1>2. ASSUME NEW u \in Sides, NEW x \in EventTypes \ {"SENT", "RECEIVED"}
      PROVE  Carried # {Event(x, u)}
  BY <1>1, EventIs DEF Transfers
<1>3. QED
  BY <1>2 DEF Phase, Changing, Asked, Accepted, Confirmed, Left, Answered, EventTypes

LEMMA QuietPhase ==
  ASSUME Phase, Quiet
  PROVE  Carried = {} /\ (Apart \/ Connected)
<1>1. Carried = {}
  BY ElementsAre DEF Quiet, Carried
<1>2. Calm
  BY ElementsAre DEF Quiet, Calm
<1>3. QED
  BY <1>1, <1>2, CalmPhase

(* What the invariant needs when a context is left.                        *)
LEMMA LeavesEmpty ==
  ASSUME IInv, NEW th \in Threads, Leave(th, << >>)
  PROVE  /\ (carried \in [Threads -> Seq(Events)])' /\ OneEach'
         /\ Carried' = Waiting(th)
<1>1. OneEach /\ carried \in [Threads -> Seq(Events)]
  BY DEF IInv, Types
<1>2. /\ (carried \in [Threads -> Seq(Events)])' /\ OneEach'
      /\ Carried' = Waiting(th) \cup ToSet(<< >>)
  BY <1>1, LeaveIs, Zenon
<1>3. QED
  BY <1>2, ElementsAre, Zenon

LEMMA LeavesOne ==
  ASSUME IInv, NEW th \in Threads, NEW type \in EventTypes, NEW to \in Sides,
         Pushable(th, <<Event(type, to)>>), Leave(th, <<Event(type, to)>>)
  PROVE  /\ (carried \in [Threads -> Seq(Events)])' /\ OneEach'
         /\ Carried' = Waiting(th) \cup {Event(type, to)}
<1>1. Event(type, to) \in Events /\ Event(type, to) \notin Waiting(th)
  BY EventIs, IsWaitingIs
<1>2. QED
  BY <1>1, LeaveIs, ElementsAre DEF IInv, Types

LEMMA TailAppend ==
  ASSUME NEW q \in Seq(Nat), q # << >>, NEW x \in Nat
  PROVE  /\ Append(q, x) # << >> /\ Head(Append(q, x)) = Head(q)
         /\ Tail(Append(q, x)) = Append(Tail(q), x)
BY SMTT(30)

LEMMA AppendNotEmpty ==
  ASSUME NEW q \in Seq(Nat), NEW x \in Nat
  PROVE  Append(q, x) # << >>
BY SMTT(30)

LEMMA BoundIs ==
  ASSUME NEW q \in Seq(Nat)
  PROVE  /\ q = << >> => Len(q) <= Bound
         /\ \A x \in Nat : Fits(q) => Len(Append(q, x)) <= Bound
         /\ Len(q) <= Bound /\ q # << >> => Len(Tail(q)) <= Bound
BY BoundsAssumption DEF Bound, Fits

LEMMA QueuesKept ==
  ASSUME QueuesFit,
         \A s \in Sides : \/ ses'[s].queue = << >> \/ ses'[s].queue = ses[s].queue
                         \/ Len(ses'[s].queue) <= Bound
  PROVE  QueuesFit'
<1>1. Len(<< >>) <= Bound
  <2>1. << >> \in Seq(Nat)
    OBVIOUS
  <2>2. QED
    BY <2>1, BoundIs
<1>2. QED
  BY <1>1 DEF QueuesFit

-----------------------------------------------------------------------------
(* Opening.                                                                *)

LEMMA BindStep ==
  ASSUME IInv, NEW th \in Threads, Quiet, Bind(th)
  PROVE  IInv' /\ (Apart \/ Changing)'
<1>0. Carried = {} /\ Waiting(th) = {}
  BY QuietPhase, CallIs DEF IInv, Bind, InsFindsConnected
<1>1. Apart /\ ses["b"] = NoSession
  <2>1. ep["b"] = None
    BY DEF Bind, InsFindsConnected
  <2>2. ~Connected
    BY <2>1 DEF Connected, Live, Sides, None
  <2>3. Apart
    BY <2>2, QuietPhase DEF IInv
  <2>4. QED
    BY <2>1, <2>3 DEF Apart, Idle, Kept, None
<1>2. /\ ep' = [ep EXCEPT !["b"] = "ACTIVE"]
      /\ failed' = failed /\ sent' = sent /\ got' = got
      /\ "b" \in Sides /\ "c" \in Sides
  BY DEF Bind, InsFindsConnected, Sides
<1>3. /\ ep' \in [Sides -> EndpointStates] /\ ep'["b"] = "ACTIVE" /\ ep'["c"] = ep["c"]
  BY <1>2 DEF IInv, Types, EndpointStates
<1>4. CASE ep["c"] \in {"DISCONNECTED", "ACTIVE"}
  <2>1. /\ ses' = [ses EXCEPT !["b"] = SessionConnect("b")]
        /\ Leave(th, <<Event("CONNECT", "c")>>)
    BY <1>4 DEF Bind, InsFindsConnected
  <2>2. /\ ses' \in [Sides -> Sessions] /\ ses'["b"] = SessionConnect("b")
        /\ ses'["c"] = ses["c"]
    BY <2>1, <1>2, ConnectIs, SetOne DEF IInv, Types
  <2>3. Idle("c")
    BY <1>1, <1>4 DEF Apart, None
  <2>4. /\ (carried \in [Threads -> Seq(Events)])' /\ OneEach'
        /\ Carried' = {Event("CONNECT", "c")}
    BY <1>0, <1>2, <2>1, LeavesOne, IsWaitingIs DEF EventTypes
  <2>5. Asked("c")'
    BY <1>3, <2>2, <2>3, <2>4, SidesAre, ConnectIs DEF Asked, Idle, Clean, Off
  <2>6. QueuesFit'
    BY <2>2, ConnectIs, QueuesKept DEF IInv, Sides
  <2>7. QED
    BY <1>2, <1>3, <2>2, <2>4, <2>5, <2>6 DEF IInv, Types, NoAbort, Phase, Changing
<1>5. CASE ep["c"] \notin {"DISCONNECTED", "ACTIVE"}
  <2>1. ses' = ses /\ carried' = carried
    BY <1>5 DEF Bind, InsFindsConnected
  <2>2. Carried' = {}
    BY <1>0, <2>1 DEF Carried
  <2>3. Apart'
    BY <1>1, <1>2, <1>3, <2>1, <2>2 DEF Apart, Idle
  <2>4. QED
    BY <1>2, <1>3, <2>1, <2>3 DEF IInv, Types, NoAbort, Phase, Changing, OneEach, QueuesFit
<1>6. QED
  BY <1>4, <1>5

LEMMA ConnectStep ==
  ASSUME IInv, NEW th \in Threads, Quiet, Connect(th)
  PROVE  IInv' /\ (Apart \/ Changing)'
<1>0. Carried = {} /\ Waiting(th) = {}
  BY QuietPhase, CallIs DEF IInv, Connect, InsFindsBound
<1>1. Apart /\ ses["c"] = NoSession /\ ses["b"] = NoSession
  <2>1. ep["c"] = None /\ ses["b"].state = "IDLE"
    BY DEF Connect, InsFindsBound
  <2>2. ~Connected
    BY <2>1 DEF Connected, Live, Sides, None
  <2>3. Apart
    BY <2>2, QuietPhase DEF IInv
  <2>4. QED
    BY <2>1, <2>3, EmptySession DEF Apart, Idle, Kept, None
<1>2. failed' = failed /\ sent' = sent /\ got' = got /\ "b" \in Sides /\ "c" \in Sides
  BY DEF Connect, InsFindsBound, Sides
<1>3. CASE ep["b"] = "ACTIVE"
  <2>1. /\ ses' = [ses EXCEPT !["c"] = SessionConnect("c")]
        /\ ep' = [ep EXCEPT !["c"] = "ACTIVE"]
        /\ Leave(th, <<Event("CONNECT", "b")>>)
    BY <1>3 DEF Connect, InsFindsBound
  <2>2. /\ ep' \in [Sides -> EndpointStates] /\ ep'["c"] = "ACTIVE" /\ ep'["b"] = ep["b"]
    BY <1>2, <2>1 DEF IInv, Types, EndpointStates
  <2>3. /\ ses' \in [Sides -> Sessions] /\ ses'["c"] = SessionConnect("c")
        /\ ses'["b"] = ses["b"]
    BY <2>1, <1>2, ConnectIs, SetOne DEF IInv, Types
  <2>4. /\ (carried \in [Threads -> Seq(Events)])' /\ OneEach'
        /\ Carried' = {Event("CONNECT", "b")}
    BY <1>0, <1>2, <2>1, LeavesOne, IsWaitingIs DEF EventTypes
  <2>5. Asked("b")'
    BY <1>1, <1>3, <2>2, <2>3, <2>4, SidesAre, ConnectIs DEF Asked, Idle, Clean, Off
  <2>6. QueuesFit'
    BY <2>3, ConnectIs, QueuesKept DEF IInv, Sides
  <2>7. QED
    BY <1>2, <2>2, <2>3, <2>4, <2>5, <2>6 DEF IInv, Types, NoAbort, Phase, Changing
<1>4. CASE ep["b"] # "ACTIVE"
  <2>1. ses' = ses /\ carried' = carried /\ ep' = [ep EXCEPT !["c"] = "DISCONNECTED"]
    BY <1>4 DEF Connect, InsFindsBound
  <2>2. ep' \in [Sides -> EndpointStates] /\ ep'["c"] = "DISCONNECTED" /\ ep'["b"] = ep["b"]
    BY <1>2, <2>1 DEF IInv, Types, EndpointStates
  <2>3. Carried' = {}
    BY <1>0, <2>1 DEF Carried
  <2>4. ep["b"] = None
    BY <1>1, <1>4, EmptySession DEF Apart, Idle, Kept
  <2>5. Apart'
    BY <1>1, <2>1, <2>2, <2>3, <2>4 DEF Apart, Idle
  <2>6. QED
    BY <1>2, <2>1, <2>2, <2>5 DEF IInv, Types, NoAbort, Phase, Changing, OneEach, QueuesFit
<1>5. QED
  BY <1>3, <1>4

-----------------------------------------------------------------------------
(* The handshake.                                                          *)

LEMMA DeliverConnectStep ==
  ASSUME IInv, NEW th \in Threads, NEW s \in Sides, DeliverConnect(th, s)
  PROVE  IInv' /\ (Apart \/ Changing)'
<1>. DEFINE o == Other(s)
            ready == <<Event("READY", o)>>
<1>0. o \in Sides /\ o # s /\ Other(o) = s /\ Sides = {s, o}
  BY SidesAre
<1>1. Carried = {Event("CONNECT", s)} /\ Waiting(th) = {} /\ Asked(s)
  <2>1. Delivers(th, "CONNECT", s)
    BY DEF DeliverConnect, SessionAccept
  <2>2. Event("CONNECT", s) \in Carried /\ Waiting(th) = Carried \ {Event("CONNECT", s)}
    BY <2>1, DeliveryIs DEF EventTypes
  <2>3. Asked(s)
    BY <2>2, PhaseIs DEF IInv, EventTypes
  <2>4. QED
    BY <2>2, <2>3 DEF Asked
<1>2. Pushable(th, ready)
  BY <1>0, <1>1, IsWaitingIs DEF EventTypes
<1>3. /\ ep' = [ep EXCEPT ![s] = "ACTIVE"]
      /\ ses' = [ses EXCEPT ![s] = Begun("READY", TRUE)]
      /\ Leave(th, ready)
      /\ failed' = failed /\ sent' = sent /\ got' = got
  <2>1. ep[s] = IF s = "c" THEN "DISCONNECTED" ELSE "ACTIVE"
    BY <1>1 DEF Asked, Idle
  <2>2. QED
    BY <2>1, <1>2 DEF DeliverConnect, SessionAccept, None, Begun
<1>4. /\ ep' \in [Sides -> EndpointStates] /\ ep'[s] = "ACTIVE" /\ ep'[o] = ep[o]
  BY <1>0, <1>3 DEF IInv, Types, EndpointStates
<1>5. /\ ses' \in [Sides -> Sessions] /\ ses'[s] = Begun("READY", TRUE) /\ ses'[o] = ses[o]
  BY <1>0, <1>3, BegunIs, SetOne DEF IInv, Types, SessionStates
<1>6. /\ (carried \in [Threads -> Seq(Events)])' /\ OneEach'
      /\ Carried' = {Event("READY", o)}
  BY <1>0, <1>1, <1>2, <1>3, LeavesOne DEF EventTypes
<1>7. Accepted(o)'
  <2>1. /\ Begun("READY", TRUE).state = "READY" /\ Begun("READY", TRUE).fsm = "active"
        /\ ~Begun("READY", TRUE).sending /\ ~Begun("READY", TRUE).receiving
        /\ Begun("READY", TRUE).queue = << >> /\ Begun("READY", TRUE).msg = 0
        /\ Begun("READY", TRUE).in = "off" /\ Begun("READY", TRUE).out = "off"
    BY BegunIs DEF SessionStates
  <2>2. QED
    BY <1>0, <1>1, <1>4, <1>5, <1>6, <2>1 DEF Accepted, Asked, Clean, Off
<1>8. QueuesFit'
  <2>1. Begun("READY", TRUE).queue = << >>
    BY BegunIs DEF SessionStates
  <2>2. QED
    BY <1>0, <1>5, <2>1, QueuesKept DEF IInv
<1>. HIDE DEF o
<1>9. QED
  BY <1>0, <1>3, <1>4, <1>5, <1>6, <1>7, <1>8 DEF IInv, Types, NoAbort, Phase, Changing

LEMMA DeliverReadyStep ==
  ASSUME IInv, NEW th \in Threads, NEW s \in Sides, DeliverReady(th, s)
  PROVE  IInv' /\ (Apart \/ Changing)'
<1>. DEFINE o == Other(s)
            accepted == <<Event("ACCEPTED", o)>>
            m == [WithPipe(ses[s]) EXCEPT !.peer = TRUE]
<1>0. o \in Sides /\ o # s /\ Other(o) = s /\ Sides = {s, o}
  BY SidesAre
<1>1. Carried = {Event("READY", s)} /\ Waiting(th) = {} /\ Accepted(s)
  <2>1. Delivers(th, "READY", s)
    BY DEF DeliverReady
  <2>2. Event("READY", s) \in Carried /\ Waiting(th) = Carried \ {Event("READY", s)}
    BY <2>1, DeliveryIs DEF EventTypes
  <2>3. Accepted(s)
    BY <2>2, PhaseIs DEF IInv, EventTypes
  <2>4. QED
    BY <2>2, <2>3 DEF Accepted
<1>2. Pushable(th, accepted)
  BY <1>0, <1>1, IsWaitingIs DEF EventTypes
<1>3. /\ ses' = [ses EXCEPT ![s] = m]
      /\ Leave(th, accepted)
      /\ ep' = ep /\ failed' = failed /\ sent' = sent /\ got' = got
  BY <1>1, <1>2 DEF DeliverReady, Accepted, Clean, None
<1>4. /\ m \in Sessions
      /\ m.state = "ACTIVE" /\ m.in = "async" /\ m.out = "idle"
      /\ m.fsm = ses[s].fsm /\ m.sending = ses[s].sending /\ m.receiving = ses[s].receiving
      /\ m.queue = ses[s].queue /\ m.msg = ses[s].msg
  BY PipeIs DEF IInv, Types
<1>. HIDE DEF m
<1>5. ses' \in [Sides -> Sessions] /\ ses'[s] = m /\ ses'[o] = ses[o]
  BY <1>0, <1>3, <1>4, SetOne DEF IInv, Types
<1>6. /\ (carried \in [Threads -> Seq(Events)])' /\ OneEach'
      /\ Carried' = {Event("ACCEPTED", o)}
  BY <1>0, <1>1, <1>2, <1>3, LeavesOne DEF EventTypes
<1>7. Confirmed(o)'
  BY <1>0, <1>1, <1>3, <1>4, <1>5, <1>6 DEF Confirmed, Accepted, Clean, Off
<1>8. QueuesFit'
  BY <1>0, <1>4, <1>5, QueuesKept DEF IInv
<1>. HIDE DEF o
<1>9. QED
  BY <1>0, <1>3, <1>5, <1>6, <1>7, <1>8 DEF IInv, Types, NoAbort, Phase, Changing

LEMMA DeliverAcceptedStep ==
  ASSUME IInv, NEW th \in Threads, NEW s \in Sides, DeliverAccepted(th, s)
  PROVE  /\ IInv' /\ Connected' /\ ep' = ep /\ sent' = sent /\ got' = got
         /\ \A u \in Sides : ses'[u].queue = << >> /\ ses'[u].msg = 0
<1>. DEFINE o == Other(s)
            m == WithPipe(ses[s])
<1>0. o \in Sides /\ o # s /\ Other(o) = s /\ Sides = {s, o}
  BY SidesAre
<1>1. Carried = {Event("ACCEPTED", s)} /\ Waiting(th) = {} /\ Confirmed(s)
  <2>1. Delivers(th, "ACCEPTED", s)
    BY DEF DeliverAccepted
  <2>2. Event("ACCEPTED", s) \in Carried /\ Waiting(th) = Carried \ {Event("ACCEPTED", s)}
    BY <2>1, DeliveryIs DEF EventTypes
  <2>3. Confirmed(s)
    BY <2>2, PhaseIs DEF IInv, EventTypes
  <2>4. QED
    BY <2>2, <2>3 DEF Confirmed
<1>2. /\ ses' = [ses EXCEPT ![s] = m]
      /\ Leave(th, << >>)
      /\ ep' = ep /\ failed' = failed /\ sent' = sent /\ got' = got
  BY <1>1 DEF DeliverAccepted, Confirmed, Clean
<1>3. /\ m \in Sessions
      /\ m.state = "ACTIVE" /\ m.in = "async" /\ m.out = "idle"
      /\ m.fsm = ses[s].fsm /\ m.sending = ses[s].sending /\ m.receiving = ses[s].receiving
      /\ m.queue = ses[s].queue /\ m.msg = ses[s].msg
  BY PipeIs DEF IInv, Types
<1>. HIDE DEF m
<1>4. ses' \in [Sides -> Sessions] /\ ses'[s] = m /\ ses'[o] = ses[o]
  BY <1>0, <1>2, <1>3, SetOne DEF IInv, Types
<1>5. /\ (carried \in [Threads -> Seq(Events)])' /\ OneEach' /\ Carried' = {}
  BY <1>1, <1>2, LeavesEmpty
<1>6. Live(s)' /\ Token(s)'
  BY <1>0, <1>1, <1>2, <1>3, <1>4, <1>5 DEF Live, Token, Confirmed, Clean
<1>7. Live(o)' /\ Token(o)'
  BY <1>0, <1>1, <1>2, <1>3, <1>4, <1>5 DEF Live, Token, Confirmed, Clean
<1>8. QueuesFit'
  BY <1>0, <1>3, <1>4, QueuesKept DEF IInv
<1>9. Connected'
  BY <1>0, <1>5, <1>6, <1>7 DEF Connected
<1>10. \A u \in Sides : ses'[u].queue = << >> /\ ses'[u].msg = 0
  BY <1>0, <1>1, <1>3, <1>4 DEF Confirmed, Clean
<1>. HIDE DEF o
<1>11. QED
  BY <1>2, <1>4, <1>5, <1>8, <1>9, <1>10 DEF IInv, Types, NoAbort, Phase

-----------------------------------------------------------------------------
(* Closing.                                                                *)

(* A session that no event refers to stops at once.                        *)
LEMMA StoppedIs ==
  ASSUME NEW th \in Threads, NEW s \in Sides, NEW n, n.state = "STOPPING",
         Waiting(th) = {}, Stopped(th, s, n)
  PROVE  /\ ses' = [ses EXCEPT ![s] = NoSession]
         /\ ep' = [ep EXCEPT ![s] = None]
         /\ failed' = failed
BY IsWaitingIs, SidesAre DEF Stopped, EventTypes

LEMMA CloseStep ==
  ASSUME IInv, NEW th \in Threads, NEW s \in Sides, Quiet, Close(th, s)
  PROVE  IInv' /\ (Apart \/ Changing)'
<1>. DEFINE o == Other(s)
            n == StopSession(ses[s])
            tell == <<Event("DISCONNECT", o)>>
<1>0. o \in Sides /\ o # s /\ Other(o) = s /\ Sides = {s, o}
  BY SidesAre
<1>1. Carried = {} /\ Waiting(th) = {} /\ (Apart \/ Connected)
  BY QuietPhase, CallIs DEF IInv, Close
<1>2. ep[s] \in {"DISCONNECTED", "ACTIVE"} /\ ses[s] \in Sessions
  BY DEF Close, IInv, Types
<1>3. CASE Apart /\ ses[s] = NoSession
  <2>1. /\ ep' = [ep EXCEPT ![s] = None] /\ ses' = ses /\ carried' = carried
        /\ failed' = failed /\ sent' = sent /\ got' = got
    BY <1>3, EmptySession DEF Close
  <2>2. ep' \in [Sides -> EndpointStates] /\ ep'[s] = None /\ ep'[o] = ep[o]
    BY <1>0, <2>1 DEF IInv, Types, EndpointStates
  <2>3. Carried' = {}
    BY <1>1, <2>1 DEF Carried
  <2>4. Apart'
    BY <1>3, <1>0, <2>1, <2>2, <2>3 DEF Apart, Idle, Kept, Off, Sides
  <2>5. QED
    BY <2>1, <2>2, <2>4 DEF IInv, Types, NoAbort, Phase, Changing, OneEach, QueuesFit
<1>4. CASE Apart /\ ses[s] # NoSession
  <2>1. s = "b" /\ Kept
    BY <1>4 DEF Apart, Idle, Sides
  <2>2. n.state = "STOPPING"
    BY <1>2, <2>1, StopIs DEF Kept
  <2>. HIDE DEF n
  <2>3. Stopped(th, s, n) /\ carried' = carried /\ sent' = sent /\ got' = got
    BY <2>1, <2>2 DEF Close, Kept, n
  <2>4. /\ ses' = [ses EXCEPT ![s] = NoSession]
        /\ ep' = [ep EXCEPT ![s] = None]
        /\ failed' = failed
    BY <1>1, <2>2, <2>3, StoppedIs
  <2>5. ep' \in [Sides -> EndpointStates] /\ ep'[s] = None /\ ep'[o] = ep[o]
    BY <1>0, <2>4 DEF IInv, Types, EndpointStates
  <2>6. ses' \in [Sides -> Sessions] /\ ses'[s] = NoSession /\ ses'[o] = ses[o]
    BY <1>0, <2>4, EmptySession, SetOne DEF IInv, Types
  <2>7. Carried' = {}
    BY <1>1, <2>3 DEF Carried
  <2>8. Apart'
    BY <1>4, <1>0, <2>1, <2>5, <2>6, <2>7 DEF Apart, Idle, Sides
  <2>9. QueuesFit'
    BY <1>0, <2>6, EmptySession, QueuesKept DEF IInv
  <2>10. QED
    BY <2>3, <2>4, <2>5, <2>6, <2>8, <2>9 DEF IInv, Types, NoAbort, Phase, Changing, OneEach
<1>5. CASE Connected
  <2>1. Live(s) /\ Live(o)
    BY <1>0, <1>5 DEF Connected
  <2>2. /\ n \in Sessions /\ n.state = "STOPPING_PEER" /\ n.fsm = "stopping"
        /\ n.in = "off" /\ n.out = "off" /\ n.queue = ses[s].queue
    BY <1>2, <2>1, StopIs DEF Live
  <2>. HIDE DEF n
  <2>3. Pushable(th, tell)
    BY <1>0, <1>1, IsWaitingIs DEF EventTypes
  <2>4. /\ ep' = [ep EXCEPT ![s] = "STOPPING"] /\ ses' = [ses EXCEPT ![s] = n]
        /\ Leave(th, tell)
        /\ failed' = failed /\ sent' = sent /\ got' = got
    BY <2>1, <2>2, <2>3 DEF Close, Live, n
  <2>5. ep' \in [Sides -> EndpointStates] /\ ep'[s] = "STOPPING" /\ ep'[o] = ep[o]
    BY <1>0, <2>4 DEF IInv, Types, EndpointStates
  <2>6. ses' \in [Sides -> Sessions] /\ ses'[s] = n /\ ses'[o] = ses[o]
    BY <1>0, <2>2, <2>4, SetOne DEF IInv, Types
  <2>7. /\ (carried \in [Threads -> Seq(Events)])' /\ OneEach'
        /\ Carried' = {Event("DISCONNECT", o)}
    BY <1>0, <1>1, <2>3, <2>4, LeavesOne DEF EventTypes
  <2>8. Left(o)'
    BY <1>0, <2>1, <2>2, <2>5, <2>6, <2>7 DEF Left, Live, Waits, Off
  <2>9. QueuesFit'
    BY <1>0, <2>2, <2>6, QueuesKept DEF IInv
  <2>. HIDE DEF o
  <2>10. QED
    BY <1>0, <2>4, <2>5, <2>6, <2>7, <2>8, <2>9 DEF IInv, Types, NoAbort, Phase, Changing
<1>6. QED
  BY <1>1, <1>3, <1>4, <1>5

LEMMA DeliverDisconnectStep ==
  ASSUME IInv, NEW th \in Threads, NEW s \in Sides, DeliverDisconnect(th, s)
  PROVE  IInv' /\ (Apart \/ Changing)'
<1>. DEFINE o == Other(s)
            n == [ses[s] EXCEPT !.state = "STOPPING"]
            m == [ses[s] EXCEPT !.state = "DISCONNECTED", !.peer = FALSE,
                                !.in = "off", !.out = "off"]
            k == IF s = "c" THEN NoSession ELSE m
<1>0. o \in Sides /\ o # s /\ Other(o) = s /\ Sides = {s, o}
  BY SidesAre
<1>1. Carried = {Event("DISCONNECT", s)} /\ Waiting(th) = {} /\ (Left(s) \/ Answered(s))
  <2>1. Delivers(th, "DISCONNECT", s)
    BY DEF DeliverDisconnect, PeerLeft
  <2>2. /\ Event("DISCONNECT", s) \in Carried
        /\ Waiting(th) = Carried \ {Event("DISCONNECT", s)}
    BY <2>1, DeliveryIs DEF EventTypes
  <2>3. Left(s) \/ Answered(s)
    BY <2>2, PhaseIs DEF IInv, EventTypes
  <2>4. QED
    BY <2>2, <2>3 DEF Left, Answered
<1>2. ses[s] \in Sessions
  BY DEF IInv, Types
<1>3. CASE Answered(s)
  <2>1. n.state = "STOPPING"
    BY <1>2 DEF Sessions
  <2>. HIDE DEF n
  <2>2. Stopped(th, s, n) /\ Leave(th, << >>) /\ sent' = sent /\ got' = got
    BY <1>3 DEF DeliverDisconnect, PeerLeft, Answered, Waits, n
  <2>3. /\ ses' = [ses EXCEPT ![s] = NoSession]
        /\ ep' = [ep EXCEPT ![s] = None]
        /\ failed' = failed
    BY <1>1, <2>1, <2>2, StoppedIs
  <2>4. ep' \in [Sides -> EndpointStates] /\ ep'[s] = None /\ ep'[o] = ep[o]
    BY <1>0, <2>3 DEF IInv, Types, EndpointStates
  <2>5. ses' \in [Sides -> Sessions] /\ ses'[s] = NoSession /\ ses'[o] = ses[o]
    BY <1>0, <2>3, EmptySession, SetOne DEF IInv, Types
  <2>6. /\ (carried \in [Threads -> Seq(Events)])' /\ OneEach' /\ Carried' = {}
    BY <1>1, <2>2, LeavesEmpty
  <2>7. Apart'
    BY <1>0, <1>3, <2>4, <2>5, <2>6 DEF Apart, Answered, Idle, Kept, Off, Sides
  <2>8. QueuesFit'
    BY <1>0, <2>5, EmptySession, QueuesKept DEF IInv
  <2>9. QED
    BY <2>2, <2>3, <2>4, <2>5, <2>6, <2>7, <2>8 DEF IInv, Types, NoAbort, Phase, Changing
<1>4. CASE Left(s)
  <2>1. Answer(s) = <<Event("DISCONNECT", o)>>
    BY DEF Answer
  <2>2. Pushable(th, Answer(s))
    BY <1>0, <1>1, <2>1, IsWaitingIs DEF EventTypes
  <2>3. \A x \in {<<"CONNECT", o>>, <<"SENT", s>>, <<"RECEIVED", s>>} :
            ~IsWaiting(th, x[1], x[2])
    BY <1>0, <1>1, IsWaitingIs DEF EventTypes
  <2>4. /\ m \in Sessions /\ m.state = "DISCONNECTED" /\ m.fsm = ses[s].fsm
        /\ m.in = "off" /\ m.out = "off" /\ m.queue = ses[s].queue
    BY <1>2, KeepIs
  <2>5. /\ ep' = [ep EXCEPT ![s] = IF s = "c" THEN "DISCONNECTED" ELSE ep[s]]
        /\ ses' = [ses EXCEPT ![s] = k]
        /\ Leave(th, Answer(s))
        /\ failed' = failed /\ sent' = sent /\ got' = got
    BY <1>4, <2>2, <2>3 DEF DeliverDisconnect, Left, Live
  <2>. HIDE DEF m
  <2>6. k \in Sessions
    BY <2>4, EmptySession
  <2>7. /\ ep' \in [Sides -> EndpointStates] /\ ep'[o] = ep[o]
        /\ ep'[s] = IF s = "c" THEN "DISCONNECTED" ELSE ep[s]
    BY <1>0, <2>5 DEF IInv, Types, EndpointStates
  <2>8. ses' \in [Sides -> Sessions] /\ ses'[s] = k /\ ses'[o] = ses[o]
    BY <1>0, <2>5, <2>6, SetOne DEF IInv, Types
  <2>9. /\ (carried \in [Threads -> Seq(Events)])' /\ OneEach'
        /\ Carried' = {Event("DISCONNECT", o)}
    BY <1>0, <1>1, <2>1, <2>2, <2>5, LeavesOne DEF EventTypes
  <2>10. Answered(o)'
    BY <1>0, <1>4, <2>4, <2>7, <2>8, <2>9
       DEF Answered, Left, Live, Waits, Off, Idle, Kept, Sides
  <2>11. QueuesFit'
    BY <1>0, <2>4, <2>8, EmptySession, QueuesKept DEF IInv
  <2>. HIDE DEF o
  <2>12. QED
    BY <1>0, <2>5, <2>7, <2>8, <2>9, <2>10, <2>11 DEF IInv, Types, NoAbort, Phase, Changing
<1>5. QED
  BY <1>1, <1>3, <1>4

-----------------------------------------------------------------------------
(* Transfer of messages: what each operation does, and that it keeps the   *)
(* invariant.                                                              *)

LEMMA TransfersAre ==
  ASSUME NEW s \in Sides, NEW o \in Sides, s # o
  PROVE  /\ {Event("SENT", s), Event("SENT", o), Event("RECEIVED", s), Event("RECEIVED", o)}
               \subseteq Transfers
         /\ Event("SENT", s) # Event("SENT", o)
         /\ Event("RECEIVED", s) # Event("RECEIVED", o)
         /\ \A u, v \in Sides : Event("SENT", u) # Event("RECEIVED", v)
BY DEF Event, Transfers

LEMMA SendDoes ==
  ASSUME IInv, NEW th \in Threads, NEW s \in Sides, NEW o, o = Other(s), Calm, Send(th, s)
  PROVE  /\ Connected /\ ~ses[s].sending /\ sent[s] + 1 \in 1..MaxMsgs
         /\ sent' = [sent EXCEPT ![s] = sent[s] + 1]
         /\ ep' = ep /\ failed' = failed /\ got' = got
         /\ ses' \in [Sides -> Sessions]
         /\ ses'[s].msg = sent[s] + 1 /\ ses'[s].sending /\ ses'[s].out = "async"
         /\ ses'[s].state = ses[s].state /\ ses'[s].fsm = ses[s].fsm /\ ses'[s].in = ses[s].in
         /\ ses'[s].receiving = ses[s].receiving /\ ses'[s].queue = ses[s].queue
         /\ ses'[o] = ses[o]
         /\ (carried \in [Threads -> Seq(Events)])' /\ OneEach'
         /\ Carried' = Carried \cup {Event("SENT", o)}
<1>0. o \in Sides /\ o # s /\ Other(o) = s /\ Sides = {s, o}
  BY SidesAre
<1>1. Connected
  <2>1. ses[s].out = "idle"
    BY DEF Send
  <2>2. ~Apart
    BY <2>1, EmptySession DEF Apart, Idle, Kept, Off, Sides
  <2>3. QED
    BY <2>2, CalmPhase DEF IInv
<1>2. ~ses[s].sending
  BY <1>1 DEF Connected, Token, Send
<1>3. Event("SENT", o) \notin Carried /\ Waiting(th) = Carried
  BY <1>1, <1>2, CallIs DEF Connected, Token, Send
<1>4. Pushable(th, <<Event("SENT", o)>>)
  <2>1. Carried \subseteq Events
    BY CarriedEvents DEF IInv
  <2>2. QED
    BY <1>0, <1>3, <2>1, IsWaitingIs DEF EventTypes, Object
<1>5. sent[s] + 1 \in 1..MaxMsgs
  BY BoundsAssumption DEF Send, IInv, Types
<1>6. /\ sent' = [sent EXCEPT ![s] = sent[s] + 1]
      /\ ses' = [ses EXCEPT ![s].msg = sent[s] + 1, ![s].sending = TRUE, ![s].out = "async"]
      /\ Leave(th, <<Event("SENT", o)>>)
      /\ ep' = ep /\ failed' = failed /\ got' = got
  BY <1>1, <1>2, <1>4 DEF Send, Connected, Live
<1>7. /\ ses' \in [Sides -> Sessions]
      /\ ses'[s].msg = sent[s] + 1 /\ ses'[s].sending /\ ses'[s].out = "async"
      /\ ses'[s].state = ses[s].state /\ ses'[s].fsm = ses[s].fsm /\ ses'[s].in = ses[s].in
      /\ ses'[s].receiving = ses[s].receiving /\ ses'[s].queue = ses[s].queue
      /\ \A u \in Sides : u # s => ses'[u] = ses[u]
  <2>1. sent[s] + 1 \in 0..MaxMsgs /\ ses \in [Sides -> Sessions]
    BY <1>5 DEF IInv, Types
  <2>2. PICK v \in 0..MaxMsgs : v = sent[s] + 1
    BY <2>1
  <2>3. ses' = Exposing(ses, s, v)
    BY <2>2, <1>6 DEF Exposing
  <2>4. QED
    BY <2>1, <2>2, <2>3, SendIs
<1>8. /\ (carried \in [Threads -> Seq(Events)])' /\ OneEach'
      /\ Carried' = Carried \cup {Event("SENT", o)}
  BY <1>0, <1>3, <1>4, <1>6, LeavesOne DEF EventTypes
<1>9. QED
  BY <1>0, <1>1, <1>2, <1>5, <1>6, <1>7, <1>8

LEMMA SendStep ==
  ASSUME IInv, NEW th \in Threads, NEW s \in Sides, Calm, Send(th, s)
  PROVE  IInv'
<1>1. PICK o \in Sides : o = Other(s) /\ o # s /\ Other(o) = s /\ Sides = {s, o}
  BY SidesAre
<1>2. /\ Connected /\ ~ses[s].sending /\ sent[s] + 1 \in 1..MaxMsgs
      /\ sent' = [sent EXCEPT ![s] = sent[s] + 1]
      /\ ep' = ep /\ failed' = failed /\ got' = got
      /\ ses' \in [Sides -> Sessions]
      /\ ses'[s].msg = sent[s] + 1 /\ ses'[s].sending /\ ses'[s].out = "async"
      /\ ses'[s].state = ses[s].state /\ ses'[s].fsm = ses[s].fsm /\ ses'[s].in = ses[s].in
      /\ ses'[s].receiving = ses[s].receiving /\ ses'[s].queue = ses[s].queue
      /\ ses'[o] = ses[o]
      /\ (carried \in [Threads -> Seq(Events)])' /\ OneEach'
      /\ Carried' = Carried \cup {Event("SENT", o)}
  BY <1>1, SendDoes
<1>3. Live(s)' /\ Live(o)'
  BY <1>1, <1>2 DEF Connected, Live
<1>4. Token(s)'
  BY <1>1, <1>2, TransfersAre DEF Connected, Token
<1>5. Token(o)'
  BY <1>1, <1>2, TransfersAre DEF Connected, Token
<1>6. Connected'
  BY <1>1, <1>2, <1>3, <1>4, <1>5, TransfersAre DEF Connected
<1>7. QueuesFit'
  BY <1>1, <1>2, QueuesKept DEF IInv
<1>8. sent' \in [Sides -> Nat]
  BY <1>2 DEF IInv, Types
<1>9. QED
  BY <1>2, <1>6, <1>7, <1>8 DEF IInv, Types, NoAbort, Phase

LEMMA DeliverReceivedDoes ==
  ASSUME IInv, NEW th \in Threads, NEW s \in Sides, NEW o, o = Other(s),
         DeliverReceived(th, s)
  PROVE  /\ Connected /\ Event("RECEIVED", s) \in Carried
         /\ ep' = ep /\ failed' = failed /\ got' = got /\ sent' = sent
         /\ ses' \in [Sides -> Sessions]
         /\ ses'[s].msg = ses[s].msg /\ ~ses'[s].sending /\ ses'[s].out = "idle"
         /\ ses'[s].state = ses[s].state /\ ses'[s].fsm = ses[s].fsm /\ ses'[s].in = ses[s].in
         /\ ses'[s].receiving = ses[s].receiving /\ ses'[s].queue = ses[s].queue
         /\ ses'[o] = ses[o]
         /\ (carried \in [Threads -> Seq(Events)])' /\ OneEach'
         /\ Carried' = Carried \ {Event("RECEIVED", s)}
<1>0. o \in Sides /\ o # s
  BY SidesAre
<1>1. /\ Event("RECEIVED", s) \in Carried
      /\ Waiting(th) = Carried \ {Event("RECEIVED", s)}
  BY DeliveryIs DEF EventTypes, DeliverReceived
<1>2. Connected
  BY <1>1, PhaseIs DEF IInv, EventTypes
<1>3. ses[s].fsm = "active" /\ ses[s].state = "ACTIVE" /\ ses[s].sending /\ ses[s].out = "async"
  BY <1>1, <1>2 DEF Connected, Live, Token
<1>4. /\ ses' = [ses EXCEPT ![s].sending = FALSE, ![s].out = "idle"]
      /\ Leave(th, << >>)
      /\ ep' = ep /\ failed' = failed /\ got' = got /\ sent' = sent
  BY <1>3 DEF DeliverReceived
<1>5. /\ ses' \in [Sides -> Sessions]
      /\ ses'[s].msg = ses[s].msg /\ ~ses'[s].sending /\ ses'[s].out = "idle"
      /\ ses'[s].state = ses[s].state /\ ses'[s].fsm = ses[s].fsm /\ ses'[s].in = ses[s].in
      /\ ses'[s].receiving = ses[s].receiving /\ ses'[s].queue = ses[s].queue
      /\ \A u \in Sides : u # s => ses'[u] = ses[u]
  <2>1. ses \in [Sides -> Sessions]
    BY DEF IInv, Types
  <2>2. ses' = Confirming(ses, s)
    BY <1>4 DEF Confirming
  <2>3. QED
    BY <2>1, <2>2, ConfirmIs
<1>6. /\ (carried \in [Threads -> Seq(Events)])' /\ OneEach'
      /\ Carried' = Carried \ {Event("RECEIVED", s)}
  BY <1>1, <1>4, LeavesEmpty
<1>7. QED
  BY <1>0, <1>1, <1>2, <1>4, <1>5, <1>6

LEMMA DeliverReceivedStep ==
  ASSUME IInv, NEW th \in Threads, NEW s \in Sides, DeliverReceived(th, s)
  PROVE  IInv'
<1>1. PICK o \in Sides : o = Other(s) /\ o # s /\ Other(o) = s /\ Sides = {s, o}
  BY SidesAre
<1>2. /\ Connected /\ Event("RECEIVED", s) \in Carried
      /\ ep' = ep /\ failed' = failed /\ got' = got /\ sent' = sent
      /\ ses' \in [Sides -> Sessions]
      /\ ses'[s].msg = ses[s].msg /\ ~ses'[s].sending /\ ses'[s].out = "idle"
      /\ ses'[s].state = ses[s].state /\ ses'[s].fsm = ses[s].fsm /\ ses'[s].in = ses[s].in
      /\ ses'[s].receiving = ses[s].receiving /\ ses'[s].queue = ses[s].queue
      /\ ses'[o] = ses[o]
      /\ (carried \in [Threads -> Seq(Events)])' /\ OneEach'
      /\ Carried' = Carried \ {Event("RECEIVED", s)}
  BY <1>1, DeliverReceivedDoes
<1>3. Live(s)' /\ Live(o)'
  BY <1>1, <1>2 DEF Connected, Live
<1>4. Token(s)'
  BY <1>1, <1>2, TransfersAre DEF Connected, Token
<1>5. Token(o)'
  BY <1>1, <1>2, TransfersAre DEF Connected, Token
<1>6. Connected'
  BY <1>1, <1>2, <1>3, <1>4, <1>5 DEF Connected
<1>7. QueuesFit'
  BY <1>1, <1>2, QueuesKept DEF IInv
<1>8. QED
  BY <1>2, <1>6, <1>7 DEF IInv, Types, NoAbort, Phase

LEMMA DeliverSentDoes ==
  ASSUME IInv, NEW th \in Threads, NEW s \in Sides, NEW o, o = Other(s), DeliverSent(th, s)
  PROVE  /\ Connected /\ Event("SENT", s) \in Carried
         /\ ep' = ep /\ failed' = failed /\ got' = got /\ sent' = sent
         /\ ses' \in [Sides -> Sessions]
         /\ (carried \in [Threads -> Seq(Events)])' /\ OneEach'
         /\ \/ /\ Carried' = Carried \ {Event("SENT", s)}
               /\ ses'[s].msg = ses[s].msg /\ ses'[s].sending = ses[s].sending
               /\ ses'[s].out = ses[s].out
               /\ ses'[s].state = ses[s].state /\ ses'[s].fsm = ses[s].fsm
               /\ ses'[s].in = ses[s].in
               /\ ses'[s].receiving /\ ses'[s].queue = ses[s].queue
               /\ ses'[o] = ses[o]
            \/ /\ Fits(ses[s].queue) /\ ses[o].msg \in Nat \ {0}
               /\ Carried' = (Carried \ {Event("SENT", s)}) \cup {Event("RECEIVED", o)}
               /\ ses'[s].queue = Append(ses[s].queue, ses[o].msg) /\ ses'[s].in = "idle"
               /\ ses'[s].receiving = ses[s].receiving
               /\ ses'[s].state = ses[s].state /\ ses'[s].fsm = ses[s].fsm
               /\ ses'[s].out = ses[s].out
               /\ ses'[s].sending = ses[s].sending /\ ses'[s].msg = ses[s].msg
               /\ ses'[o].msg = 0
               /\ ses'[o].state = ses[o].state /\ ses'[o].fsm = ses[o].fsm
               /\ ses'[o].out = ses[o].out
               /\ ses'[o].in = ses[o].in /\ ses'[o].sending = ses[o].sending
               /\ ses'[o].receiving = ses[o].receiving /\ ses'[o].queue = ses[o].queue
<1>0. o \in Sides /\ o # s /\ s # o /\ Other(o) = s /\ Sides = {s, o}
  BY SidesAre
<1>1. /\ Event("SENT", s) \in Carried
      /\ Waiting(th) = Carried \ {Event("SENT", s)}
  BY DeliveryIs DEF EventTypes, DeliverSent
<1>2. Connected
  BY <1>1, PhaseIs DEF IInv, EventTypes
<1>3. /\ ses[s].fsm = "active" /\ ses[s].state = "ACTIVE"
      /\ ses[s].queue = << >> => ses[s].in = "async"
      /\ ses[s] \in Sessions /\ ses[o] \in Sessions /\ ses \in [Sides -> Sessions]
  BY <1>0, <1>2 DEF Connected, Live, IInv, Types, Sessions
<1>4. ses[o].msg \in Nat \ {0} /\ Event("RECEIVED", o) \notin Carried
  <2>1. ses[o].msg \in Nat
    BY <1>3, BoundsAssumption DEF Sessions
  <2>2. QED
    BY <1>0, <1>1, <1>2, <2>1 DEF Connected, Token
<1>5. CASE ~Fits(ses[s].queue)
  <2>1. /\ ses' = Parking(ses, s)
        /\ Leave(th, << >>)
        /\ ep' = ep /\ failed' = failed /\ got' = got /\ sent' = sent
    BY <1>3, <1>5 DEF DeliverSent, Parking
  <2>2. /\ ses' \in [Sides -> Sessions]
        /\ ses'[s].msg = ses[s].msg /\ ses'[s].sending = ses[s].sending
        /\ ses'[s].out = ses[s].out
        /\ ses'[s].state = ses[s].state /\ ses'[s].fsm = ses[s].fsm /\ ses'[s].in = ses[s].in
        /\ ses'[s].receiving /\ ses'[s].queue = ses[s].queue
        /\ \A u \in Sides : u # s => ses'[u] = ses[u]
    BY <1>3, <2>1, ParkIs
  <2>3. /\ (carried \in [Threads -> Seq(Events)])' /\ OneEach'
        /\ Carried' = Carried \ {Event("SENT", s)}
    BY <1>1, <2>1, LeavesEmpty
  <2>4. QED
    BY <1>0, <1>1, <1>2, <2>1, <2>2, <2>3
<1>6. CASE Fits(ses[s].queue)
  <2>1. Pushable(th, <<Event("RECEIVED", o)>>)
    <3>1. Waiting(th) \subseteq Events /\ Event("RECEIVED", o) \notin Waiting(th)
      BY <1>1, <1>4, CarriedEvents DEF IInv
    <3>2. QED
      BY <1>0, <3>1, IsWaitingIs DEF EventTypes, Object
  <2>2. PICK q \in Seq(Nat) : q = Append(ses[s].queue, ses[o].msg)
    <3>1. ses[s].queue \in Seq(Nat) /\ ses[o].msg \in Nat
      BY <1>3, <1>4 DEF Sessions
    <3>2. QED
      BY <3>1, AppendProperties
  <2>3. /\ ses' = [Moved(s) EXCEPT ![s].in = "idle"]
        /\ Leave(th, <<Event("RECEIVED", o)>>)
        /\ ep' = ep /\ failed' = failed /\ got' = got /\ sent' = sent
    BY <1>3, <1>6, <2>1 DEF DeliverSent
  <2>4. ses' = Moving(ses, s, o, q)
    BY <2>2, <2>3 DEF Moving, Moved
  <2>5. /\ ses' \in [Sides -> Sessions]
        /\ ses'[s].queue = q /\ ses'[s].in = "idle" /\ ses'[s].receiving = ses[s].receiving
        /\ ses'[s].state = ses[s].state /\ ses'[s].fsm = ses[s].fsm /\ ses'[s].out = ses[s].out
        /\ ses'[s].sending = ses[s].sending /\ ses'[s].msg = ses[s].msg
        /\ ses'[o].msg = 0
        /\ ses'[o].state = ses[o].state /\ ses'[o].fsm = ses[o].fsm /\ ses'[o].out = ses[o].out
        /\ ses'[o].in = ses[o].in /\ ses'[o].sending = ses[o].sending
        /\ ses'[o].receiving = ses[o].receiving /\ ses'[o].queue = ses[o].queue
    <3>1. o \in Sides /\ s # o /\ ses \in [Sides -> Sessions] /\ q \in Seq(Nat)
      BY <1>0, <1>3, <2>2
    <3>2. QED
      <4>1. MoveResult(ses, ses', s, o, q, ses[s].receiving)
        BY <3>1, <2>4, MoveIs, Zenon
      <4>2. QED
        BY <4>1 DEF MoveResult
  <2>6. /\ (carried \in [Threads -> Seq(Events)])' /\ OneEach'
        /\ Carried' = (Carried \ {Event("SENT", s)}) \cup {Event("RECEIVED", o)}
    BY <1>0, <1>1, <2>1, <2>3, LeavesOne DEF EventTypes
  <2>7. QED
    BY <1>1, <1>2, <1>4, <1>6, <2>2, <2>3, <2>5, <2>6, Zenon
<1>7. QED
  BY <1>5, <1>6

LEMMA RecvDoes ==
  ASSUME IInv, NEW th \in Threads, NEW s \in Sides, NEW o, o = Other(s), Calm, Recv(th, s)
  PROVE  /\ Connected /\ ses[s].queue # << >>
         /\ ep' = ep /\ failed' = failed /\ sent' = sent
         /\ got' = [got EXCEPT ![s] = Head(ses[s].queue)]
         /\ ses' \in [Sides -> Sessions]
         /\ (carried \in [Threads -> Seq(Events)])' /\ OneEach'
         /\ ses'[s].in = IF ses'[s].queue = << >> THEN "async" ELSE "idle"
         /\ ses'[s].state = ses[s].state /\ ses'[s].fsm = ses[s].fsm
         /\ ses'[s].out = ses[s].out
         /\ ses'[s].sending = ses[s].sending /\ ses'[s].msg = ses[s].msg
         /\ \/ /\ Carried' = Carried
               /\ ses'[s].queue = Tail(ses[s].queue) /\ ses'[s].receiving = ses[s].receiving
               /\ ses'[o] = ses[o]
            \/ /\ Fits(Tail(ses[s].queue)) /\ ses[s].receiving /\ ses[o].msg \in Nat \ {0}
               /\ Carried' = Carried \cup {Event("RECEIVED", o)}
               /\ ses'[s].queue = Append(Tail(ses[s].queue), ses[o].msg)
               /\ ~ses'[s].receiving
               /\ ses'[o].msg = 0
               /\ ses'[o].state = ses[o].state /\ ses'[o].fsm = ses[o].fsm
               /\ ses'[o].out = ses[o].out
               /\ ses'[o].in = ses[o].in /\ ses'[o].sending = ses[o].sending
               /\ ses'[o].receiving = ses[o].receiving /\ ses'[o].queue = ses[o].queue
<1>0. o \in Sides /\ o # s /\ s # o /\ Other(o) = s /\ Sides = {s, o}
  BY SidesAre
<1>1. Connected
  <2>1. ses[s].in = "idle"
    BY DEF Recv
  <2>2. ~Apart
    BY <2>1, EmptySession DEF Apart, Idle, Kept, Off, Sides
  <2>3. QED
    BY <2>2, CalmPhase DEF IInv
<1>2. ses[s].state = "ACTIVE" /\ ses[s].queue # << >>
  BY <1>1 DEF Connected, Live, Recv
<1>3. ses[s] \in Sessions /\ ses[o] \in Sessions /\ ses \in [Sides -> Sessions]
  BY <1>0 DEF IInv, Types
<1>4. PICK q \in Seq(Nat) : q = Tail(ses[s].queue)
  <2>1. ses[s].queue \in Seq(Nat)
    BY <1>3 DEF Sessions
  <2>2. QED
    BY <1>2, <2>1, HeadTailProperties
<1>5. Waiting(th) = Carried
  BY CallIs DEF Recv
<1>6. Pushable(th, ReplyTo(s)) =>
        /\ ses' = AfterRecv(s) /\ Leave(th, ReplyTo(s))
        /\ got' = [got EXCEPT ![s] = Head(ses[s].queue)]
        /\ ep' = ep /\ failed' = failed /\ sent' = sent
  BY <1>2 DEF Recv
<1>7. CASE ~Takes(s)
  <2>. DEFINE i == IF q = << >> THEN "async" ELSE "idle"
  <2>1. ReplyTo(s) = << >> /\ Pushable(th, ReplyTo(s))
    BY <1>7, IsWaitingIs, <1>0 DEF ReplyTo, EventTypes
  <2>2. ses' = Trimming(ses, s, q, i)
    <3>1. [ses EXCEPT ![s].queue = Tail(ses[s].queue)][s].queue = q
      BY <1>3, <1>4 DEF Sessions
    <3>2. ses' = [[ses EXCEPT ![s].queue = Tail(ses[s].queue)] EXCEPT ![s].in =
                     IF [ses EXCEPT ![s].queue = Tail(ses[s].queue)][s].queue = << >>
                     THEN "async" ELSE "idle"]
      BY <1>6, <1>7, <2>1 DEF AfterRecv
    <3>3. QED
      BY <3>1, <3>2, <1>4 DEF Trimming
  <2>3. i \in {"idle", "async"}
    OBVIOUS
  <2>4. /\ ses' \in [Sides -> Sessions]
        /\ ses'[s].queue = q /\ ses'[s].in = i /\ ses'[s].receiving = ses[s].receiving
        /\ ses'[s].state = ses[s].state /\ ses'[s].fsm = ses[s].fsm /\ ses'[s].out = ses[s].out
        /\ ses'[s].sending = ses[s].sending /\ ses'[s].msg = ses[s].msg
        /\ \A u \in Sides : u # s => ses'[u] = ses[u]
    <3>. HIDE DEF i
    <3>1. QED
      BY <1>3, <2>2, <2>3, TrimIs
  <2>5. /\ (carried \in [Threads -> Seq(Events)])' /\ OneEach' /\ Carried' = Carried
    BY <1>5, <1>6, <2>1, LeavesEmpty
  <2>6. QED
    BY <1>0, <1>1, <1>2, <1>4, <1>6, <2>1, <2>4, <2>5
<1>8. CASE Takes(s)
  <2>1. ses[s].receiving /\ Fits(Tail(ses[s].queue))
    BY <1>8 DEF Takes
  <2>2. PICK x \in Nat : x = ses[o].msg /\ x # 0
    <3>1. ses[o].msg \in Nat
      BY <1>3, BoundsAssumption DEF Sessions
    <3>2. QED
      BY <1>0, <1>1, <2>1, <3>1 DEF Connected, Token
  <2>3. Event("RECEIVED", o) \notin Carried
    BY <1>0, <1>1, <2>1 DEF Connected, Token
  <2>4. ReplyTo(s) = <<Event("RECEIVED", o)>> /\ Pushable(th, ReplyTo(s))
    <3>1. Waiting(th) \subseteq Events
      BY <1>5, CarriedEvents DEF IInv
    <3>2. QED
      BY <1>0, <1>5, <1>8, <2>3, <3>1, IsWaitingIs DEF ReplyTo, EventTypes, Object
  <2>5. ses' = Taking(ses, s, o, q, x)
    <3>. DEFINE n == [ses EXCEPT ![s].queue = q]
                m == [n EXCEPT ![s].queue = Append(@, x), ![o].msg = 0,
                               ![s].receiving = FALSE]
    <3>1. m[s].queue = Append(q, x)
      BY <1>0, <1>3 DEF Sessions
    <3>2. Append(q, x) # << >>
      OBVIOUS
    <3>3. ses' = [m EXCEPT ![s].in = IF m[s].queue = << >> THEN "async" ELSE "idle"]
      BY <1>4, <1>6, <1>8, <2>2, <2>4 DEF AfterRecv
    <3>4. ses' = [m EXCEPT ![s].in = "idle"]
      BY <3>1, <3>2, <3>3
    <3>5. QED
      BY <3>4 DEF Taking
  <2>6. /\ ses' \in [Sides -> Sessions]
        /\ ses'[s].queue = Append(q, x) /\ ses'[s].in = "idle" /\ ~ses'[s].receiving
        /\ ses'[s].state = ses[s].state /\ ses'[s].fsm = ses[s].fsm /\ ses'[s].out = ses[s].out
        /\ ses'[s].sending = ses[s].sending /\ ses'[s].msg = ses[s].msg
        /\ ses'[o].msg = 0
        /\ ses'[o].state = ses[o].state /\ ses'[o].fsm = ses[o].fsm /\ ses'[o].out = ses[o].out
        /\ ses'[o].in = ses[o].in /\ ses'[o].sending = ses[o].sending
        /\ ses'[o].receiving = ses[o].receiving /\ ses'[o].queue = ses[o].queue
    <3>1. o \in Sides /\ s # o /\ ses \in [Sides -> Sessions] 
          /\ q \in Seq(Nat) /\ x \in Nat
      BY <1>0, <1>3, <1>4, <2>2
    <3>2. QED
      <4>1. MoveResult(ses, ses', s, o, Append(q, x), FALSE)
        BY <3>1, <2>5, TakeIs, Zenon
      <4>2. QED
        BY <4>1 DEF MoveResult
  <2>7. /\ (carried \in [Threads -> Seq(Events)])' /\ OneEach'
        /\ Carried' = Carried \cup {Event("RECEIVED", o)}
    BY <1>0, <1>5, <1>6, <2>4, LeavesOne DEF EventTypes
  <2>8. Append(q, x) # << >>
    OBVIOUS
  <2>9. QED
    BY <1>0, <1>1, <1>2, <1>4, <1>6, <2>1, <2>2, <2>4, <2>6, <2>7, <2>8
<1>9. QED
  BY <1>7, <1>8

LEMMA DeliverSentStep ==
  ASSUME IInv, NEW th \in Threads, NEW s \in Sides, DeliverSent(th, s)
  PROVE  IInv'
<1>1. PICK o \in Sides : o = Other(s) /\ o # s /\ Other(o) = s /\ Sides = {s, o}
  BY SidesAre
<1>2. /\ Connected /\ Event("SENT", s) \in Carried
      /\ ep' = ep /\ failed' = failed /\ got' = got /\ sent' = sent
      /\ ses' \in [Sides -> Sessions]
      /\ (carried \in [Threads -> Seq(Events)])' /\ OneEach'
  BY <1>1, DeliverSentDoes
<1>3. /\ Live(s) /\ Live(o) /\ Token(s) /\ Token(o)
      /\ ses[s] \in Sessions /\ ses[o] \in Sessions
  BY <1>1, <1>2 DEF Connected, IInv, Types
<1>4. CASE /\ Carried' = Carried \ {Event("SENT", s)}
           /\ ses'[s].msg = ses[s].msg /\ ses'[s].sending = ses[s].sending
           /\ ses'[s].out = ses[s].out
           /\ ses'[s].state = ses[s].state /\ ses'[s].fsm = ses[s].fsm
           /\ ses'[s].in = ses[s].in
           /\ ses'[s].receiving /\ ses'[s].queue = ses[s].queue
           /\ ses'[o] = ses[o]
  <2>1. Live(s)' /\ Live(o)'
    BY <1>2, <1>3, <1>4 DEF Live
  <2>2. Token(s)'
    BY <1>1, <1>2, <1>3, <1>4, TransfersAre DEF Token
  <2>3. Token(o)'
    BY <1>1, <1>2, <1>3, <1>4, TransfersAre DEF Token
  <2>4. Connected'
    BY <1>1, <1>2, <1>4, <2>1, <2>2, <2>3 DEF Connected
  <2>5. QueuesFit'
    BY <1>1, <1>4, QueuesKept DEF IInv
  <2>6. QED
    BY <1>2, <2>4, <2>5 DEF IInv, Types, NoAbort, Phase
<1>5. CASE /\ Fits(ses[s].queue) /\ ses[o].msg \in Nat \ {0}
           /\ Carried' = (Carried \ {Event("SENT", s)}) \cup {Event("RECEIVED", o)}
           /\ ses'[s].queue = Append(ses[s].queue, ses[o].msg) /\ ses'[s].in = "idle"
           /\ ses'[s].receiving = ses[s].receiving
           /\ ses'[s].state = ses[s].state /\ ses'[s].fsm = ses[s].fsm
           /\ ses'[s].out = ses[s].out
           /\ ses'[s].sending = ses[s].sending /\ ses'[s].msg = ses[s].msg
           /\ ses'[o].msg = 0
           /\ ses'[o].state = ses[o].state /\ ses'[o].fsm = ses[o].fsm
           /\ ses'[o].out = ses[o].out
           /\ ses'[o].in = ses[o].in /\ ses'[o].sending = ses[o].sending
           /\ ses'[o].receiving = ses[o].receiving /\ ses'[o].queue = ses[o].queue
  <2>0. /\ ses[s].queue \in Seq(Nat)
        /\ ses'[s].queue # << >> /\ Len(ses'[s].queue) <= Bound
    <3>1. ses[s].queue \in Seq(Nat)
      BY <1>3 DEF Sessions
    <3>2. PICK q \in Seq(Nat), x \in Nat : q = ses[s].queue /\ x = ses[o].msg
      BY <3>1, <1>5
    <3>3. Append(q, x) # << >>
      BY <3>2, AppendNotEmpty
    <3>4. Fits(q) => Len(Append(q, x)) <= Bound
      BY <3>2, BoundIs
    <3>5. QED
      BY <3>1, <3>2, <3>3, <3>4, <1>5
  <2>1. Live(s)' /\ Live(o)'
    BY <1>2, <1>3, <1>5, <2>0 DEF Live
  <2>2. Token(s)'
    BY <1>1, <1>2, <1>3, <1>5, TransfersAre DEF Token
  <2>3. Token(o)'
    BY <1>1, <1>2, <1>3, <1>5, TransfersAre DEF Token
  <2>4. Connected'
    BY <1>1, <1>2, <1>5, <2>1, <2>2, <2>3, TransfersAre DEF Connected
  <2>5. QueuesFit'
    BY <1>1, <1>5, <2>0, QueuesKept DEF IInv
  <2>6. QED
    BY <1>2, <2>4, <2>5 DEF IInv, Types, NoAbort, Phase
<1>6. QED
  BY <1>1, <1>4, <1>5, DeliverSentDoes

LEMMA RecvStep ==
  ASSUME IInv, NEW th \in Threads, NEW s \in Sides, Calm, Recv(th, s)
  PROVE  IInv'
<1>1. PICK o \in Sides : o = Other(s) /\ o # s /\ Other(o) = s /\ Sides = {s, o}
  BY SidesAre
<1>2. /\ Connected /\ ses[s].queue # << >>
      /\ ep' = ep /\ failed' = failed /\ sent' = sent
      /\ got' = [got EXCEPT ![s] = Head(ses[s].queue)]
      /\ ses' \in [Sides -> Sessions]
      /\ (carried \in [Threads -> Seq(Events)])' /\ OneEach'
      /\ ses'[s].in = IF ses'[s].queue = << >> THEN "async" ELSE "idle"
      /\ ses'[s].state = ses[s].state /\ ses'[s].fsm = ses[s].fsm
      /\ ses'[s].out = ses[s].out
      /\ ses'[s].sending = ses[s].sending /\ ses'[s].msg = ses[s].msg
  BY <1>1, RecvDoes
<1>3. /\ Live(s) /\ Live(o) /\ Token(s) /\ Token(o)
      /\ ses[s] \in Sessions /\ ses[o] \in Sessions
  BY <1>1, <1>2 DEF Connected, IInv, Types
<1>4. /\ ses[s].queue \in Seq(Nat) /\ Head(ses[s].queue) \in Nat
      /\ Tail(ses[s].queue) \in Seq(Nat) /\ Len(Tail(ses[s].queue)) <= Bound
  <2>1. ses[s].queue \in Seq(Nat) /\ Len(ses[s].queue) <= Bound
    BY <1>3 DEF Sessions, IInv, QueuesFit
  <2>2. QED
    BY <1>2, <2>1, BoundIs, HeadTailProperties
<1>5. got' \in [Sides -> Nat]
  BY <1>2, <1>4 DEF IInv, Types
<1>6. CASE /\ Carried' = Carried
           /\ ses'[s].queue = Tail(ses[s].queue) /\ ses'[s].receiving = ses[s].receiving
           /\ ses'[o] = ses[o]
  <2>1. Live(s)' /\ Live(o)'
    BY <1>2, <1>3, <1>6 DEF Live
  <2>2. Token(s)'
    BY <1>1, <1>2, <1>3, <1>6, TransfersAre DEF Token
  <2>3. Token(o)'
    BY <1>1, <1>2, <1>3, <1>6, TransfersAre DEF Token
  <2>4. Connected'
    BY <1>1, <1>2, <1>6, <2>1, <2>2, <2>3 DEF Connected
  <2>5. QueuesFit'
    BY <1>1, <1>4, <1>6, QueuesKept DEF IInv
  <2>6. QED
    BY <1>2, <1>5, <2>4, <2>5 DEF IInv, Types, NoAbort, Phase
<1>7. CASE /\ Fits(Tail(ses[s].queue)) /\ ses[s].receiving /\ ses[o].msg \in Nat \ {0}
           /\ Carried' = Carried \cup {Event("RECEIVED", o)}
           /\ ses'[s].queue = Append(Tail(ses[s].queue), ses[o].msg)
           /\ ~ses'[s].receiving
           /\ ses'[o].msg = 0
           /\ ses'[o].state = ses[o].state /\ ses'[o].fsm = ses[o].fsm
           /\ ses'[o].out = ses[o].out
           /\ ses'[o].in = ses[o].in /\ ses'[o].sending = ses[o].sending
           /\ ses'[o].receiving = ses[o].receiving /\ ses'[o].queue = ses[o].queue
  <2>1. Live(s)' /\ Live(o)'
    BY <1>2, <1>3, <1>7 DEF Live
  <2>2. Token(s)'
    BY <1>1, <1>2, <1>3, <1>7, TransfersAre DEF Token
  <2>3. Token(o)'
    BY <1>1, <1>2, <1>3, <1>7, TransfersAre DEF Token
  <2>4. Connected'
    BY <1>1, <1>2, <1>7, <2>1, <2>2, <2>3, TransfersAre DEF Connected
  <2>5. Len(ses'[s].queue) <= Bound
    BY <1>4, <1>7, BoundIs
  <2>6. QueuesFit'
    BY <1>1, <1>7, <2>5, QueuesKept DEF IInv
  <2>7. QED
    BY <1>2, <1>5, <2>4, <2>6 DEF IInv, Types, NoAbort, Phase
<1>8. QED
  BY <1>1, <1>6, <1>7, RecvDoes

-----------------------------------------------------------------------------
(* The invariant.                                                          *)

LEMMA InitIInv == Init => IInv
<1>. SUFFICES ASSUME Init PROVE IInv
  OBVIOUS
<1>1. Types
  BY EmptySession DEF Init, Types, EndpointStates
<1>2. OneEach
  BY DEF Init, OneEach
<1>3. QueuesFit
  <2>1. << >> \in Seq(Nat)
    OBVIOUS
  <2>2. QED
    BY <2>1, EmptySession, BoundIs DEF Init, QueuesFit
<1>4. Carried = {}
  BY ElementsAre DEF Init, Carried
<1>5. Apart
  BY <1>4 DEF Init, Apart, Sides
<1>6. QED
  BY <1>1, <1>2, <1>3, <1>5 DEF IInv, NoAbort, Phase, Init

LEMMA NextIInv ==
  ASSUME IInv, [OrderlyNext]_vars
  PROVE  IInv'
<1>1. ASSUME NEW th \in Threads, Quiet, Opening(th)
      PROVE  IInv'
  BY <1>1, BindStep, ConnectStep DEF Opening
<1>2. ASSUME NEW th \in Threads, Quiet, Closing(th)
      PROVE  IInv'
  BY <1>2, CloseStep DEF Closing
<1>3. ASSUME NEW th \in Threads, Calm, Sending(th)
      PROVE  IInv'
  BY <1>3, SendStep DEF Sending
<1>4. ASSUME NEW th \in Threads, Calm, Receiving(th)
      PROVE  IInv'
  BY <1>4, RecvStep DEF Receiving
<1>5. ASSUME NEW th \in Threads, Delivering(th)
      PROVE  IInv'
  BY <1>5, DeliverConnectStep, DeliverReadyStep, DeliverAcceptedStep, DeliverSentStep,
     DeliverReceivedStep, DeliverDisconnectStep DEF Delivering
<1>6. CASE UNCHANGED vars
  <2>1. /\ ep' = ep /\ ses' = ses /\ carried' = carried /\ failed' = failed
        /\ sent' = sent /\ got' = got /\ Carried' = Carried
    BY <1>6 DEF vars, Carried
  <2>2. Types' /\ OneEach' /\ QueuesFit' /\ NoAbort'
    BY <2>1 DEF IInv, Types, OneEach, QueuesFit, NoAbort
  <2>3. CASE Apart
    BY <2>1, <2>2, <2>3 DEF IInv, Phase, Apart, Idle, Kept, Off
  <2>4. CASE Connected
    BY <2>1, <2>2, <2>4 DEF IInv, Phase, Connected, Live, Token
  <2>5. ASSUME NEW s \in Sides,
               Asked(s) \/ Accepted(s) \/ Confirmed(s) \/ Left(s) \/ Answered(s)
        PROVE  (Asked(s) \/ Accepted(s) \/ Confirmed(s) \/ Left(s) \/ Answered(s))'
    BY <2>1, <2>5 DEF Asked, Accepted, Confirmed, Left, Answered, Idle, Kept, Off, Live, Clean,
                      Waits
  <2>6. QED
    BY <2>2, <2>3, <2>4, <2>5 DEF IInv, Phase, Changing
<1>7. QED
  BY <1>1, <1>2, <1>3, <1>4, <1>5, <1>6 DEF OrderlyNext

(* Every reachable state is in one of the phases.                          *)
THEOREM Invariant == OrderlySpec => []IInv
<1>1. IInv /\ [OrderlyNext]_vars => IInv'
  BY NextIInv
<1>2. QED
  BY InitIInv, <1>1, PTL DEF OrderlySpec

(* No assertion of the endpoints and sessions fails, queues keep their     *)
(* bound, and a pipe is readable exactly while its queue has a message.    *)
THEOREM StaysConsistent == OrderlySpec => []Consistent
<1>1. ASSUME IInv PROVE TypeOK
  <2>1. \A th \in Threads : ToSet(carried[th]) \subseteq Events
    BY <1>1, CarriedEvents DEF IInv, Carried
  <2>2. QED
    BY <1>1, <2>1 DEF IInv, TypeOK, Types, Sessions, QueuesFit, Bound, NoAbort, EndpointStates
<1>2. ASSUME IInv PROVE ReadableWhenQueued
  <2>1. ASSUME NEW s \in Sides, ses[s].state = "ACTIVE"
        PROVE  ses[s].in = "idle" <=> ses[s].queue # << >>
    BY <1>1, <1>2, <2>1, EmptySession, SidesAre
       DEF IInv, Phase, Changing, Apart, Connected, Idle, Kept, Off, Live, Clean, Waits, Asked,
           Accepted, Confirmed, Left, Answered, Sides
  <2>2. QED
    BY <2>1 DEF ReadableWhenQueued
<1>3. IInv => Consistent
  BY <1>1, <1>2 DEF Consistent, IInv
<1>4. QED
  BY Invariant, <1>3, PTL

(* Flow control: a message that was sent is announced, parked or confirmed *)
(* and never two of these at a time.                                       *)
THEOREM OneToken == OrderlySpec => []OneTokenPerSender
<1>1. ASSUME IInv, \A s \in Sides : ses[s].state = "ACTIVE"
      PROVE  Connected
  BY <1>1, EmptySession, SidesAre
     DEF IInv, Phase, Changing, Apart, Idle, Kept, Waits, Asked, Accepted, Confirmed,
         Left, Answered, Sides
<1>2. IInv => OneTokenPerSender
  BY <1>1 DEF OneTokenPerSender, Connected, Token
<1>3. QED
  BY Invariant, <1>2, PTL

-----------------------------------------------------------------------------
(* The connection implements the channel.                                  *)

(* Way(s) when the sessions are t.                                         *)
WayOf(t, s) == IF t[s].in = "off" \/ t[Other(s)].out = "off" THEN << >>
               ELSE t[s].queue \o (IF t[Other(s)].msg = 0 THEN << >>
                                   ELSE <<t[Other(s)].msg>>)

LEMMA WayIs ==
  ASSUME NEW t \in [Sides -> Sessions], NEW s \in Sides, NEW o \in Sides, o = Other(s)
  PROVE  /\ t[s].in = "off" \/ t[o].out = "off" => WayOf(t, s) = << >>
         /\ t[s].in # "off" /\ t[o].out # "off" /\ t[o].msg = 0 => WayOf(t, s) = t[s].queue
         /\ t[s].in # "off" /\ t[o].out # "off" /\ t[o].msg # 0 =>
               WayOf(t, s) = Append(t[s].queue, t[o].msg)
<1>1. t[s].queue \in Seq(Nat) /\ t[o].msg \in Nat
  BY BoundsAssumption DEF Sessions
<1>2. t[s].queue \o << >> = t[s].queue
  BY <1>1, ConcatEmptySeq
<1>3. t[s].queue \o <<t[o].msg>> = Append(t[s].queue, t[o].msg)
  BY <1>1, AppendIsConcat
<1>4. QED
  BY <1>2, <1>3 DEF WayOf

LEMMA WayNow ==
  /\ \A s : Way(s) = WayOf(ses, s)
  /\ \A s : Way(s)' = WayOf(ses', s)
BY DEF Way, WayOf

(* Nothing is on its way while a connection is made or broken.             *)
LEMMA NothingOnTheWay ==
  ASSUME Apart \/ Changing, NEW s \in Sides
  PROVE  Way(s) = << >>
<1>1. PICK o \in Sides : o = Other(s) /\ Other(o) = s /\ Sides = {s, o}
  BY SidesAre
<1>2. ses[s].in = "off" \/ ses[o].out = "off"
  BY <1>1, EmptySession, SidesAre
     DEF Changing, Apart, Idle, Kept, Off, Waits, Asked, Accepted, Confirmed, Left, Answered, Sides
<1>3. QED
  BY <1>1, <1>2 DEF Way

LEMMA NothingOnTheWayNext ==
  ASSUME (Apart \/ Changing)', NEW s \in Sides
  PROVE  Way(s)' = << >>
<1>1. PICK o \in Sides : o = Other(s) /\ Other(o) = s /\ Sides = {s, o}
  BY SidesAre
<1>2. ses'[s].in = "off" \/ ses'[o].out = "off"
  BY <1>1, EmptySession, SidesAre
     DEF Changing, Apart, Idle, Kept, Off, Waits, Asked, Accepted, Confirmed, Left, Answered, Sides
<1>3. QED
  BY <1>1, <1>2 DEF Way

LEMMA BreakStep ==
  ASSUME \A s \in Sides : Way(s)' = << >>, sent' = sent, got' = got
  PROVE  Fifo!Break
<1>1. Sides \in SUBSET Sides
  OBVIOUS
<1>2. QED
  BY <1>1 DEF Fifo!Break

LEMMA SendImplements ==
  ASSUME IInv, NEW th \in Threads, NEW s \in Sides, Calm, Send(th, s)
  PROVE  Fifo!SendTo(Other(s))
<1>1. PICK o \in Sides : o = Other(s) /\ o # s /\ Other(o) = s /\ Sides = {s, o}
  BY SidesAre
<1>2. /\ Connected /\ ~ses[s].sending /\ sent[s] + 1 \in 1..MaxMsgs
      /\ sent' = [sent EXCEPT ![s] = sent[s] + 1]
      /\ ep' = ep /\ failed' = failed /\ got' = got
      /\ ses' \in [Sides -> Sessions]
      /\ ses'[s].msg = sent[s] + 1 /\ ses'[s].sending /\ ses'[s].out = "async"
      /\ ses'[s].state = ses[s].state /\ ses'[s].fsm = ses[s].fsm /\ ses'[s].in = ses[s].in
      /\ ses'[s].receiving = ses[s].receiving /\ ses'[s].queue = ses[s].queue
      /\ ses'[o] = ses[o]
      /\ (carried \in [Threads -> Seq(Events)])' /\ OneEach'
      /\ Carried' = Carried \cup {Event("SENT", o)}
  BY <1>1, SendDoes
<1>3. /\ Live(s) /\ Live(o) /\ ses[s].msg = 0 /\ ses \in [Sides -> Sessions]
      /\ ses[o].queue \in Seq(Nat) /\ Len(ses[o].queue) <= Bound
  <2>1. ses[s].msg = 0
    BY <1>1, <1>2 DEF Connected, Token
  <2>2. ses \in [Sides -> Sessions] /\ ses[o].queue \in Seq(Nat)
    BY DEF IInv, Types, Sessions
  <2>3. QED
    BY <1>1, <1>2, <2>1, <2>2 DEF Connected, IInv, QueuesFit
<1>4. Way(o) = ses[o].queue
  BY <1>1, <1>3, WayIs, WayNow DEF Live
<1>5. Way(o)' = Append(Way(o), sent[s] + 1)
  <2>1. ses'[o].in # "off" /\ ses'[s].out # "off" /\ ses'[s].msg # 0
    BY <1>2, <1>3 DEF Live
  <2>2. Way(o)' = Append(ses'[o].queue, ses'[s].msg)
    BY <1>1, <1>2, <2>1, WayIs, WayNow
  <2>3. QED
    BY <1>2, <1>4, <2>2
<1>6. Way(s)' = Way(s)
  BY <1>1, <1>2 DEF Way
<1>7. Len(Way(o)) < RcvBuf + 1
  BY <1>3, <1>4, BoundsAssumption, LenProperties DEF Bound
<1>8. sent'[s] = sent[s] + 1 /\ sent'[o] = sent[o] /\ sent \in [Sides -> Nat]
  BY <1>1, <1>2 DEF IInv, Types
<1>9. QED
  BY <1>1, <1>2, <1>5, <1>6, <1>7, <1>8 DEF Fifo!SendTo

LEMMA RecvImplements ==
  ASSUME IInv, NEW th \in Threads, NEW s \in Sides, Calm, Recv(th, s)
  PROVE  Fifo!ReceiveAt(s)
<1>1. PICK o \in Sides : o = Other(s) /\ o # s /\ Other(o) = s /\ Sides = {s, o}
  BY SidesAre
<1>2. /\ Connected /\ ses[s].queue # << >>
      /\ ep' = ep /\ failed' = failed /\ sent' = sent
      /\ got' = [got EXCEPT ![s] = Head(ses[s].queue)]
      /\ ses' \in [Sides -> Sessions]
      /\ (carried \in [Threads -> Seq(Events)])' /\ OneEach'
      /\ ses'[s].in = IF ses'[s].queue = << >> THEN "async" ELSE "idle"
      /\ ses'[s].state = ses[s].state /\ ses'[s].fsm = ses[s].fsm
      /\ ses'[s].out = ses[s].out
      /\ ses'[s].sending = ses[s].sending /\ ses'[s].msg = ses[s].msg
  BY <1>1, RecvDoes
<1>3. Live(s) /\ Live(o) /\ Token(o) /\ ses \in [Sides -> Sessions] /\ ses[s].queue \in Seq(Nat)
  <2>1. ses \in [Sides -> Sessions] /\ ses[s].queue \in Seq(Nat)
    BY DEF IInv, Types, Sessions
  <2>2. QED
    BY <1>1, <1>2, <2>1 DEF Connected
<1>4. PICK q \in Seq(Nat) : q = ses[s].queue /\ q # << >>
  BY <1>2, <1>3
<1>5. ses[s].in # "off" /\ ses[o].out # "off" /\ ses'[s].in # "off" /\ ses'[s].out # "off"
  BY <1>2, <1>3 DEF Live
<1>6. CASE /\ Carried' = Carried
           /\ ses'[s].queue = Tail(ses[s].queue) /\ ses'[s].receiving = ses[s].receiving
           /\ ses'[o] = ses[o]
  <2>1. Way(o)' = Way(o)
    BY <1>1, <1>2, <1>3, <1>5, <1>6 DEF Way, Live
  <2>2. CASE ses[o].msg = 0
    <3>1. Way(s) = q
      BY <1>1, <1>3, <1>4, <1>5, <2>2, WayIs, WayNow
    <3>2. Way(s)' = Tail(q)
      BY <1>1, <1>2, <1>4, <1>5, <1>6, <2>2, WayIs, WayNow
    <3>3. QED
      BY <1>1, <1>2, <1>4, <2>1, <3>1, <3>2 DEF Fifo!ReceiveAt
  <2>3. CASE ses[o].msg # 0
    <3>1. PICK x \in Nat : x = ses[o].msg
      BY <1>1, <1>3, BoundsAssumption DEF Sessions
    <3>2. Way(s) = Append(q, x)
      BY <1>1, <1>3, <1>4, <1>5, <2>3, <3>1, WayIs, WayNow
    <3>3. Way(s)' = Append(Tail(q), x)
      BY <1>1, <1>2, <1>4, <1>5, <1>6, <2>3, <3>1, WayIs, WayNow
    <3>4. /\ Append(q, x) # << >> /\ Head(Append(q, x)) = Head(q)
          /\ Tail(Append(q, x)) = Append(Tail(q), x)
      BY <1>4, <3>1, TailAppend
    <3>5. QED
      BY <1>1, <1>2, <1>4, <2>1, <3>2, <3>3, <3>4 DEF Fifo!ReceiveAt
  <2>4. QED
    BY <2>2, <2>3
<1>7. CASE /\ Fits(Tail(ses[s].queue)) /\ ses[s].receiving /\ ses[o].msg \in Nat \ {0}
           /\ Carried' = Carried \cup {Event("RECEIVED", o)}
           /\ ses'[s].queue = Append(Tail(ses[s].queue), ses[o].msg)
           /\ ~ses'[s].receiving
           /\ ses'[o].msg = 0
           /\ ses'[o].state = ses[o].state /\ ses'[o].fsm = ses[o].fsm
           /\ ses'[o].out = ses[o].out
           /\ ses'[o].in = ses[o].in /\ ses'[o].sending = ses[o].sending
           /\ ses'[o].receiving = ses[o].receiving /\ ses'[o].queue = ses[o].queue
  <2>1. Way(o)' = Way(o)
    BY <1>1, <1>2, <1>3, <1>5, <1>7 DEF Way, Live
  <2>2. PICK x \in Nat : x = ses[o].msg /\ x # 0
    BY <1>7
  <2>3. Way(s) = Append(q, x)
    BY <1>1, <1>3, <1>4, <1>5, <2>2, WayIs, WayNow
  <2>4. Way(s)' = Append(Tail(q), x)
    BY <1>1, <1>2, <1>4, <1>5, <1>7, <2>2, WayIs, WayNow
  <2>5. /\ Append(q, x) # << >> /\ Head(Append(q, x)) = Head(q)
        /\ Tail(Append(q, x)) = Append(Tail(q), x)
    BY <1>4, <2>2, TailAppend
  <2>6. QED
    BY <1>1, <1>2, <1>4, <2>1, <2>3, <2>4, <2>5 DEF Fifo!ReceiveAt
<1>8. QED
  BY <1>1, <1>6, <1>7, RecvDoes

(* Moving a message from the peer to the queue and confirming it leave     *)
(* what is on its way as it was.                                           *)
LEMMA DeliverSentStutters ==
  ASSUME IInv, NEW th \in Threads, NEW s \in Sides, DeliverSent(th, s), NEW u \in Sides
  PROVE  Way(u)' = Way(u) /\ sent' = sent /\ got' = got
<1>1. PICK o \in Sides : o = Other(s) /\ o # s /\ Other(o) = s /\ Sides = {s, o}
  BY SidesAre
<1>2. /\ Connected /\ Event("SENT", s) \in Carried
      /\ ep' = ep /\ failed' = failed /\ got' = got /\ sent' = sent
      /\ ses' \in [Sides -> Sessions]
      /\ (carried \in [Threads -> Seq(Events)])' /\ OneEach'
  BY <1>1, DeliverSentDoes
<1>3. Live(s) /\ Live(o) /\ ses \in [Sides -> Sessions]
  BY <1>1, <1>2 DEF Connected, IInv, Types
<1>4. ses[s].in # "off" /\ ses[o].in # "off" /\ ses[s].out # "off" /\ ses[o].out # "off"
  BY <1>3 DEF Live
<1>5. CASE /\ Carried' = Carried \ {Event("SENT", s)}
           /\ ses'[s].msg = ses[s].msg /\ ses'[s].sending = ses[s].sending
           /\ ses'[s].out = ses[s].out
           /\ ses'[s].state = ses[s].state /\ ses'[s].fsm = ses[s].fsm
           /\ ses'[s].in = ses[s].in
           /\ ses'[s].receiving /\ ses'[s].queue = ses[s].queue
           /\ ses'[o] = ses[o]
  <2>1. Way(s)' = Way(s)
    BY <1>1, <1>5 DEF Way
  <2>2. Way(o)' = Way(o)
    BY <1>1, <1>5 DEF Way
  <2>3. QED
    BY <1>1, <1>2, <2>1, <2>2
<1>6. CASE /\ Fits(ses[s].queue) /\ ses[o].msg \in Nat \ {0}
           /\ Carried' = (Carried \ {Event("SENT", s)}) \cup {Event("RECEIVED", o)}
           /\ ses'[s].queue = Append(ses[s].queue, ses[o].msg) /\ ses'[s].in = "idle"
           /\ ses'[s].receiving = ses[s].receiving
           /\ ses'[s].state = ses[s].state /\ ses'[s].fsm = ses[s].fsm
           /\ ses'[s].out = ses[s].out
           /\ ses'[s].sending = ses[s].sending /\ ses'[s].msg = ses[s].msg
           /\ ses'[o].msg = 0
           /\ ses'[o].state = ses[o].state /\ ses'[o].fsm = ses[o].fsm
           /\ ses'[o].out = ses[o].out
           /\ ses'[o].in = ses[o].in /\ ses'[o].sending = ses[o].sending
           /\ ses'[o].receiving = ses[o].receiving /\ ses'[o].queue = ses[o].queue
  <2>1. Way(s) = Append(ses[s].queue, ses[o].msg)
    BY <1>1, <1>3, <1>4, <1>6, WayIs, WayNow
  <2>2. Way(s)' = ses'[s].queue
    BY <1>1, <1>2, <1>4, <1>6, WayIs, WayNow
  <2>3. Way(o)' = Way(o)
    BY <1>1, <1>6 DEF Way
  <2>4. QED
    BY <1>1, <1>2, <1>6, <2>1, <2>2, <2>3
<1>7. QED
  BY <1>1, <1>5, <1>6, DeliverSentDoes

LEMMA DeliverReceivedStutters ==
  ASSUME IInv, NEW th \in Threads, NEW s \in Sides, DeliverReceived(th, s), NEW u \in Sides
  PROVE  Way(u)' = Way(u) /\ sent' = sent /\ got' = got
<1>1. PICK o \in Sides : o = Other(s) /\ o # s /\ Other(o) = s /\ Sides = {s, o}
  BY SidesAre
<1>2. /\ Connected /\ Event("RECEIVED", s) \in Carried
      /\ ep' = ep /\ failed' = failed /\ got' = got /\ sent' = sent
      /\ ses' \in [Sides -> Sessions]
      /\ ses'[s].msg = ses[s].msg /\ ~ses'[s].sending /\ ses'[s].out = "idle"
      /\ ses'[s].state = ses[s].state /\ ses'[s].fsm = ses[s].fsm /\ ses'[s].in = ses[s].in
      /\ ses'[s].receiving = ses[s].receiving /\ ses'[s].queue = ses[s].queue
      /\ ses'[o] = ses[o]
      /\ (carried \in [Threads -> Seq(Events)])' /\ OneEach'
      /\ Carried' = Carried \ {Event("RECEIVED", s)}
  BY <1>1, DeliverReceivedDoes
<1>3. ses[s].out # "off" /\ ses'[s].out # "off"
  BY <1>1, <1>2 DEF Connected, Live
<1>4. Way(s)' = Way(s)
  BY <1>1, <1>2 DEF Way
<1>5. Way(o)' = Way(o)
  BY <1>1, <1>2, <1>3 DEF Way
<1>6. QED
  BY <1>1, <1>2, <1>4, <1>5

(* Making and breaking the connection.                                     *)
LEMMA ChangingImplements ==
  ASSUME IInv, NEW th \in Threads, NEW s \in Sides,
         \/ Quiet /\ Opening(th)
         \/ Quiet /\ Close(th, s)
         \/ DeliverConnect(th, s) \/ DeliverReady(th, s) \/ DeliverDisconnect(th, s)
  PROVE  Fifo!Break
<1>1. (Apart \/ Changing)'
  BY BindStep, ConnectStep, CloseStep, DeliverConnectStep, DeliverReadyStep,
     DeliverDisconnectStep DEF Opening
<1>2. NoAbort'
  BY BindStep, ConnectStep, CloseStep, DeliverConnectStep, DeliverReadyStep,
     DeliverDisconnectStep DEF Opening, IInv
<1>3. \A u \in Sides : Way(u)' = << >>
  BY <1>1, NothingOnTheWayNext
<1>4. sent' = sent /\ got' = got
  BY DEF Opening, Bind, InsFindsConnected, Connect, InsFindsBound, Close, DeliverConnect,
         DeliverReady, DeliverDisconnect, Abort
<1>5. QED
  BY <1>3, <1>4, BreakStep

LEMMA DeliverAcceptedImplements ==
  ASSUME IInv, NEW th \in Threads, NEW s \in Sides, DeliverAccepted(th, s)
  PROVE  Fifo!Break
<1>1. /\ IInv' /\ Connected' /\ ep' = ep /\ sent' = sent /\ got' = got
      /\ \A u \in Sides : ses'[u].queue = << >> /\ ses'[u].msg = 0
  BY DeliverAcceptedStep
<1>2. ASSUME NEW u \in Sides
      PROVE  Way(u)' = << >>
  <2>1. ses'[u].queue = << >> /\ ses'[Other(u)].msg = 0
    BY <1>1, SidesAre
  <2>2. QED
    BY <2>1 DEF Way
<1>3. QED
  BY <1>1, <1>2, BreakStep

(* Order, no loss and no duplicate for as long as the connection lasts,    *)
(* across both queues, parked messages and the events of flow control.     *)
THEOREM Implements == OrderlySpec => ImplementsChannel
<1>1. Init => Fifo!Init
  <2>1. SUFFICES ASSUME Init PROVE Fifo!Init
    OBVIOUS
  <2>2. ASSUME NEW s \in Sides PROVE Way(s) = << >>
    BY <2>1, EmptySession DEF Init, Way
  <2>3. QED
    BY <2>1, <2>2, SidesAre DEF Fifo!Init, Init
<1>2. IInv /\ [OrderlyNext]_vars => [Fifo!Next]_Fifo!vars
  <2>1. SUFFICES ASSUME IInv, [OrderlyNext]_vars PROVE [Fifo!Next]_Fifo!vars
    OBVIOUS
  <2>2. ASSUME NEW th \in Threads, Quiet /\ Opening(th)
        PROVE  Fifo!Next
    BY <2>1, <2>2, ChangingImplements DEF Fifo!Next, Sides
  <2>3. ASSUME NEW th \in Threads, Quiet /\ Closing(th)
        PROVE  Fifo!Next
    BY <2>1, <2>3, ChangingImplements DEF Fifo!Next, Closing
  <2>4. ASSUME NEW th \in Threads, Calm /\ Sending(th)
        PROVE  Fifo!Next
    BY <2>1, <2>4, SendImplements, SidesAre DEF Fifo!Next, Sending
  <2>5. ASSUME NEW th \in Threads, Calm /\ Receiving(th)
        PROVE  Fifo!Next
    BY <2>1, <2>5, RecvImplements DEF Fifo!Next, Receiving
  <2>6. ASSUME NEW th \in Threads, NEW s \in Sides, DeliverSent(th, s) \/ DeliverReceived(th, s)
        PROVE  UNCHANGED Fifo!vars
    <3>1. \A u \in Sides : Way(u)' = Way(u)
      BY <2>1, <2>6, DeliverSentStutters, DeliverReceivedStutters
    <3>2. sent' = sent /\ got' = got
      BY <2>1, <2>6, DeliverSentStutters, DeliverReceivedStutters
    <3>3. QED
      BY <3>1, <3>2 DEF Fifo!vars
  <2>7. ASSUME NEW th \in Threads, Delivering(th)
        PROVE  Fifo!Next \/ UNCHANGED Fifo!vars
    BY <2>1, <2>6, <2>7, ChangingImplements, DeliverAcceptedImplements DEF Fifo!Next, Delivering
  <2>8. CASE UNCHANGED vars
    BY <2>8 DEF vars, Fifo!vars, Way
  <2>9. QED
    BY <2>1, <2>2, <2>3, <2>4, <2>5, <2>7, <2>8 DEF OrderlyNext
<1>3. QED
  BY <1>1, <1>2, Invariant, PTL DEF OrderlySpec, ImplementsChannel, Fifo!Spec
=============================================================================
