------------------------------- MODULE Device -------------------------------
(***************************************************************************)
(* A device: src/src/devices/device.c.  One thread moves messages between  *)
(* two raw sockets, both ways, one way, or from one socket back to itself. *)
(*                                                                         *)
(* The thread sees a socket by what its calls return and by the two        *)
(* descriptors it polls.  Messages arrive, peers come and go, and the      *)
(* library is terminated while the device is between any two of its calls. *)
(***************************************************************************)
EXTENDS Integers, Sequences, FiniteSets

CONSTANTS
    Arrivals,   \* bound: messages that reach a socket
    Excused     \* failures the properties leave aside, see Documented

(* The assertions that the code does fail, each described in the README.   *)
Documented == {"getsockopt", "ENOTSUP", "recv EAGAIN", "send EAGAIN", "EINTR"}
ASSUME ArrivalsAssumption == Arrivals \in Nat
ASSUME ExcusedAssumption == Excused \subseteq Documented

VARIABLES
    end,        \* socket -> what the caller passed
    pc,         \* where the thread is
    mode,       \* what the device turned out to be
    way,        \* the direction it is at: <<from, to>>
    ready,      \* descriptors whose event was seen and is not polled for
    in,         \* socket -> messages it can receive
    room,       \* socket -> it can send
    arrived,    \* socket -> messages that arrived so far
    got,        \* socket -> messages the device received from it
    sent,       \* socket -> messages the device sent to it
    held,       \* messages received and not yet sent: none or one
    term,       \* grid_term was called
    result      \* what grid_device returned, or the assertion that failed

deviceVars == <<end, pc, mode, way, ready, in, room, arrived, got, sent, held, term, result>>

Sockets == {1, 2}
Other(s) == 3 - s
None == "none"

(* A socket that is not there, or an open one: raw or not, of one of two   *)
(* protocols, with one direction or both.                                  *)
Directions == {d \in [rcv : BOOLEAN, snd : BOOLEAN] : d.rcv \/ d.snd}
Open == {[open |-> TRUE, number |-> 0, raw |-> r, family |-> f, rcv |-> d.rcv, snd |-> d.snd]
            : r \in BOOLEAN, f \in {1, 2}, d \in Directions}
Absent == {[open |-> FALSE, number |-> n, raw |-> FALSE, family |-> 1, rcv |-> FALSE, snd |-> FALSE]
            : n \in {-1, 0}}

DeviceInit ==
    /\ end \in [Sockets -> Open \cup Absent]
    /\ pc = "entry" /\ mode = None /\ way = <<1, 2>> /\ ready = {}
    /\ in = [s \in Sockets |-> <<>>] /\ room = [s \in Sockets |-> FALSE]
    /\ arrived = [s \in Sockets |-> 0]
    /\ got = [s \in Sockets |-> <<>>] /\ sent = [s \in Sockets |-> <<>>]
    /\ held = <<>> /\ term = FALSE /\ result = None

sockets == <<end, in, room, arrived, term>>
Busy == pc # "over"
Return(why) == pc' = "over" /\ result' = why

-----------------------------------------------------------------------------
(* grid_device_entry: an error, a failed assertion, or the kind of device. *)
Missing(s) == end[s].number < 0
Option(s) == end[s].open /\ ~term

(* Mutant: one of the four checks of the directions is forgotten.          *)
MismatchedPartly(a, b) == a.rcv # b.snd \/ (a.snd /\ ~b.rcv)
Mismatched(a, b) == a.rcv # b.snd \/ a.snd # b.rcv

LoopbackKind(s) ==
    IF ~Option(s) THEN "getsockopt" ELSE IF ~end[s].raw THEN "EINVAL" ELSE "loopback"
Kind(a, b) ==
    IF a.rcv /\ a.snd /\ b.rcv /\ b.snd THEN "twoway"
    ELSE IF \/ a.rcv /\ ~a.snd /\ ~b.rcv /\ b.snd
            \/ ~a.rcv /\ a.snd /\ b.rcv /\ ~b.snd
         THEN "oneway"
    ELSE "this should never happen"
Verdict ==
    IF Missing(1) /\ Missing(2) THEN "EBADF"
    ELSE IF Missing(2) THEN LoopbackKind(1)
    ELSE IF Missing(1) THEN LoopbackKind(2)
    ELSE IF ~Option(1) \/ ~Option(2) THEN "getsockopt"
    ELSE IF \/ ~end[1].raw \/ ~end[2].raw
            \/ end[1].family # end[2].family
            \/ Mismatched(end[1], end[2])
         THEN "EINVAL"
    ELSE Kind(end[1], end[2])
Modes == {"loopback", "twoway", "oneway"}

Entry ==
    /\ pc = "entry"
    /\ IF Verdict \in Modes
       THEN /\ mode' = Verdict
            /\ pc' = IF Verdict = "twoway" THEN "poll" ELSE "recv"
            /\ LET s == CHOOSE x \in Sockets : ~Missing(x) /\ end[x].rcv
                   lone == CHOOSE x \in Sockets : ~Missing(x)
               IN  way' = IF Verdict = "loopback" THEN <<lone, lone>> ELSE <<s, Other(s)>>
            /\ UNCHANGED result
       ELSE Return(Verdict) /\ UNCHANGED <<mode, way>>
    /\ UNCHANGED <<sockets, ready, got, sent, held>>

-----------------------------------------------------------------------------
(* The descriptors of the two sockets; grid_term signals all of them.      *)
Fds == {"rcv", "snd"} \X Sockets
(* Mutant: grid_term wakes up nobody.                                      *)
ReadableUntermed == {fd \in Fds : IF fd[1] = "rcv" THEN in[fd[2]] # <<>> ELSE room[fd[2]]}
Readable == {fd \in Fds : term \/ IF fd[1] = "rcv" THEN in[fd[2]] # <<>> ELSE room[fd[2]]}

(* grid_device_twoway: wait for an event that was not seen yet.            *)
Poll ==
    /\ pc = "poll" /\ ~(Readable \subseteq ready)
    /\ ready' = ready \cup Readable
    /\ pc' = "recv" /\ way' = <<1, 2>>
    /\ UNCHANGED <<sockets, mode, got, sent, held, result>>

From == way[1]
To == way[2]
Needed == {<<"rcv", From>>, <<"snd", To>>}
Due == mode = "twoway" => Needed \subseteq ready

(* Mutant: messages are only passed from the first socket to the second.   *)
TurnHalf == IF mode = "twoway" THEN pc' = "poll" /\ way' = <<1, 2>>
            ELSE pc' = "recv" /\ UNCHANGED way
(* What comes after one direction: the other one, then polling again.      *)
Turn ==
    IF mode = "twoway" /\ way = <<2, 1>> THEN pc' = "poll" /\ way' = <<1, 2>>
    ELSE pc' = "recv" /\ way' = IF mode = "twoway" THEN <<2, 1>> ELSE way

Skip ==
    /\ pc = "recv" /\ ~Due /\ Turn
    /\ UNCHANGED <<sockets, mode, ready, got, sent, held, result>>

(* grid_device_mvmsg: grid_recvmsg, which does not wait in a twoway device *)
(* and does in the others, then grid_sendmsg.                              *)
Receive ==
    /\ pc = "recv" /\ Due
    /\ IF term THEN Return("ETERM") /\ UNCHANGED <<in, got, held>>
       ELSE IF ~end[From].rcv
       THEN Return("ENOTSUP") /\ UNCHANGED <<in, got, held>>
       ELSE IF in[From] = <<>>
       THEN mode = "twoway" /\ Return("recv EAGAIN") /\ UNCHANGED <<in, got, held>>
       ELSE /\ in' = [in EXCEPT ![From] = Tail(@)]
            /\ got' = [got EXCEPT ![From] = Append(@, Head(in[From]))]
            /\ held' = <<Head(in[From])>>
            /\ pc' = "send" /\ UNCHANGED result
    /\ UNCHANGED <<end, room, arrived, term, mode, way, ready, sent>>

(* Mutant: the message goes back to where it came from.                    *)
DeliverBack == [sent EXCEPT ![From] = @ \o held]
Deliver == [sent EXCEPT ![To] = @ \o held]
PassOn ==
    /\ pc = "send"
    /\ IF term THEN Return("ETERM") /\ UNCHANGED <<room, sent, held, ready, way>>
       ELSE IF ~end[To].snd
       THEN Return("ENOTSUP") /\ UNCHANGED <<room, sent, held, ready, way>>
       ELSE IF ~room[To]
       THEN mode = "twoway" /\ Return("send EAGAIN") /\ UNCHANGED <<room, sent, held, ready, way>>
       ELSE /\ sent' = Deliver /\ held' = <<>>
            /\ \E r \in BOOLEAN : room' = [room EXCEPT ![To] = r]
            /\ ready' = ready \ Needed
            /\ Turn /\ UNCHANGED result
    /\ UNCHANGED <<end, in, arrived, term, mode, got>>

(* A signal is delivered to the thread while it waits.                     *)
Waiting == \/ pc = "poll" /\ Readable \subseteq ready
           \/ mode # "twoway" /\ ~term /\ (\/ pc = "recv" /\ in[From] = <<>>
                                           \/ pc = "send" /\ ~room[To])
Interrupt ==
    /\ Waiting /\ Return("EINTR")
    /\ UNCHANGED <<sockets, mode, way, ready, got, sent, held>>

-----------------------------------------------------------------------------
(* What happens to the sockets meanwhile. *)
device == <<end, pc, mode, way, ready, got, sent, held, result>>
Arrive(s) ==
    /\ Busy /\ ~term /\ end[s].rcv /\ arrived[s] < Arrivals
    /\ arrived' = [arrived EXCEPT ![s] = @ + 1]
    /\ in' = [in EXCEPT ![s] = Append(@, <<s, arrived'[s]>>)]
    /\ UNCHANGED <<device, room, term>>
Drain(s) ==
    /\ Busy /\ ~term /\ end[s].snd /\ ~room[s]
    /\ room' = [room EXCEPT ![s] = TRUE]
    /\ UNCHANGED <<device, in, arrived, term>>
(* A peer leaves: what it sent and was not received is gone with it, and   *)
(* there may be nobody left to send to.                                    *)
Leave(s) ==
    /\ Busy /\ ~term /\ (in[s] # <<>> \/ room[s])
    /\ \E r \in BOOLEAN : room' = [room EXCEPT ![s] = @ /\ r]
    /\ in' = [in EXCEPT ![s] = <<>>]
    /\ UNCHANGED <<device, arrived, term>>
Term ==
    /\ Busy /\ ~term /\ term' = TRUE
    /\ UNCHANGED <<device, in, room, arrived>>

Thread == Entry \/ Poll \/ Skip \/ Receive \/ PassOn
DeviceNext == Thread \/ Interrupt \/ Term \/ \E s \in Sockets : Arrive(s) \/ Drain(s) \/ Leave(s)
(* The thread of the device goes on whenever a call of it returns.         *)
DeviceSpec == DeviceInit /\ [][DeviceNext]_deviceVars /\ WF_deviceVars(Thread)

-----------------------------------------------------------------------------
(* No call leaves the sequence of checks without a verdict: the assertion  *)
(* at the end of grid_device_entry is never reached and the two loops fail *)
(* none but the documented ones.                                           *)
Verdicts == {None, "EBADF", "EINVAL", "ETERM"}
HasVerdict == result \in Verdicts \cup Excused

(* Nothing is lost, doubled, reordered or turned round on its way: what    *)
(* was sent to a socket is what was received from the other one, but for   *)
(* the message the thread has in its hands.                                *)
Opposite(s) == IF mode = "loopback" THEN s ELSE Other(s)
Relayed ==
    \A s \in Sockets :
        got[s] = sent[Opposite(s)] \o (IF way[1] = s THEN held ELSE <<>>)

(* A message that waits while there is room for it on the other side is    *)
(* passed on, in both directions.                                          *)
Passing(s) == mode \in Modes /\ in[s] # <<>> /\ room[Opposite(s)]
MovesOn == \A s \in Sockets : Passing(s) ~> ~(Passing(s) /\ Busy)

(* grid_term breaks the loop, whatever the device is waiting for.          *)
TermEnds == term ~> ~Busy
=============================================================================
