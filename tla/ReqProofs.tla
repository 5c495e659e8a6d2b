----------------------------- MODULE ReqProofs -----------------------------
(***************************************************************************)
(* Safety of the REQ socket for every number of peers and requests.        *)
(*                                                                         *)
(* The properties of Req.tla are inductive together: that no assertion     *)
(* fails needs the timer to follow the state, the timer needs the pipe     *)
(* awaited to be known, and closing needs all of them.                     *)
(***************************************************************************)
EXTENDS Req, TimerLemmas

(* A request in progress was submitted.                                    *)
Numbered == InProgress => id \in 1..MaxId

IInv == /\ TypeOK /\ OnlyFreedReplyAborts /\ Numbered
        /\ TimerFollowsRequest /\ SockFollowsRequest
        /\ AwaitsPeer /\ NeverIdleWithPeer

(* What grid_req_action_send leaves behind, from an idle timer and a       *)
(* non-negative interval: the request is delayed with no pipe ready or     *)
(* awaited from a pipe whose peer was given it, and no assertion fails.    *)
LEMMA ActionSendLemma ==
  ASSUME resendIvl \in Nat, failed = None, sentTo = None,
         asked \in [Pipes -> SUBSET (1..MaxId)], reached \in BOOLEAN,
         NEW l \in [Pipes -> {"absent", "busy", "ready"}],
         NEW t, TimerConsistent(t), t.state = "idle",
         NEW n \in 1..MaxId,
         NEW d \in BOOLEAN, d \/ Ready(l) # {},
         ActionSend(l, t, n, d)
  PROVE  /\ failed' = None /\ reached' \in BOOLEAN
         /\ lb' \in [Pipes -> {"absent", "busy", "ready"}]
         /\ \A p \in Pipes : lb'[p] = "absent" <=> l[p] = "absent"
         /\ asked' \in [Pipes -> SUBSET (1..MaxId)]
         /\ TimerConsistent(tmr')
         /\ \/ /\ state' = "DELAYED" /\ sentTo' = None
               /\ tmr'.state = "idle" /\ Ready(lb') = {}
            \/ /\ state' = "ACTIVE" /\ sentTo' \in Pipes
               /\ lb'[sentTo'] # "absent" /\ n \in asked'[sentTo']
               /\ tmr'.state = "active"
<1>1. CASE Ready(l) = {} /\ lb' = l /\ tmr' = t /\ reached' = (reached /\ n = id)
           /\ UNCHANGED <<sentTo, asked>> /\ state' = "DELAYED" /\ UNCHANGED failed
  BY <1>1
<1>2. ASSUME NEW p \in Ready(l), NEW after \in {"ready", "busy"},
             lb' = [l EXCEPT ![p] = after],
             asked' = [asked EXCEPT ![p] = @ \cup {n}],
             reached' = TRUE, tmr' = Started(t), sentTo' = p,
             state' = "ACTIVE", UNCHANGED failed
      PROVE  /\ failed' = None /\ reached' \in BOOLEAN
             /\ lb' \in [Pipes -> {"absent", "busy", "ready"}]
             /\ \A q \in Pipes : lb'[q] = "absent" <=> l[q] = "absent"
             /\ asked' \in [Pipes -> SUBSET (1..MaxId)]
             /\ TimerConsistent(tmr')
             /\ state' = "ACTIVE" /\ sentTo' \in Pipes
             /\ lb'[sentTo'] # "absent" /\ n \in asked'[sentTo']
             /\ tmr'.state = "active"
  <2>1. p \in Pipes /\ l[p] = "ready"
    BY DEF Ready
  <2>2. TimerConsistent(tmr') /\ tmr'.state = "active"
    BY <1>2, StartConsistent
  <2>3. /\ lb' \in [Pipes -> {"absent", "busy", "ready"}]
        /\ \A q \in Pipes : lb'[q] = "absent" <=> l[q] = "absent"
        /\ lb'[p] # "absent"
    BY <1>2, <2>1
  <2>4. asked' \in [Pipes -> SUBSET (1..MaxId)] /\ n \in asked'[p]
    BY <1>2, <2>1
  <2>5. QED
    BY <1>2, <2>1, <2>2, <2>3, <2>4
<1>3. StartAllowed(t, resendIvl)
  BY StartIsAllowed
<1>4. QED
  BY <1>1, <1>2, <1>3 DEF ActionSend

-----------------------------------------------------------------------------
(* The initial state.                                                      *)
LEMMA InitInv == Init => IInv
<1> SUFFICES ASSUME Init PROVE IInv
  OBVIOUS
<1>1. TimerConsistent(tmr) /\ tmr.state = "idle" /\ tmr \in Timers
  BY IdleConsistent DEF Init, TimerConsistent
<1>2. TypeOK
  <2>1. id \in 0..MaxId
    BY MaxIdAssumption DEF Init
  <2>2. /\ lb \in [Pipes -> {"absent", "busy", "ready"}]
        /\ asked \in [Pipes -> SUBSET (1..MaxId)]
    BY DEF Init
  <2>3. QED
    BY <1>1, <2>1, <2>2, IntervalsAssumption DEF TypeOK, Init, States
<1>3. QED
  BY <1>1, <1>2 DEF Init, IInv, OnlyFreedReplyAborts, Numbered, InProgress, TimerFollowsRequest,
     SockFollowsRequest, AwaitsPeer, NeverIdleWithPeer, TimerStoppingStates

(* Steps after grid_req_action_send: what it promises is all the invariant *)
(* asks for when the rest of the state is in order.                        *)
LEMMA AfterActionSend ==
  ASSUME IInv, sock \notin {"STOPPING", "FINI"}, sock' = sock,
         id' \in 1..MaxId, reply' = reply, taken' = taken, unread' = unread, resendIvl' = resendIvl,
         failed' = None, reached' \in BOOLEAN,
         lb' \in [Pipes -> {"absent", "busy", "ready"}],
         asked' \in [Pipes -> SUBSET (1..MaxId)],
         TimerConsistent(tmr'),
         \/ /\ state' = "DELAYED" /\ sentTo' = None
            /\ tmr'.state = "idle" /\ Ready(lb') = {}
         \/ /\ state' = "ACTIVE" /\ sentTo' \in Pipes
            /\ lb'[sentTo'] # "absent" /\ id' \in asked'[sentTo']
            /\ tmr'.state = "active"
  PROVE  IInv'
<1>1. TypeOK'
  <2>1. tmr' \in Timers
    BY DEF TimerConsistent
  <2>2. id' \in 0..MaxId
    BY MaxIdAssumption
  <2>3. QED
    BY <2>1, <2>2 DEF IInv, TypeOK, States
<1>2. (TimerFollowsRequest /\ SockFollowsRequest)'
  BY DEF TimerFollowsRequest, SockFollowsRequest, TimerStoppingStates
<1>3. (AwaitsPeer /\ NeverIdleWithPeer /\ OnlyFreedReplyAborts /\ Numbered)'
  BY PipesAssumption DEF AwaitsPeer, NeverIdleWithPeer, OnlyFreedReplyAborts, Numbered
<1>4. QED
  BY <1>1, <1>2, <1>3 DEF IInv

-----------------------------------------------------------------------------
(* A call of grid_req_csend in any state the socket can be in.             *)
LEMMA SendStep == ASSUME Intervals \subseteq Nat, IInv, Send PROVE IInv'
<1>1. /\ failed = None /\ sock = "ACTIVE" /\ id < MaxId /\ id' = id + 1
      /\ UNCHANGED <<reply, resendIvl, unread, sock, taken>>
  BY DEF Send, Running
<1>2. id \in Nat /\ id' \in 1..MaxId /\ id' \in 0..MaxId
  BY <1>1, MaxIdAssumption DEF IInv, TypeOK
<1>3. /\ TimerConsistent(tmr) /\ resendIvl \in Nat
      /\ state \in States /\ state \notin {"IDLE", "STOPPING"}
  BY <1>1 DEF IInv, TypeOK, TimerFollowsRequest, SockFollowsRequest
<1>4. CASE SendNow
  <2>1. tmr.state = "idle" /\ sentTo = None
    BY <1>3, <1>4 DEF SendNow, IInv, TypeOK, TimerFollowsRequest, AwaitsPeer,
       TimerStoppingStates, Timers, TimerStates
  <2>2. ActionSend(lb, tmr, id + 1, TRUE)
    BY <1>4 DEF SendNow
  <2>3. QED
    BY <1>1, <1>2, <1>3, <2>1, <2>2, ActionSendLemma, AfterActionSend DEF IInv, TypeOK
<1>5. CASE SendDelayed
  BY <1>1, <1>2, <1>5 DEF SendDelayed, IInv, TypeOK, OnlyFreedReplyAborts, Numbered, InProgress, TimerFollowsRequest,
     SockFollowsRequest, AwaitsPeer, NeverIdleWithPeer, TimerStoppingStates,
     AllGone
<1>6. CASE SendCancels
  <2>1. /\ state = "ACTIVE" /\ state' = "CANCELLING" /\ sentTo' = None
        /\ tmr' = StopRequested(tmr) /\ tmr.state = "active"
    BY <1>6 DEF SendCancels, StopWaiting, IInv, TimerFollowsRequest
  <2>2. TimerConsistent(tmr') /\ tmr'.state = "stopping" /\ tmr' \in Timers
    BY <1>3, <2>1, StopConsistent DEF TimerConsistent
  <2>3. QED
    BY <1>1, <1>2, <1>6, <2>1, <2>2 DEF SendCancels, IInv, TypeOK, OnlyFreedReplyAborts, Numbered, InProgress,
       TimerFollowsRequest, SockFollowsRequest, AwaitsPeer, NeverIdleWithPeer, TimerStoppingStates, States, AllGone
<1>7. CASE SendAgain
  BY <1>1, <1>2, <1>7 DEF SendAgain, IInv, TypeOK, OnlyFreedReplyAborts, Numbered, InProgress, TimerFollowsRequest,
     SockFollowsRequest, AwaitsPeer, NeverIdleWithPeer, TimerStoppingStates,
     AllGone, States
<1>8. QED
  BY <1>3, <1>4, <1>5, <1>6, <1>7 DEF Send

(* A reply fetched by the user, and a change of the resend interval.       *)
LEMMA RecvStep ==
  ASSUME IInv, Recv \/ SetResendIvl PROVE IInv'
<1>1. CASE Recv
  <2>1. /\ failed = None /\ state = "DONE" /\ sock = "ACTIVE" /\ id \in 1..MaxId
        /\ UNCHANGED <<id, sentTo, tmr, resendIvl, lb, unread, sock, asked, reached>>
    BY <1>1 DEF IInv, Recv, Running, Numbered, InProgress
  <2>2. CASE RecvFreed
    BY <2>1, <2>2 DEF RecvFreed, Abort, IInv, TypeOK, OnlyFreedReplyAborts, Numbered,
     InProgress, TimerFollowsRequest, SockFollowsRequest, AwaitsPeer, NeverIdleWithPeer,
     TimerStoppingStates, AllGone, States, Ready
  <2>3. CASE RecvMessage
    <3>1. reply' = Empty /\ state' = "PASSIVE" /\ failed' = None /\ taken' \in SUBSET (1..MaxId)
      BY <2>1, <2>3 DEF RecvMessage, IInv, TypeOK
    <3>2. QED
      BY <2>1, <3>1 DEF IInv, TypeOK, OnlyFreedReplyAborts, Numbered,
       InProgress, TimerFollowsRequest, SockFollowsRequest, AwaitsPeer, NeverIdleWithPeer,
       TimerStoppingStates, AllGone, States
  <2>4. QED
    BY <1>1, <2>2, <2>3 DEF Recv
<1>2. CASE SetResendIvl
  BY <1>2 DEF SetResendIvl, IInv, TypeOK, OnlyFreedReplyAborts, Numbered, InProgress, TimerFollowsRequest,
     SockFollowsRequest, AwaitsPeer, NeverIdleWithPeer, TimerStoppingStates,
     AllGone, Ready
<1>3. QED
  BY <1>1, <1>2

-----------------------------------------------------------------------------
(* A pipe that gets writable, new or not.                                  *)
LEMMA WritableStep ==
  ASSUME Intervals \subseteq Nat, IInv, NEW p \in Pipes, PipeAdd(p) \/ PipeOut(p)
  PROVE  IInv'
<1> DEFINE l == [lb EXCEPT ![p] = "ready"]
<1>1. /\ failed = None /\ sock = "ACTIVE" /\ Writable(p)
      /\ UNCHANGED <<id, reply, resendIvl, unread, sock, taken>>
  BY DEF PipeAdd, PipeOut, Running
<1>2. /\ l \in [Pipes -> {"absent", "busy", "ready"}] /\ l[p] = "ready"
      /\ \A q \in Pipes : lb[q] # "absent" => l[q] # "absent"
  BY DEF IInv, TypeOK
<1>3. p \in Ready(l)
  BY <1>2 DEF Ready
<1>4. CASE state = "DELAYED"
  <2>1. /\ ActionSend(l, tmr, id, FALSE)
    BY <1>1, <1>4 DEF Writable
  <2>2. /\ TimerConsistent(tmr) /\ tmr.state = "idle" /\ sentTo = None
        /\ resendIvl \in Nat /\ id \in 1..MaxId
    BY <1>4 DEF IInv, TypeOK, Numbered, InProgress, TimerFollowsRequest, AwaitsPeer,
       TimerStoppingStates, Timers, TimerStates
  <2>3. QED
    BY <1>1, <1>2, <1>3, <2>1, <2>2, ActionSendLemma, AfterActionSend DEF IInv, TypeOK
<1>5. CASE state # "DELAYED"
  <2>1. lb' = l /\ UNCHANGED <<state, sentTo, tmr, failed, asked, reached>>
    BY <1>1, <1>5 DEF Writable
  <2> HIDE DEF l
  <2>2. QED
    BY <1>1, <1>2, <1>5, <2>1 DEF IInv, TypeOK, OnlyFreedReplyAborts, Numbered, InProgress,
     TimerFollowsRequest, SockFollowsRequest, AwaitsPeer, NeverIdleWithPeer,
     TimerStoppingStates, AllGone
<1>6. QED
  BY <1>4, <1>5

(* Leaving ACTIVE through StopWaiting.                                     *)
LEMMA StopWaitingLemma ==
  ASSUME IInv, state = "ACTIVE", NEW next, StopWaiting(next)
  PROVE  /\ TimerConsistent(tmr') /\ tmr'.state = "stopping" /\ tmr' \in Timers
         /\ sentTo' = None /\ state' = next
<1>1. TimerConsistent(tmr) /\ tmr.state = "active"
  BY DEF IInv, TimerFollowsRequest
<1>2. tmr' = StopRequested(tmr)
  BY DEF StopWaiting
<1>3. QED
  BY <1>1, <1>2, StopConsistent DEF StopWaiting, TimerConsistent

(* A message arrives: the reply waited for, or anything else.              *)
LEMMA PipeInStep ==
  ASSUME IInv, NEW p \in Pipes, PipeIn(p) PROVE IInv'
<1>1. /\ failed = None /\ sock = "ACTIVE"
      /\ UNCHANGED <<id, resendIvl, lb, sock, failed, asked, reached, taken>>
  BY DEF PipeIn, Running
<1>2. PICK n : InAccepts(n, unread \cup {p}) \/ InDiscards(n, unread \cup {p})
  BY DEF PipeIn
<1>3. unread' \subseteq Pipes
  BY <1>2 DEF InAccepts, InDiscards, IInv, TypeOK
<1>4. CASE InAccepts(n, unread \cup {p}) /\ state = "ACTIVE"
  <2>1. reply' = Whole(id) /\ id \in 1..MaxId /\ StopWaiting("STOPPING_TIMER")
    BY <1>4 DEF InAccepts, Accepts, IInv, Numbered
  <2>2. /\ TimerConsistent(tmr') /\ tmr'.state = "stopping" /\ tmr' \in Timers
        /\ sentTo' = None /\ state' = "STOPPING_TIMER"
    BY <1>4, <2>1, StopWaitingLemma
  <2>3. QED
    BY <1>1, <1>3, <2>1, <2>2 DEF IInv, TypeOK, OnlyFreedReplyAborts, Numbered, InProgress,
     TimerFollowsRequest, SockFollowsRequest, AwaitsPeer, NeverIdleWithPeer,
     TimerStoppingStates, AllGone, States
<1>5. CASE ~(InAccepts(n, unread \cup {p}) /\ state = "ACTIVE")
  <2>1. /\ UNCHANGED <<state, sentTo, tmr>>
        /\ reply' \in {Stale, Freed} \/ (reply' = Whole(id) /\ id \in 1..MaxId)
    BY <1>2, <1>5 DEF InAccepts, InDiscards, Accepts, IInv, Numbered
  <2>2. QED
    BY <1>1, <1>3, <2>1 DEF IInv, TypeOK, OnlyFreedReplyAborts, Numbered, InProgress,
     TimerFollowsRequest, SockFollowsRequest, AwaitsPeer, NeverIdleWithPeer,
     TimerStoppingStates, AllGone
<1>6. QED
  BY <1>4, <1>5

(* A pipe is removed: the request sent to it is sent again.                *)
LEMMA PipeRmStep ==
  ASSUME IInv, NEW p \in Pipes, PipeRm(p) PROVE IInv'
<1>1. /\ failed = None /\ sock \in {"ACTIVE", "STOPPING_EPS"}
      /\ lb' = [lb EXCEPT ![p] = "absent"] /\ asked' = [asked EXCEPT ![p] = {}]
      /\ unread' = unread \ {p}
      /\ UNCHANGED <<id, reply, resendIvl, sock, reached, taken>>
  BY DEF PipeRm, Running
<1>2. /\ lb' \in [Pipes -> {"absent", "busy", "ready"}]
      /\ asked' \in [Pipes -> SUBSET (1..MaxId)]
      /\ \A q \in Pipes \ {p} : lb'[q] = lb[q] /\ asked'[q] = asked[q]
      /\ lb'[p] = "absent"
  BY <1>1 DEF IInv, TypeOK
<1>3. Ready(lb') \subseteq Ready(lb)
  BY <1>2 DEF Ready
<1>4. CASE sentTo # p
  <2>1. UNCHANGED <<state, sentTo, tmr, failed>>
    BY <1>4 DEF PipeRm
  <2>2. QED
    BY <1>1, <1>2, <1>3, <1>4, <2>1 DEF IInv, TypeOK, OnlyFreedReplyAborts, Numbered, InProgress,
     TimerFollowsRequest, SockFollowsRequest, AwaitsPeer, NeverIdleWithPeer,
     TimerStoppingStates
<1>5. CASE sentTo = p
  <2>1. state = "ACTIVE"
    BY <1>5, PipesAssumption DEF IInv, AwaitsPeer
  <2>2. StopWaiting("TIMED_OUT") /\ failed' = failed
    BY <1>5, <2>1 DEF PipeRm
  <2>3. /\ TimerConsistent(tmr') /\ tmr'.state = "stopping" /\ tmr' \in Timers
        /\ sentTo' = None /\ state' = "TIMED_OUT"
    BY <2>1, <2>2, StopWaitingLemma
  <2>4. QED
    BY <1>1, <1>2, <2>1, <2>2, <2>3 DEF IInv, TypeOK, OnlyFreedReplyAborts, Numbered, InProgress,
     TimerFollowsRequest, SockFollowsRequest, AwaitsPeer, NeverIdleWithPeer,
     TimerStoppingStates, States
<1>6. QED
  BY <1>4, <1>5

-----------------------------------------------------------------------------
(* The worker executes the start task or takes the timer out of its set.   *)
LEMMA WorkerStep ==
  ASSUME IInv, StartTask \/ Expire PROVE IInv'
<1>1. /\ UNCHANGED <<state, id, reply, sentTo, resendIvl, lb, unread, sock, failed, asked,
                   reached, taken>>
      /\ TimerConsistent(tmr') /\ tmr'.state = tmr.state /\ tmr' \in Timers
  <2>1. TimerConsistent(tmr)
    BY DEF IInv, TimerFollowsRequest
  <2>2. CASE StartTask
    BY <2>1, <2>2, StartTaskConsistent DEF StartTask, TimerConsistent
  <2>3. CASE Expire
    BY <2>1, <2>3, ExpiryConsistent DEF Expire, TimerConsistent
  <2>4. QED
    BY <2>2, <2>3
<1>2. QED
  BY <1>1 DEF IInv, TypeOK, OnlyFreedReplyAborts, Numbered, InProgress, TimerFollowsRequest,
     SockFollowsRequest, AwaitsPeer, NeverIdleWithPeer, TimerStoppingStates,
     AllGone, Ready

(* An expiry that reaches the context: a TIMEOUT is raised only while a    *)
(* reply is awaited, for any other state has stopped the timer.            *)
LEMMA FireStep ==
  ASSUME IInv, Fire PROVE IInv'
<1> DEFINE t == AfterFired(tmr)
<1>1. /\ failed = None /\ tmr.wtimer = "fired"
      /\ UNCHANGED <<id, reply, resendIvl, lb, unread, sock, asked, reached, taken>>
  BY DEF Fire, Running
<1>2. /\ TimerConsistent(t) /\ t.state = tmr.state /\ t \in Timers
  BY <1>1, ExpiryConsistent DEF IInv, TimerFollowsRequest, TimerConsistent
<1>3. RaisesTimeout(tmr) => state = "ACTIVE"
  BY DEF RaisesTimeout, IInv, TimerFollowsRequest
<1>4. CASE ~RaisesTimeout(tmr)
  <2>1. tmr' = t /\ UNCHANGED <<state, sentTo, failed>>
    BY <1>4 DEF Fire
  <2> HIDE DEF t
  <2>2. QED
    BY <1>1, <1>2, <2>1 DEF IInv, TypeOK, OnlyFreedReplyAborts, Numbered, InProgress, TimerFollowsRequest,
     SockFollowsRequest, AwaitsPeer, NeverIdleWithPeer, TimerStoppingStates,
     AllGone, Ready
<1>5. CASE RaisesTimeout(tmr)
  <2>1. /\ tmr' = StopRequested(t) /\ sentTo' = None /\ state' = "TIMED_OUT"
        /\ failed' = failed /\ state = "ACTIVE"
    BY <1>3, <1>5 DEF Fire
  <2>2. t.state = "active"
    BY <1>2, <2>1 DEF IInv, TimerFollowsRequest
  <2> HIDE DEF t
  <2>3. TimerConsistent(tmr') /\ tmr'.state = "stopping" /\ tmr' \in Timers
    BY <1>2, <2>1, <2>2, StopConsistent DEF TimerConsistent
  <2>4. QED
    BY <1>1, <2>1, <2>3 DEF IInv, TypeOK, OnlyFreedReplyAborts, Numbered, InProgress, TimerFollowsRequest,
     SockFollowsRequest, AwaitsPeer, NeverIdleWithPeer, TimerStoppingStates,
     AllGone, Ready, States
<1>6. QED
  BY <1>4, <1>5

(* The stop task: the timer was stopping, so the state has a case for      *)
(* STOPPED, and the request is sent again, done, or the socket finalised.  *)
LEMMA StopTaskStep ==
  ASSUME Intervals \subseteq Nat, IInv, StopTask PROVE IInv'
<1> DEFINE t == AfterStopTask(tmr)
<1>1. /\ failed = None /\ UNCHANGED <<id, reply, resendIvl, unread, taken>>
  BY DEF StopTask, Running
<1>2. /\ tmr.state = "stopping" /\ TimerConsistent(t) /\ t.state = "idle" /\ t \in Timers
  BY StopTaskConsistent DEF StopTask, IInv, TimerFollowsRequest, TimerConsistent
<1>3. state \in TimerStoppingStates /\ sentTo = None
  BY <1>2, PipesAssumption DEF IInv, TimerFollowsRequest, AwaitsPeer, TimerStoppingStates
<1> HIDE DEF t
<1>4. CASE StoppedResends
  <2>1. ActionSend(lb, t, id, TRUE) /\ sock' = sock /\ state \in {"TIMED_OUT", "CANCELLING"}
    BY <1>4 DEF StoppedResends, t
  <2>2. resendIvl \in Nat /\ id \in 1..MaxId /\ sock \notin {"STOPPING", "FINI"}
    BY <2>1 DEF IInv, TypeOK, Numbered, InProgress, SockFollowsRequest
  <2>3. QED
    BY <1>1, <1>2, <1>3, <2>1, <2>2, ActionSendLemma, AfterActionSend DEF IInv, TypeOK
<1>5. CASE StoppedDone
  <2>1. /\ state = "STOPPING_TIMER" /\ state' = "DONE" /\ tmr' = t
        /\ UNCHANGED <<sentTo, lb, sock, failed, asked, reached>>
    BY <1>5 DEF StoppedDone, t
  <2>2. QED
    BY <1>1, <1>2, <2>1 DEF IInv, TypeOK, OnlyFreedReplyAborts, Numbered, InProgress, TimerFollowsRequest,
     SockFollowsRequest, AwaitsPeer, NeverIdleWithPeer, TimerStoppingStates,
     AllGone, Ready, States
<1>6. CASE StoppedCloses
  <2>1. /\ state = "STOPPING" /\ state' = "IDLE" /\ sock' = "FINI" /\ tmr' = t
        /\ UNCHANGED <<sentTo, lb, asked, reached>>
        /\ failed' = None \/ (failed' = "reply freed" /\ reply = Freed)
    BY <1>1, <1>6 DEF StoppedCloses, DestroyReq, Abort, t
  <2>2. QED
    BY <1>1, <1>2, <2>1 DEF IInv, TypeOK, OnlyFreedReplyAborts, Numbered, InProgress, TimerFollowsRequest,
     SockFollowsRequest, AwaitsPeer, NeverIdleWithPeer, TimerStoppingStates,
     AllGone, Ready, States
<1>7. QED
  BY <1>3, <1>4, <1>5, <1>6 DEF StopTask

-----------------------------------------------------------------------------
(* Closing: with every pipe gone no reply is awaited, so the timer is idle *)
(* or being stopped already.                                               *)
LEMMA CloseStep ==
  ASSUME IInv, Close \/ EpsStopped PROVE IInv'
<1>1. /\ failed = None /\ sock \in {"ACTIVE", "STOPPING_EPS"}
      /\ UNCHANGED <<id, reply, sentTo, resendIvl, lb, unread, asked, reached, taken>>
  BY DEF Close, EpsStopped, Running
<1>2. CASE sock' = "STOPPING_EPS" /\ UNCHANGED <<state, tmr, failed>>
  BY <1>1, <1>2 DEF IInv, TypeOK, OnlyFreedReplyAborts, Numbered, InProgress, TimerFollowsRequest,
     SockFollowsRequest, AwaitsPeer, NeverIdleWithPeer, TimerStoppingStates,
     AllGone, Ready
<1>3. CASE AllGone /\ ReqStop
  <2>1. /\ tmr' = StopRequested(tmr)
        /\ IF TimerIsIdle(tmr) THEN state' = "IDLE" /\ sock' = "FINI"
                               ELSE state' = "STOPPING" /\ sock' = "STOPPING"
        /\ failed' = None \/ (failed' = "reply freed" /\ reply = Freed)
    BY <1>1, <1>3 DEF ReqStop, DestroyReq, Abort
  <2>2. state # "ACTIVE" /\ sentTo = None
    BY <1>3, PipesAssumption DEF AllGone, IInv, AwaitsPeer
  <2>3. /\ TimerConsistent(tmr) /\ tmr.state # "active" /\ tmr \in Timers
    BY <2>2 DEF IInv, TypeOK, TimerFollowsRequest
  <2>4. tmr' = tmr
    BY <2>1, <2>3, StopConsistent
  <2>5. tmr.state \in {"idle", "stopping"}
    BY <2>3 DEF Timers, TimerStates
  <2>6. QED
    BY <1>1, <1>3, <2>1, <2>2, <2>4, <2>5 DEF IInv, TypeOK, OnlyFreedReplyAborts, Numbered, InProgress, TimerFollowsRequest,
     SockFollowsRequest, AwaitsPeer, NeverIdleWithPeer, TimerStoppingStates,
     AllGone, Ready, States, TimerIsIdle
<1>4. QED
  BY <1>2, <1>3 DEF Close, EpsStopped

LEMMA StepInv ==
  ASSUME Intervals \subseteq Nat, IInv, [Next]_vars PROVE IInv'
<1>1. CASE UNCHANGED vars
  BY <1>1 DEF vars, IInv, TypeOK, OnlyFreedReplyAborts, Numbered, InProgress, TimerFollowsRequest,
     SockFollowsRequest, AwaitsPeer, NeverIdleWithPeer, TimerStoppingStates,
     AllGone, Ready
<1>2. CASE Send
  BY <1>2, SendStep
<1>3. CASE Recv \/ SetResendIvl
  BY <1>3, RecvStep
<1>4. ASSUME NEW p \in Pipes, PipeAdd(p) \/ PipeOut(p) PROVE IInv'
  BY <1>4, WritableStep
<1>5. ASSUME NEW p \in Pipes, PipeIn(p) PROVE IInv'
  BY <1>5, PipeInStep
<1>6. ASSUME NEW p \in Pipes, PipeRm(p) PROVE IInv'
  BY <1>6, PipeRmStep
<1>7. CASE StartTask \/ Expire
  BY <1>7, WorkerStep
<1>8. CASE Fire
  BY <1>8, FireStep
<1>9. CASE StopTask
  BY <1>9, StopTaskStep
<1>10. CASE Close \/ EpsStopped
  BY <1>10, CloseStep
<1>11. QED
  BY <1>1, <1>2, <1>3, <1>4, <1>5, <1>6, <1>7, <1>8, <1>9, <1>10 DEF Next

-----------------------------------------------------------------------------
(* The inductive invariant holds in every reachable state, provided the    *)
(* user sets no negative resend interval (grid_req_setopt would take it).  *)
THEOREM Invariant ==
  ASSUME Intervals \subseteq Nat PROVE Safety => []IInv
<1>1. Init => IInv
  BY InitInv
<1>2. IInv /\ [Next]_vars => IInv'
  BY StepInv
<1>3. QED
  BY <1>1, <1>2, PTL DEF Safety

(* The variables keep their types, the resend timer runs exactly while a   *)
(* reply is awaited and each state that waits for STOPPED has a stop task  *)
(* on its way, the socket is finalised exactly when the protocol is, and   *)
(* task.sent_to is a connected pipe whose peer has the current request, or *)
(* NULL: through every handler of req.c.                                   *)
THEOREM StaysConsistent ==
  ASSUME Intervals \subseteq Nat PROVE Safety => []Consistent
<1>1. IInv => Consistent
  BY DEF IInv, Consistent
<1>2. QED
  BY <1>1, Invariant, PTL

(* Through every sequence of calls, pipe events and worker steps the REQ   *)
(* socket ends the process in no other way than by the use of a message it *)
(* discarded in the reply field: grid_req_handler has a case for every     *)
(* event it gets, and a request and its timer are started when they can be.*)
THEOREM OnlyDiscardedReplyAborts ==
  ASSUME Intervals \subseteq Nat PROVE Safety => []OnlyFreedReplyAborts
<1>1. IInv => OnlyFreedReplyAborts
  BY DEF IInv
<1>2. QED
  BY <1>1, Invariant, PTL

(* A delayed request has no pipe that could take it.                       *)
THEOREM DelayedOnlyWithoutPeer ==
  ASSUME Intervals \subseteq Nat PROVE Safety => []NeverIdleWithPeer
<1>1. IInv => NeverIdleWithPeer
  BY DEF IInv
<1>2. QED
  BY <1>1, Invariant, PTL

-----------------------------------------------------------------------------
(***************************************************************************)
(* The REQ socket keeps the promise of ReqClient: every step of Req is a   *)
(* step of the client or leaves what the client sees alone.                *)
(***************************************************************************)

(* An answer is awaited only for a request that went to a peer.            *)
AwaitedReached == state = "ACTIVE" => reached

(* Only an available reply can be lost, and only by another message.       *)
LEMMA LostSeen ==
  /\ Phase # "answered" => ReplyLost = FALSE
  /\ Phase' # "answered" => ReplyLost' = FALSE
  /\ Phase' = Phase /\ UNCHANGED <<id, reply>> => ReplyLost' = ReplyLost
BY DEF ReplyLost

(* What the client sees after grid_req_action_send, which cannot fail.     *)
LEMMA ActionSendSeen ==
  ASSUME failed = None, IInv', NEW l, NEW t, NEW n, NEW d, ActionSend(l, t, n, d)
  PROVE  \/ state' = "ACTIVE" /\ reached' = TRUE
         \/ state' = "DELAYED" /\ reached' = (reached /\ n = id)
<1>1. failed' \notin {"allow_delay", "timer_start"}
  BY DEF IInv, OnlyFreedReplyAborts, None
<1>2. QED
  BY <1>1 DEF ActionSend, Abort

-----------------------------------------------------------------------------
(* grid_req_csend submits the request, whatever became of the last one.    *)
LEMMA SendSeen ==
  ASSUME IInv, IInv', Send
  PROVE  Client!Submit /\ AwaitedReached'
<1>1. /\ sock = "ACTIVE" /\ sock' = sock /\ id' = id + 1 /\ taken' = taken
      /\ state \notin {"IDLE", "STOPPING"} /\ failed = None
  BY DEF Send, Running, IInv, SockFollowsRequest
<1>2. /\ state' \in {"DELAYED", "ACTIVE", "CANCELLING"}
      /\ reached' \in BOOLEAN /\ AwaitedReached'
  <2>1. CASE SendNow
    <3>1. ActionSend(lb, tmr, id + 1, TRUE)
      BY <2>1 DEF SendNow
    <3>2. \/ state' = "ACTIVE" /\ reached' = TRUE
          \/ state' = "DELAYED" /\ reached' = (reached /\ id + 1 = id)
      BY <1>1, <3>1, ActionSendSeen
    <3>3. QED
      BY <3>2 DEF AwaitedReached, IInv, TypeOK
  <2>2. CASE SendDelayed
    BY <2>2 DEF SendDelayed, AwaitedReached
  <2>3. CASE SendCancels
    BY <2>3 DEF SendCancels, StopWaiting, AwaitedReached
  <2>4. CASE SendAgain
    BY <2>4 DEF SendAgain, AwaitedReached
  <2>5. QED
    BY <1>1, <2>1, <2>2, <2>3, <2>4 DEF Send
<1>3. Phase # "closed" /\ Phase' = "waiting"
  BY <1>1, <1>2 DEF Phase
<1>4. QED
  BY <1>1, <1>2, <1>3, LostSeen DEF Client!Submit

(* grid_req_crecv takes the reply, or the message that took its place; a   *)
(* released one ends the process, which the client does not see.           *)
LEMMA RecvSeen ==
  ASSUME Recv, AwaitedReached
  PROVE  (Client!Take \/ UNCHANGED Client!vars) /\ AwaitedReached'
<1>1. /\ state = "DONE" /\ sock = "ACTIVE" /\ sock' = sock
      /\ UNCHANGED <<id, reached>> /\ Phase = "answered"
  BY DEF Recv, Phase
<1>2. CASE RecvFreed
  BY <1>1, <1>2 DEF RecvFreed, Phase, ReplyLost, Client!vars, AwaitedReached
<1>3. CASE RecvMessage
  <2>1. /\ state' = "PASSIVE"
        /\ taken' = IF reply = Whole(id) THEN taken \cup {id} ELSE taken
    BY <1>3 DEF RecvMessage
  <2>2. Phase' = "none"
    BY <1>1, <2>1 DEF Phase
  <2>3. ReplyLost <=> reply # Whole(id)
    BY <1>1 DEF ReplyLost
  <2>4. ReplyLost' = FALSE
    BY <2>2 DEF ReplyLost
  <2>5. taken' = IF ReplyLost THEN taken ELSE taken \cup {id}
    BY <2>1, <2>3
  <2>6. QED
    BY <1>1, <2>1, <2>2, <2>4, <2>5 DEF Client!Take, AwaitedReached
<1>4. QED
  BY <1>2, <1>3 DEF Recv

(* A reply that is accepted while it is awaited answers the request; a     *)
(* message that comes before that is fetched takes its place; any other    *)
(* changes nothing the client can see.                                     *)
LEMMA PipeInSeen ==
  ASSUME IInv, AwaitedReached, NEW p \in Pipes, PipeIn(p)
  PROVE  (Client!Answer \/ Client!Replace \/ UNCHANGED Client!vars) /\ AwaitedReached'
<1>1. sock = "ACTIVE" /\ UNCHANGED <<id, sock, reached, taken>>
  BY DEF PipeIn
<1>2. \/ state = "ACTIVE" /\ state' = "STOPPING_TIMER" /\ reply' = Whole(id')
      \/ state' = state
  BY DEF PipeIn, InAccepts, InDiscards, Accepts, StopWaiting
<1>3. CASE state = "ACTIVE" /\ state' = "STOPPING_TIMER" /\ reply' = Whole(id')
  <2>1. Phase = "waiting" /\ Phase' = "answered" /\ reached
    BY <1>1, <1>3 DEF Phase, AwaitedReached
  <2>2. ReplyLost' = FALSE
    BY <1>3 DEF ReplyLost
  <2>3. QED
    BY <1>1, <1>3, <2>1, <2>2 DEF Client!Answer, AwaitedReached
<1>4. CASE state' = state
  <2>1. Phase' = Phase /\ AwaitedReached'
    BY <1>1, <1>4 DEF Phase, AwaitedReached
  <2>2. CASE Phase = "answered"
    <3>1. ReplyLost' \in BOOLEAN
      BY DEF ReplyLost
    <3>2. QED
      BY <1>1, <2>1, <2>2, <3>1 DEF Client!Replace
  <2>3. CASE Phase # "answered"
    BY <1>1, <2>1, <2>3 DEF ReplyLost, Client!vars
  <2>4. QED
    BY <2>2, <2>3
<1>5. QED
  BY <1>2, <1>3, <1>4

(* A transmission after the first: a delayed request, or a resend after    *)
(* the timer stopped, also while the socket is closing.                    *)
LEMMA SentAgainSeen ==
  ASSUME IInv, IInv', failed = None, NEW l, NEW t, NEW d, ActionSend(l, t, id, d),
         state \in {"DELAYED", "TIMED_OUT", "CANCELLING"},
         UNCHANGED <<id, sock, taken, reply>>
  PROVE  (Client!Transmit \/ UNCHANGED Client!vars) /\ AwaitedReached'
<1>1. \/ state' = "ACTIVE" /\ reached' = TRUE
      \/ state' = "DELAYED" /\ reached' = (reached /\ id = id)
  BY ActionSendSeen
<1>2. Phase \in {"waiting", "closed"} /\ Phase' = Phase
  BY <1>1 DEF Phase
<1>3. CASE reached' = TRUE /\ state' = "ACTIVE"
  BY <1>2, <1>3, LostSeen DEF Client!Transmit, AwaitedReached
<1>4. CASE state' = "DELAYED" /\ reached' = (reached /\ id = id)
  <2>1. reached' = reached
    BY <1>4 DEF IInv, TypeOK
  <2>2. QED
    BY <1>2, <1>4, <2>1, LostSeen DEF Client!vars, AwaitedReached
<1>5. QED
  BY <1>1, <1>3, <1>4

(* A pipe that gets writable takes a delayed request.                      *)
LEMMA WritableSeen ==
  ASSUME IInv, IInv', AwaitedReached, NEW p \in Pipes, PipeAdd(p) \/ PipeOut(p)
  PROVE  (Client!Transmit \/ UNCHANGED Client!vars) /\ AwaitedReached'
<1>1. Writable(p) /\ UNCHANGED <<id, sock, taken, reply>> /\ failed = None
  BY DEF PipeAdd, PipeOut, Running
<1>2. CASE state = "DELAYED"
  <2>1. ActionSend([lb EXCEPT ![p] = "ready"], tmr, id, FALSE)
    BY <1>1, <1>2 DEF Writable
  <2>2. QED
    BY <1>1, <1>2, <2>1, SentAgainSeen
<1>3. CASE state # "DELAYED"
  BY <1>1, <1>3 DEF Writable, Phase, ReplyLost, Client!vars, AwaitedReached
<1>4. QED
  BY <1>2, <1>3

(* The timer has stopped: the request is sent again, or the reply is ready,*)
(* or the socket is finalised.                                             *)
LEMMA StopTaskSeen ==
  ASSUME IInv, IInv', AwaitedReached, StopTask
  PROVE  (Client!Transmit \/ UNCHANGED Client!vars) /\ AwaitedReached'
<1>1. UNCHANGED <<id, taken, reply>> /\ failed = None
  BY DEF StopTask, Running
<1>2. CASE StoppedResends
  BY <1>1, <1>2, SentAgainSeen DEF StoppedResends
<1>3. CASE StoppedDone
  BY <1>1, <1>3 DEF StoppedDone, Phase, ReplyLost, Client!vars, AwaitedReached
<1>4. CASE StoppedCloses
  BY <1>1, <1>4 DEF StoppedCloses, Phase, ReplyLost, Client!vars, AwaitedReached
<1>5. CASE StoppedBad
  BY <1>1, <1>5 DEF StoppedBad, Abort, None, IInv, OnlyFreedReplyAborts
<1>6. QED
  BY <1>2, <1>3, <1>4, <1>5 DEF StopTask

(* Losing the pipe or the patience sends the request back to be resent,    *)
(* which the client does not see; nor does it see the worker.              *)
LEMMA HiddenSeen ==
  ASSUME IInv, AwaitedReached,
         SetResendIvl \/ (\E p \in Pipes : PipeRm(p)) \/ StartTask \/ Expire \/ Fire
  PROVE  UNCHANGED Client!vars /\ AwaitedReached'
<1>1. /\ UNCHANGED <<id, reply, sock, reached, taken>>
      /\ state' = state \/ (state = "ACTIVE" /\ state' = "TIMED_OUT")
  BY DEF SetResendIvl, PipeRm, StartTask, Expire, Fire, StopWaiting
<1>2. Phase' = Phase
  BY <1>1 DEF Phase
<1>3. QED
  BY <1>1, <1>2, LostSeen DEF Client!vars, AwaitedReached

(* grid_close: the client sees the first step of it only.                  *)
LEMMA CloseSeen ==
  ASSUME IInv, AwaitedReached, Close \/ EpsStopped
  PROVE  (Client!Close \/ UNCHANGED Client!vars) /\ AwaitedReached'
<1>1. /\ UNCHANGED <<id, reached, taken>>
      /\ sock \in {"ACTIVE", "STOPPING_EPS"} /\ sock' # "ACTIVE"
      /\ state' = state \/ state' \in {"IDLE", "STOPPING"}
  BY DEF Close, EpsStopped, ReqStop
<1>2. Phase' = "closed"
  BY <1>1 DEF Phase
<1>3. QED
  <2>1. CASE Phase = "closed"
    BY <1>1, <1>2, <2>1, LostSeen DEF Client!vars, AwaitedReached
  <2>2. CASE Phase # "closed"
    BY <1>1, <1>2, <2>2, LostSeen DEF Client!Close, AwaitedReached
  <2>3. QED
    BY <2>1, <2>2

-----------------------------------------------------------------------------
(* Every step of the socket, with the invariant, is one of the client's.   *)
LEMMA StepSeen ==
  ASSUME IInv, IInv', AwaitedReached, [Next]_vars
  PROVE  [Client!Next]_(Client!vars) /\ AwaitedReached'
<1>1. CASE UNCHANGED vars
  BY <1>1 DEF vars, Phase, ReplyLost, Client!vars, AwaitedReached
<1>2. CASE Send
  BY <1>2, SendSeen DEF Client!Next
<1>3. CASE Recv
  BY <1>3, RecvSeen DEF Client!Next
<1>4. ASSUME NEW p \in Pipes, PipeAdd(p) \/ PipeOut(p)
      PROVE  [Client!Next]_(Client!vars) /\ AwaitedReached'
  BY <1>4, WritableSeen DEF Client!Next
<1>5. ASSUME NEW p \in Pipes, PipeIn(p)
      PROVE  [Client!Next]_(Client!vars) /\ AwaitedReached'
  BY <1>5, PipeInSeen DEF Client!Next
<1>6. CASE SetResendIvl \/ (\E p \in Pipes : PipeRm(p)) \/ StartTask \/ Expire \/ Fire
  BY <1>6, HiddenSeen
<1>7. CASE StopTask
  BY <1>7, StopTaskSeen DEF Client!Next
<1>8. CASE Close \/ EpsStopped
  BY <1>8, CloseSeen DEF Client!Next
<1>9. QED
  BY <1>1, <1>2, <1>3, <1>4, <1>5, <1>6, <1>7, <1>8 DEF Next

(* A reply becomes available only for the current request and only after   *)
(* it reached a peer, and grid_recv hands it out once, whatever happens to *)
(* timers, pipes and stale replies; for any number of peers and requests.  *)
THEOREM SocketServesClient ==
  ASSUME Intervals \subseteq Nat PROVE Safety => ImplementsClient
<1>1. Init => Client!Init /\ AwaitedReached
  BY LostSeen DEF Init, Client!Init, Phase, AwaitedReached
<1>2. IInv /\ IInv' /\ AwaitedReached /\ [Next]_vars
         => [Client!Next]_(Client!vars) /\ AwaitedReached'
  BY StepSeen
<1>3. Safety => []IInv
  BY Invariant
<1>4. QED
  BY <1>1, <1>2, <1>3, PTL DEF Safety, ImplementsClient, Client!Spec
=============================================================================
