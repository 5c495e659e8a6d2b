------------------------------ MODULE Surveyor ------------------------------
(***************************************************************************)
(* The SURVEYOR socket: src/src/protocols/survey/surveyor.c on the raw     *)
(* socket xsurveyor.c, its distributor (dist.c) and its fair queue (fq.c). *)
(*                                                                         *)
(* As in Req, an action is one entry into the context of the socket, and a *)
(* pipe is added and becomes writable in one step.  A pipe hands over one  *)
(* response at a time (pipe.c); which of several pipes is read first is    *)
(* left open, Balancer says how the fair queue chooses.                    *)
(***************************************************************************)
EXTENDS TimerOps, Integers

CONSTANTS
    Respondents, \* identities of the connections to respondents
    MaxId,       \* bound: surveys the user submits
    Deadlines    \* values the user may set GRID_SURVEYOR_DEADLINE to

ASSUME MaxIdAssumption == MaxId \in Nat
GRID_SURVEYOR_DEFAULT_DEADLINE == 1000
ASSUME DeadlinesAssumption == /\ Deadlines \subseteq Nat
                              /\ GRID_SURVEYOR_DEFAULT_DEADLINE \in Deadlines

VARIABLES
    state,      \* grid_surveyor.state
    surveyid,   \* grid_surveyor.surveyid, counted from 0; tosend bears it
    tmr,        \* grid_surveyor.timer and its share of the worker
    timedout,   \* grid_surveyor.timedout
    deadline,   \* grid_surveyor.deadline
    out,        \* pipe -> "absent", "busy" or "ready" (in grid_dist.pipes)
    inbox,      \* pipe -> the response its fair queue item offers, or 0
    sock,       \* grid_sock.state
    asserted,   \* the assertion that aborted the process, or "none"
    asked,      \* environment: surveys the peer on a pipe may respond to
    sent,       \* ghost: the latest survey passed to the distributor
    result      \* ghost: what the latest grid_recv returned

SurveyVars == <<state, surveyid, tmr, timedout, deadline, out, inbox, sock,
               asserted, asked, sent, result>>

States == {"IDLE", "PASSIVE", "ACTIVE", "CANCELLING", "STOPPING_TIMER", "STOPPING"}
Ids == 1..MaxId

(* A message in a fair queue item: the survey it answers, or one that is   *)
(* too short for a header.                                                 *)
Malformed == MaxId + 1

SurveyTypeOK ==
    /\ state \in States
    /\ surveyid \in 0..MaxId
    /\ tmr \in Timers
    /\ timedout \in BOOLEAN
    /\ deadline \in Deadlines
    /\ out \in [Respondents -> {"absent", "busy", "ready"}]
    /\ inbox \in [Respondents -> 0..Malformed]
    /\ sock \in {"ACTIVE", "STOPPING_EPS", "STOPPING", "FINI"}
    /\ asserted \in {"none", "bad_action", "timer_start"}
    /\ asked \in [Respondents -> SUBSET Ids]
    /\ sent \in 0..MaxId
    /\ result \in [code : {"none", "ok", "EAGAIN", "EFSM", "ETIMEDOUT"}, of : 0..MaxId]

(* What grid_recv returns, and the survey a response belongs to.           *)
Returned(code, n) == [code |-> code, of |-> n]

(* grid_surveyor_init, with the start of the state machine.                *)
SurveyInit ==
    /\ state = "PASSIVE"
    /\ surveyid = 0
    /\ tmr = IdleTimer
    /\ timedout = FALSE
    /\ deadline = GRID_SURVEYOR_DEFAULT_DEADLINE
    /\ out = [p \in Respondents |-> "absent"]
    /\ inbox = [p \in Respondents |-> 0]
    /\ sock = "ACTIVE"
    /\ asserted = "none"
    /\ asked = [p \in Respondents |-> {}]
    /\ sent = 0
    /\ result = Returned("none", 0)

-----------------------------------------------------------------------------
NotAborted == asserted = "none"

(* grid_surveyor_inprogress *)
InProgress == state \in {"ACTIVE", "CANCELLING", "STOPPING_TIMER"}

AbortSurvey(why) == asserted' = why

(* grid_xsurveyor_send is grid_dist_send: a copy goes to every writable    *)
(* pipe and the busy ones leave the distributor; with none the survey is   *)
(* dropped.                                                                *)
DistSurvey(n) ==
    \E busy \in SUBSET {p \in Respondents : out[p] = "ready"} :
        /\ out' = [p \in Respondents |-> IF p \in busy THEN "busy" ELSE out[p]]
        /\ asked' = [p \in Respondents |-> IF out[p] = "ready" THEN asked[p] \cup {n}
                                     ELSE asked[p]]

(* grid_surveyor_resend of survey n and grid_timer_start, with the timer t *)
(* as the worker left it.                                                  *)
StartSurvey(n, t) ==
    /\ DistSurvey(n)
    /\ sent' = n
    /\ IF StartAllowed(t, deadline)
       THEN tmr' = Started(t) /\ state' = "ACTIVE" /\ UNCHANGED asserted
       ELSE tmr' = t /\ AbortSurvey("timer_start") /\ UNCHANGED state

-----------------------------------------------------------------------------
(* Calls of the user.                                                      *)

(* ACTION_CANCEL: in CANCELLING the survey to be sent has been replaced.   *)
SurveyorCancel ==
    /\ state' = "CANCELLING"
    /\ tmr' = IF state = "ACTIVE" THEN StopRequested(tmr) ELSE tmr
    /\ UNCHANGED <<out, asked, sent, asserted>>

(* grid_surveyor_send.  The raw socket is always ready for sending, so the *)
(* check for it never fails.                                               *)
Send ==
    /\ NotAborted /\ sock = "ACTIVE" /\ surveyid < MaxId
    /\ surveyid' = surveyid + 1
    /\ IF InProgress THEN SurveyorCancel ELSE StartSurvey(surveyid + 1, tmr)
    /\ UNCHANGED <<timedout, deadline, inbox, sock, result>>

(* Mutant: any response will do.                                           *)
StaleNone(p) == FALSE
Stale(p) == inbox[p] \in Ids \ {surveyid}

(* grid_surveyor_recv with a survey in progress: stale responses are       *)
(* dropped until a current one is found, the fair queue is empty or        *)
(* grid_xsurveyor_recv meets a malformed message.                          *)
RecvResponse ==
    \E dropped \in SUBSET {p \in Respondents : Stale(p)},
       last \in {p \in Respondents : inbox[p] # 0} :
        /\ ~Stale(last)
        /\ inbox' = [p \in Respondents |->
                       IF p \in dropped \cup {last} THEN 0 ELSE inbox[p]]
        /\ result' = IF inbox[last] = Malformed THEN Returned("EAGAIN", 0)
                     ELSE Returned("ok", inbox[last])
RecvNothing ==
    /\ \A p \in Respondents : inbox[p] # 0 => Stale(p)
    /\ inbox' = [p \in Respondents |-> 0]
    /\ result' = Returned("EAGAIN", 0)

(* ... and without one.                                                    *)
RecvNoSurvey ==
    /\ result' = Returned(IF timedout THEN "ETIMEDOUT" ELSE "EFSM", 0)
    /\ timedout' = FALSE
    /\ UNCHANGED inbox

Recv ==
    /\ NotAborted /\ sock = "ACTIVE"
    /\ IF InProgress THEN (RecvResponse \/ RecvNothing) /\ UNCHANGED timedout
       ELSE RecvNoSurvey
    /\ UNCHANGED <<state, surveyid, tmr, deadline, out, sock, asserted, asked, sent>>

(* grid_surveyor_setopt; a negative deadline would fail the assertion of   *)
(* grid_timer_start.                                                       *)
SetDeadline ==
    /\ NotAborted /\ sock = "ACTIVE"
    /\ deadline' \in Deadlines
    /\ UNCHANGED <<state, surveyid, tmr, timedout, out, inbox, sock, asserted,
                   asked, sent, result>>

-----------------------------------------------------------------------------
(* Pipes: grid_xsurveyor_add with the first OUT, _out, _in and _rm.        *)
PipeOut(p) ==
    /\ NotAborted /\ sock = "ACTIVE" /\ out[p] # "ready"
    /\ out' = [out EXCEPT ![p] = "ready"]
    /\ UNCHANGED <<state, surveyid, tmr, timedout, deadline, inbox, sock, asserted,
                   asked, sent, result>>

PipeIn(p) ==
    /\ NotAborted /\ sock = "ACTIVE" /\ out[p] # "absent" /\ inbox[p] = 0
    /\ \E n \in asked[p] \cup {Malformed} : inbox' = [inbox EXCEPT ![p] = n]
    /\ UNCHANGED <<state, surveyid, tmr, timedout, deadline, out, sock, asserted,
                   asked, sent, result>>

PipeRm(p) ==
    /\ NotAborted /\ sock \in {"ACTIVE", "STOPPING_EPS"} /\ out[p] # "absent"
    /\ out' = [out EXCEPT ![p] = "absent"]
    /\ inbox' = [inbox EXCEPT ![p] = 0]
    /\ asked' = [asked EXCEPT ![p] = {}]
    /\ UNCHANGED <<state, surveyid, tmr, timedout, deadline, sock, asserted, sent, result>>

-----------------------------------------------------------------------------
(* The worker thread.                                                      *)
StartTask ==
    /\ NotAborted /\ StartTaskDue(tmr)
    /\ tmr' = AfterStartTask(tmr)
    /\ UNCHANGED <<state, surveyid, timedout, deadline, out, inbox, sock, asserted,
                   asked, sent, result>>

Expire ==
    /\ NotAborted /\ tmr.wtimer = "armed"
    /\ tmr' = Expired(tmr)
    /\ UNCHANGED <<state, surveyid, timedout, deadline, out, inbox, sock, asserted,
                   asked, sent, result>>

(* TIMEOUT is expected in ACTIVE only.                                     *)
Fire ==
    /\ NotAborted /\ tmr.wtimer = "fired"
    /\ LET t == AfterFired(tmr) IN
       IF ~RaisesTimeout(tmr) \/ state = "STOPPING"
       THEN tmr' = t /\ UNCHANGED <<state, timedout, asserted>>
       ELSE IF state = "ACTIVE"
       THEN /\ tmr' = StopRequested(t)
            /\ state' = "STOPPING_TIMER"
            /\ timedout' = TRUE
            /\ UNCHANGED asserted
       ELSE AbortSurvey("bad_action") /\ tmr' = t /\ UNCHANGED <<state, timedout>>
    /\ UNCHANGED <<surveyid, deadline, out, inbox, sock, asked, sent, result>>

(* Mutant: the survey that replaced the last one is forgotten.             *)
StoppedForgets  == /\ state = "CANCELLING"
                   /\ state' = "PASSIVE" /\ tmr' = AfterStopTask(tmr)
                   /\ UNCHANGED <<out, asked, sent, asserted, sock>>
(* STOPPED of the timer is expected wherever it is being stopped.          *)
StoppedResends  == /\ state = "CANCELLING"
                   /\ StartSurvey(surveyid, AfterStopTask(tmr))
                   /\ UNCHANGED sock
StoppedPassive  == /\ state = "STOPPING_TIMER"
                   /\ state' = "PASSIVE" /\ tmr' = AfterStopTask(tmr)
                   /\ UNCHANGED <<out, asked, sent, asserted, sock>>
StoppedCloses   == /\ state = "STOPPING"
                   /\ state' = "IDLE" /\ sock' = "FINI"
                   /\ tmr' = AfterStopTask(tmr)
                   /\ UNCHANGED <<out, asked, sent, asserted>>
StoppedBad      == /\ state \in {"IDLE", "PASSIVE", "ACTIVE"}
                   /\ AbortSurvey("bad_action") /\ tmr' = AfterStopTask(tmr)
                   /\ UNCHANGED <<state, out, asked, sent, sock>>

StopTask ==
    /\ NotAborted /\ StopTaskDue(tmr)
    /\ StoppedResends \/ StoppedPassive \/ StoppedCloses \/ StoppedBad
    /\ UNCHANGED <<surveyid, timedout, deadline, inbox, result>>

-----------------------------------------------------------------------------
(* Closing: grid_surveyor_stop once the last endpoint is gone.             *)

(* Mutant: STOPPED is waited for although the timer is idle.               *)
SurveyorShutdownWaits ==
    /\ tmr' = StopRequested(tmr)
    /\ state' = "STOPPING" /\ sock' = "STOPPING"

(* grid_surveyor_shutdown of the action STOP *)
SurveyorShutdown ==
    /\ tmr' = StopRequested(tmr)
    /\ IF TimerIsIdle(tmr) THEN state' = "IDLE" /\ sock' = "FINI"
                           ELSE state' = "STOPPING" /\ sock' = "STOPPING"

AllGone == \A p \in Respondents : out[p] = "absent"

Close ==
    /\ NotAborted /\ sock = "ACTIVE"
    /\ \/ sock' = "STOPPING_EPS" /\ UNCHANGED <<state, tmr>>
       \/ AllGone /\ SurveyorShutdown
    /\ UNCHANGED <<surveyid, timedout, deadline, out, inbox, asserted, asked, sent,
                   result>>

EpsStopped ==
    /\ NotAborted /\ sock = "STOPPING_EPS" /\ AllGone
    /\ SurveyorShutdown
    /\ UNCHANGED <<surveyid, timedout, deadline, out, inbox, asserted, asked, sent,
                   result>>

-----------------------------------------------------------------------------
SurveyNext ==
    \/ Send \/ Recv \/ SetDeadline
    \/ \E p \in Respondents : PipeOut(p) \/ PipeIn(p) \/ PipeRm(p)
    \/ StartTask \/ Expire \/ Fire \/ StopTask
    \/ Close \/ EpsStopped

(* The worker executes its tasks, time passes, and endpoints asked to stop *)
(* do.  Users and respondents need not act.                                *)
Fairness ==
    /\ WF_SurveyVars(StartTask) /\ WF_SurveyVars(StopTask)
    /\ WF_SurveyVars(Expire) /\ WF_SurveyVars(Fire)
    /\ WF_SurveyVars(EpsStopped)
    /\ \A p \in Respondents : WF_SurveyVars(sock = "STOPPING_EPS" /\ PipeRm(p))

SurveySafety == SurveyInit /\ [][SurveyNext]_SurveyVars
SurveySpec == SurveySafety /\ Fairness

-----------------------------------------------------------------------------
(* Properties.                                                             *)

(* No event meets a state without a case for it, and the deadline timer is *)
(* started only when it is idle (surveyor.c:387-490, timer.c:79): surveys  *)
(* cancelled while their timer stops, expires or is about to.              *)
SurveyNoAbort == asserted = "none"

(* The deadline timer runs exactly while a survey is, and is being stopped *)
(* exactly in the states that wait for STOPPED; the socket is destroyed    *)
(* with the timer idle.  A survey whose deadline runs or has passed is the *)
(* one the user submitted last, and it was sent, so that a survey held     *)
(* back in CANCELLING (surveyor.c:428) is never lost.                      *)
SurveyConsistent ==
    /\ SurveyTypeOK /\ SurveyNoAbort
    /\ TimerConsistent(tmr)
    /\ tmr.state = "active"   <=> state = "ACTIVE"
    /\ tmr.state = "stopping" <=> state \in {"CANCELLING", "STOPPING_TIMER", "STOPPING"}
    /\ state = "STOPPING" <=> sock = "STOPPING"
    /\ state = "IDLE" <=> sock = "FINI"
    /\ state \in {"ACTIVE", "STOPPING_TIMER", "PASSIVE"} => sent = surveyid
    /\ state = "CANCELLING" => surveyid \in Ids

(* grid_close gets through the protocol whatever the survey was doing.     *)
CloseCompletes == sock \in {"STOPPING_EPS", "STOPPING"} ~> sock = "FINI"

(* The socket keeps the promise of SurveyClient.                           *)
Phase == IF sock # "ACTIVE" THEN "closed"
         ELSE IF state \in {"ACTIVE", "CANCELLING"} THEN "open"
         ELSE IF state = "STOPPING_TIMER" THEN "expired" ELSE "none"

Client == INSTANCE SurveyClient WITH phase <- Phase, cur <- surveyid,
                                       due <- timedout /\ sock = "ACTIVE"

ImplementsClient == Client!Spec
=============================================================================
