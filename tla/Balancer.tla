------------------------------ MODULE Balancer ------------------------------
(***************************************************************************)
(* Pipes attached to a load balancer (lb.c) or to a fair queue (fq.c): the *)
(* prioritised list together with the outstate or instate of each pipe     *)
(* (src/src/core/pipe.c).  The two directions mirror each other, so one    *)
(* module stands for both:                                                 *)
(*                                                                         *)
(*                  lb.c                         fq.c                      *)
(*   Use            grid_lb_send                 grid_fq_recv              *)
(*   "async"        a message is being sent      no message has arrived    *)
(*   Completed      grid_pipebase_sent, OUT      grid_pipebase_received, IN*)
(*   synchronously  SENT inside the call         RECEIVED inside the call  *)
(*                                                                         *)
(* An OUT or IN raised by a pipe is handled in the same context step.      *)
(* served and owed are history variables.                                  *)
(***************************************************************************)
EXTENDS PrioList

CONSTANT StartsReady    \* TRUE for lb: a new pipe can be sent to at once

ASSUME StartsReadyAssumption == StartsReady \in BOOLEAN

VARIABLES
    list,       \* grid_lb.priolist or grid_fq.priolist
    prio,       \* pipe -> grid_priolist_data.priority, 0 when not attached
    pstate,     \* pipe -> grid_pipebase.outstate or instate
    aborted,    \* an assertion that ended the process, or None
    served,     \* the pipe the latest message went through, or None
    owed        \* pipe -> those of its slot to be served before it again

balancerVars == <<list, prio, pstate, aborted, served, owed>>

BalancerTypeOK ==
    /\ list \in [pipes : [Priorities -> Seq(Pipes)],
                cursor : [Priorities -> Pipes \cup {None}],
                current : Priorities \cup {-1}]
    /\ prio \in [Pipes -> 0..Slots]
    /\ pstate \in [Pipes -> {"deactivated", "idle", "async"}]
    /\ aborted \in {None, "insert", "outstate", "getpipe"}
    /\ served \in Pipes \cup {None}
    /\ owed \in [Pipes -> SUBSET Pipes]

BalancerInit ==
    /\ list = EmptyList
    /\ prio = [p \in Pipes |-> 0]
    /\ pstate = [p \in Pipes |-> "deactivated"]
    /\ aborted = None
    /\ served = None
    /\ owed = [p \in Pipes |-> {}]

Alive == aborted = None

ReadyPipes == {p \in Pipes : pstate[p] = "idle"}

(* No pipe waits for p any more, and p waits for none.                     *)
Forgiven(p) == [q \in Pipes |-> IF q = p THEN {} ELSE owed[q] \ {p}]

(* grid_lb_out or grid_fq_in of pipe p with priority k; the list asserts   *)
(* that the pipe is not in it yet.                                         *)
Activate(p, k) ==
    IF \E s \in Priorities : Contains(list.pipes[s], p)
    THEN aborted' = "insert" /\ UNCHANGED list
    ELSE list' = PrioListActivate(list, p, k) /\ UNCHANGED aborted

(* grid_pipebase_start: the protocol adds the pipe with the priority of    *)
(* its endpoint.                                                           *)
Add(p, k) ==
    /\ Alive /\ prio[p] = 0
    /\ prio' = [prio EXCEPT ![p] = k]
    /\ IF StartsReady
       THEN pstate' = [pstate EXCEPT ![p] = "idle"] /\ Activate(p, k)
       ELSE pstate' = [pstate EXCEPT ![p] = "async"] /\ UNCHANGED <<list, aborted>>
    /\ UNCHANGED <<served, owed>>

(* The transport reports the end of a transfer (IN or OUT is raised).      *)
Completed(p) ==
    /\ Alive /\ pstate[p] = "async"
    /\ pstate' = [pstate EXCEPT ![p] = "idle"]
    /\ Activate(p, prio[p])
    /\ UNCHANGED <<prio, served, owed>>

(* grid_lb_send or grid_fq_recv; with no active pipe it returns EAGAIN.    *)
(* The transport completes the transfer inside the call or releases the    *)
(* pipe.                                                                   *)
Use(release) ==
    /\ Alive /\ PrioListIsActive(list)
    /\ LET p == PrioListGetPipe(list) IN
       IF p = None \/ pstate[p] # "idle"
       THEN /\ aborted' = IF p = None THEN "getpipe" ELSE "outstate"
            /\ UNCHANGED <<list, pstate, served, owed>>
       ELSE /\ list' = PrioListAdvance(list, release)
            /\ pstate' = [pstate EXCEPT ![p] = IF release THEN "async" ELSE "idle"]
            /\ served' = p
            /\ owed' = IF release THEN Forgiven(p)
                       ELSE [Forgiven(p) EXCEPT ![p] =
                               {q \in ReadyPipes : q # p /\ prio[q] = prio[p]}]
            /\ UNCHANGED aborted
    /\ UNCHANGED prio

(* grid_pipebase_stop: the protocol removes the pipe.                      *)
Rm(p) ==
    /\ Alive /\ prio[p] # 0
    /\ list' = PrioListRm(list, p, prio[p])
    /\ prio' = [prio EXCEPT ![p] = 0]
    /\ pstate' = [pstate EXCEPT ![p] = "deactivated"]
    /\ owed' = Forgiven(p)
    /\ UNCHANGED <<aborted, served>>

Transfer == \E release \in BOOLEAN : Use(release)

BalancerNext ==
    \/ \E p \in Pipes : \/ \E k \in Priorities : Add(p, k)
                        \/ Completed(p) \/ Rm(p)
    \/ Transfer

BalancerSpec == BalancerInit /\ [][BalancerNext]_balancerVars

-----------------------------------------------------------------------------
(* Properties.                                                             *)

(* No pipe is inserted twice, none that is busy or removed is picked, and  *)
(* the cursor of the current slot always points to a pipe (list.c:75,      *)
(* pipe.c:186, pipe.c:205, priolist.c:146).                                *)
NeverAborts == aborted = None

(* "The index of the slot holding the current pipe.  It should be the      *)
(* highest-priority non-empty slot available." (priolist.h:62)  The cursor *)
(* of a slot is one of its pipes, and the slots hold exactly the pipes     *)
(* that are ready, each once and under its own priority.                   *)
ListConsistent ==
    /\ list.current = NonEmptyFrom(list.pipes, 1)
    /\ \A s \in Priorities :
          /\ IF list.pipes[s] = << >> THEN list.cursor[s] = None
             ELSE Contains(list.pipes[s], list.cursor[s])
          /\ IsInjective(list.pipes[s])
          /\ ToSet(list.pipes[s]) = {p \in ReadyPipes : prio[p] = s}

(* Round robin among the pipes that keep their place: a pipe that stayed   *)
(* ready is not used again before every pipe of its priority that was      *)
(* ready all the time had its turn, whatever was added or removed.         *)
RoundRobin ==
    LET p == PrioListGetPipe(list)
    IN  PrioListIsActive(list) => p \in Pipes /\ owed[p] = {}

(* The list is sound in all these ways. *)
Consistent == BalancerTypeOK /\ NeverAborts /\ ListConsistent /\ RoundRobin

Policy == INSTANCE Scheduler WITH ready <- ReadyPipes

(* A message goes through the most urgent pipe that is ready, whatever was *)
(* added, released, completed and removed before.                          *)
ImplementsScheduler == Policy!Spec
=============================================================================
