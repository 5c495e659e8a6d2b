----------------------------- MODULE Scheduler -----------------------------
(***************************************************************************)
(* What a load balancer or a fair queue promises: a message goes through a *)
(* pipe that is ready for it and has the highest priority of those that    *)
(* are.                                                                    *)
(***************************************************************************)
EXTENDS Naturals

CONSTANTS Pipes, Slots

VARIABLES
    ready,      \* the pipes a message can go through
    prio,       \* pipe -> its priority, 0 when it is not attached
    served      \* the pipe the latest message went through

vars == <<ready, prio, served>>

Init == /\ ready = {}
        /\ prio = [p \in Pipes |-> 0]
        /\ served \notin Pipes

Attach(p, k) ==
    /\ prio[p] = 0
    /\ prio' = [prio EXCEPT ![p] = k]
    /\ ready' \in {ready, ready \cup {p}}
    /\ UNCHANGED served

Detach(p) ==
    /\ prio[p] # 0
    /\ prio' = [prio EXCEPT ![p] = 0]
    /\ ready' = ready \ {p}
    /\ UNCHANGED served

GetReady(p) ==
    /\ prio[p] # 0
    /\ ready' = ready \cup {p}
    /\ UNCHANGED <<prio, served>>

Serve(p) ==
    /\ p \in ready
    /\ \A q \in ready : prio[p] <= prio[q]
    /\ served' = p
    /\ ready' \in {ready, ready \ {p}}
    /\ UNCHANGED prio

Next == \E p \in Pipes :
            \/ \E k \in 1..Slots : Attach(p, k)
            \/ Detach(p) \/ GetReady(p) \/ Serve(p)

Spec == Init /\ [][Next]_vars
=============================================================================
