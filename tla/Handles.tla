------------------------------ MODULE Handles ------------------------------
(***************************************************************************)
(* What the socket table promises to the threads that use descriptors: a   *)
(* call that was admitted finds its socket until it returns; once closing  *)
(* has begun no call is admitted; a descriptor is given out again only     *)
(* after every call on the closed socket has returned.                     *)
(***************************************************************************)
CONSTANTS Threads, Descriptors

VARIABLES
    phase,      \* descriptor -> "free", "open" or "closing"
    users       \* descriptor -> threads inside a call on it

vars == <<phase, users>>

Init == /\ phase = [d \in Descriptors |-> "free"]
        /\ users = [d \in Descriptors |-> {}]

Move(d, from, to) == /\ phase[d] = from
                     /\ phase' = [phase EXCEPT ![d] = to]
                     /\ UNCHANGED users

Open(d)       == Move(d, "free", "open")
StartClose(d) == Move(d, "open", "closing")
Finish(d)     == users[d] = {} /\ Move(d, "closing", "free")

Admit(t, d) == /\ phase[d] = "open"
               /\ \A e \in Descriptors : t \notin users[e]
               /\ users' = [users EXCEPT ![d] = @ \cup {t}]
               /\ UNCHANGED phase

Return(t, d) == /\ t \in users[d]
                /\ users' = [users EXCEPT ![d] = @ \ {t}]
                /\ UNCHANGED phase

Next == \E d \in Descriptors :
           \/ Open(d) \/ StartClose(d) \/ Finish(d)
           \/ \E t \in Threads : Admit(t, d) \/ Return(t, d)

Spec == Init /\ [][Next]_vars
=============================================================================
