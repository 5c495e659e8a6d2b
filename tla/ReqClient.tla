----------------------------- MODULE ReqClient -----------------------------
(***************************************************************************)
(* What a REQ socket promises its user: requests are submitted one at a    *)
(* time, a new one replaces the old one, a reply becomes available only    *)
(* for the current request and only once it has reached a peer, and it is  *)
(* handed out once.  Until then a message that arrives later may take its  *)
(* place, and the user then gets that one or nothing.  Pipes, resending    *)
(* and timers do not exist here.                                           *)
(***************************************************************************)
EXTENDS Naturals

VARIABLES
    phase,      \* "none", "waiting", "answered" or "closed"
    cur,        \* number of the current request; 0 before the first
    lost,       \* another message took the place of the available reply
    reached,    \* the current request was passed to a peer
    taken       \* requests whose reply was handed to the user

vars == <<phase, cur, lost, reached, taken>>

Init == /\ phase = "none" /\ cur = 0
        /\ lost = FALSE /\ reached = FALSE /\ taken = {}

Submit == /\ phase # "closed"
          /\ phase' = "waiting"
          /\ cur' = cur + 1
          /\ lost' = FALSE
          /\ reached' \in BOOLEAN
          /\ UNCHANGED taken

(* While the socket is closing the last request may still be passed on.    *)
Transmit == /\ phase \in {"waiting", "closed"}
            /\ reached' = TRUE
            /\ UNCHANGED <<phase, cur, lost, taken>>

Answer == /\ phase = "waiting" /\ reached
          /\ phase' = "answered"
          /\ lost' = FALSE
          /\ UNCHANGED <<cur, reached, taken>>

(* A later message is stored where the reply is: one more reply to the     *)
(* current request, or anything else.                                      *)
Replace == /\ phase = "answered"
           /\ lost' \in BOOLEAN
           /\ UNCHANGED <<phase, cur, reached, taken>>

Take == /\ phase = "answered"
        /\ phase' = "none"
        /\ lost' = FALSE
        /\ taken' = IF lost THEN taken ELSE taken \cup {cur}
        /\ UNCHANGED <<cur, reached>>

Close == /\ phase # "closed"
         /\ phase' = "closed"
         /\ lost' = FALSE
         /\ UNCHANGED <<cur, reached, taken>>

Next == Submit \/ Transmit \/ Answer \/ Replace \/ Take \/ Close

Spec == Init /\ [][Next]_vars
=============================================================================
