---------------------------- MODULE ReplyService ----------------------------
(***************************************************************************)
(* What a REP or RESPONDENT socket promises: a reply goes back over the    *)
(* very connection its request came by, and is dropped when the connection *)
(* is gone or cannot take it, never sent to somebody else.                 *)
(***************************************************************************)
EXTENDS Sequences

CONSTANTS Peers,    \* connections, each of them used once
          Requests

VARIABLES
    ready,      \* connections that can take a reply
    held,       \* requests received and not replied to: [peer, req]
    wire        \* connection -> the requests replied to over it

vars == <<ready, held, wire>>

Init == ready = {} /\ held = {} /\ wire = [p \in Peers |-> << >>]

Ready(p) == ready' \in {ready \cup {p}, ready \ {p}} /\ UNCHANGED <<held, wire>>

Receive(p, r) ==
    /\ held' \in {{[peer |-> p, req |-> r]}, held \cup {[peer |-> p, req |-> r]}}
    /\ UNCHANGED <<ready, wire>>

Forget == held' \in SUBSET held /\ UNCHANGED <<ready, wire>>

Reply(h) ==
    /\ h \in held
    /\ held' \in {held, held \ {h}}
    /\ IF h.peer \in ready
       THEN /\ wire' = [wire EXCEPT ![h.peer] = Append(@, h.req)]
            /\ ready' \in {ready, ready \ {h.peer}}
       ELSE UNCHANGED <<ready, wire>>

Next == \/ Forget
        \/ \E p \in Peers : Ready(p) \/ \E r \in Requests : Receive(p, r)
        \/ \E h \in held : Reply(h)

Spec == Init /\ [][Next]_vars
=============================================================================
