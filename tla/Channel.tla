------------------------------ MODULE Channel ------------------------------
(***************************************************************************)
(* What a connection promises in each direction: messages are received in  *)
(* the order they were sent, each once and none invented; at most Capacity *)
(* are on their way; a broken connection loses what it held, and nothing   *)
(* of it is delivered later.                                               *)
(***************************************************************************)
EXTENDS Naturals, Sequences

CONSTANTS Ends, Capacity

VARIABLES
    way,        \* end -> messages on their way to it, oldest first
    counted,    \* end -> messages sent towards it so far
    latest      \* end -> the message its user received last

vars == <<way, counted, latest>>

Init == /\ way = [e \in Ends |-> << >>]
        /\ counted = [e \in Ends |-> 0]
        /\ latest = [e \in Ends |-> 0]

SendTo(e) ==
    /\ Len(way[e]) < Capacity
    /\ counted' = [counted EXCEPT ![e] = @ + 1]
    /\ way' = [way EXCEPT ![e] = Append(@, counted[e] + 1)]
    /\ UNCHANGED latest

ReceiveAt(e) ==
    /\ way[e] # << >>
    /\ way' = [way EXCEPT ![e] = Tail(@)]
    /\ latest' = [latest EXCEPT ![e] = Head(way[e])]
    /\ UNCHANGED counted

(* What was on its way to some of the ends is lost.                        *)
Break ==
    /\ \E broken \in SUBSET Ends :
          way' = [e \in Ends |-> IF e \in broken THEN << >> ELSE way[e]]
    /\ UNCHANGED <<counted, latest>>

Next == Break \/ \E e \in Ends : SendTo(e) \/ ReceiveAt(e)

Spec == Init /\ [][Next]_vars
=============================================================================
