------------------------------ MODULE Replier ------------------------------
(***************************************************************************)
(* The sockets that answer: REP (src/src/protocols/reqrep/rep.c, xrep.c)   *)
(* and RESPONDENT (src/src/protocols/survey/respondent.c, xrespondent.c),  *)
(* each on its raw socket, or the raw socket alone as a device uses it.    *)
(* The two protocols repeat each other statement by statement.             *)
(*                                                                         *)
(* A message is a header, the words between the pipe key and the word with *)
(* its top bit set, and a body; what a header tells apart is the request   *)
(* it came with.  Which pipe is read first is left open (see Balancer).    *)
(***************************************************************************)
EXTENDS Hash, SequencesExt

CONSTANTS
    Pipes,      \* memory of pipe objects
    Keys,       \* size of the key space (2^31 in the code)
    MaxConn,    \* bound: connections made
    MaxReplies, \* bound: replies sent
    MaxHeld,    \* bound: headers a device holds
    Requests    \* requests the peers make

ASSUME BoundsAssumption == /\ Keys \in Nat /\ MaxConn \in Nat
                           /\ MaxReplies \in Nat /\ MaxHeld \in Nat
                           /\ MaxConn <= Keys
ASSUME RequestsAssumption == Requests \subseteq Nat \ {0}
ASSUME HashKeyAssumption == \A k \in 0..(Keys - 1) : HashKey(k) \in Nat   \* uint32_t

VARIABLES
    proto,      \* the socket type
    nextKey,    \* grid_xrep.next_key, in the 31 bits that are used
    outpipes,   \* grid_xrep.outpipes
    key,        \* pipe -> grid_xrep_data.outitem.key, or -1
    outFlag,    \* pipe -> GRID_XREP_OUT
    outIdle,    \* pipe -> grid_pipebase.outstate is IDLE
    offered,    \* pipe -> the message its fair queue item offers, 0 for none
    backtrace,  \* headers kept: at most one (grid_rep.backtrace), or a device's
    failed,     \* the assertion that ended the process, or "none"
    conn,       \* ghost: pipe -> the number of its connection, or 0
    made,       \* ghost: connections made
    wire        \* ghost: connection -> the requests replied to over it

vars == <<proto, nextKey, outpipes, key, outFlag, outIdle, offered, backtrace,
          failed, conn, made, wire>>

Malformed == 0 - 1
Cooked == {"REP", "RESPONDENT"}

(* Sent by the user of a raw socket as received, by the others from the    *)
(* stored backtrace: the key of the pipe, then the header of the request.  *)
Header(k, r, c) == [key |-> k, req |-> r, from |-> c]   \* from: ghost

Init ==
    /\ proto \in Cooked \cup {"XREP", "XRESPONDENT"}
    /\ nextKey \in 0..(Keys - 1)        \* random
    /\ outpipes = EmptyHash
    /\ key = [p \in Pipes |-> -1]
    /\ outFlag = [p \in Pipes |-> FALSE]
    /\ outIdle = [p \in Pipes |-> FALSE]
    /\ offered = [p \in Pipes |-> 0]
    /\ backtrace = {}
    /\ failed = "none"
    /\ conn = [p \in Pipes |-> 0]
    /\ made = 0
    /\ wire = [c \in 1..MaxConn |-> << >>]

Running == failed = "none"

-----------------------------------------------------------------------------
(* Pipes.                                                                  *)

(* grid_xrep_add; grid_pipebase_start then raises OUT, which grid_xrep_out *)
(* turns into the flag.                                                    *)
XRepAdd(p) ==
    IF HashHas(outpipes, nextKey)
    THEN failed' = "hash_insert" /\ UNCHANGED <<nextKey, outpipes, key, outFlag, outIdle>>
    ELSE /\ outpipes' = HashInsert(outpipes, nextKey, p)
         /\ key' = [key EXCEPT ![p] = nextKey]
         /\ nextKey' = (nextKey + 1) % Keys
         /\ outFlag' = [outFlag EXCEPT ![p] = TRUE]
         /\ outIdle' = [outIdle EXCEPT ![p] = TRUE]
         /\ UNCHANGED failed
XRespondentAdd(p) == XRepAdd(p)

Add(p) ==
    /\ Running /\ key[p] = -1 /\ made < MaxConn
    /\ IF proto \in {"REP", "XREP"} THEN XRepAdd(p) ELSE XRespondentAdd(p)
    /\ made' = made + 1
    /\ conn' = [conn EXCEPT ![p] = made + 1]
    /\ UNCHANGED <<proto, offered, backtrace, wire>>

(* Mutant: the pipe stays in the hash.                                     *)
XRepRmKeeps(p) ==
    /\ outFlag' = [outFlag EXCEPT ![p] = FALSE]
    /\ UNCHANGED outpipes

(* grid_xrep_rm *)
XRepRm(p) ==
    /\ outFlag' = [outFlag EXCEPT ![p] = FALSE]
    /\ outpipes' = HashErase(outpipes, key[p])
XRespondentRm(p) == XRepRm(p)

Rm(p) ==
    /\ Running /\ key[p] # -1
    /\ IF proto \in {"REP", "XREP"} THEN XRepRm(p) ELSE XRespondentRm(p)
    /\ key' = [key EXCEPT ![p] = -1]
    /\ outIdle' = [outIdle EXCEPT ![p] = FALSE]
    /\ offered' = [offered EXCEPT ![p] = 0]
    /\ conn' = [conn EXCEPT ![p] = 0]
    /\ UNCHANGED <<proto, nextKey, backtrace, failed, made, wire>>

(* grid_xrep_out: the transport took the last reply.                       *)
XRepOut(p) == outFlag' = [outFlag EXCEPT ![p] = TRUE]
XRespondentOut(p) == XRepOut(p)

Out(p) ==
    /\ Running /\ key[p] # -1 /\ ~outIdle[p]
    /\ outIdle' = [outIdle EXCEPT ![p] = TRUE]
    /\ IF proto \in {"REP", "XREP"} THEN XRepOut(p) ELSE XRespondentOut(p)
    /\ UNCHANGED <<proto, nextKey, outpipes, key, offered, backtrace, failed, conn,
                   made, wire>>

(* grid_xrep_in: a request, or a message without the bottom of the stack.  *)
XRepIn(p, r) == offered' = [offered EXCEPT ![p] = r]
XRespondentIn(p, r) == XRepIn(p, r)

In(p) ==
    /\ Running /\ key[p] # -1 /\ offered[p] = 0
    /\ \E r \in Requests \cup {Malformed} :
           IF proto \in {"REP", "XREP"} THEN XRepIn(p, r) ELSE XRespondentIn(p, r)
    /\ UNCHANGED <<proto, nextKey, outpipes, key, outFlag, outIdle, backtrace, failed,
                   conn, made, wire>>

-----------------------------------------------------------------------------
(* Calls of the user.                                                      *)

Released(p, release) == [outFlag EXCEPT ![p] = ~release]

(* The pipe found under the key of the header, if it can be sent to.       *)
Destination(h) ==
    IF ~HashHas(outpipes, h.key) THEN {}
    ELSE {p \in {HashGet(outpipes, h.key)} : outFlag[p]}

(* grid_xrep_send: without a destination the message is dropped.           *)
XRepSend(h) ==
    IF Destination(h) = {}
    THEN UNCHANGED <<outFlag, outIdle, failed, wire>>
    ELSE \E p \in Destination(h), release \in BOOLEAN :
         IF ~outIdle[p]
         THEN failed' = "pipe_send" /\ UNCHANGED <<outFlag, outIdle, wire>>
         ELSE /\ outIdle' = [outIdle EXCEPT ![p] = ~release]
              /\ outFlag' = Released(p, release)
              /\ wire' = [wire EXCEPT ![conn[p]] = Append(@, h.req)]
              /\ UNCHANGED failed
XRespondentSend(h) == XRepSend(h)

(* grid_rep_send: the backtrace is used up; without one it returns EFSM.   *)
RepSend(h)        == XRepSend(h) /\ backtrace' = {}
RespondentSend(h) == XRespondentSend(h) /\ backtrace' = {}

Replies == FoldFunction(LAMBDA seq, n : Len(seq) + n, 0, wire)

Send ==
    /\ Running /\ Replies < MaxReplies
    /\ \E h \in backtrace :
          \/ proto = "REP"         /\ RepSend(h)
          \/ proto = "RESPONDENT"  /\ RespondentSend(h)
          \/ proto = "XREP"        /\ XRepSend(h) /\ UNCHANGED backtrace
          \/ proto = "XRESPONDENT" /\ XRespondentSend(h) /\ UNCHANGED backtrace
    /\ UNCHANGED <<proto, nextKey, outpipes, key, offered, conn, made>>

(* grid_xrep_recv of the message offered by p: the header found in it is   *)
(* prepended by the key of the pipe; a malformed message is dropped and    *)
(* EAGAIN returned, whatever waits behind it.                              *)
XRepRecv(p) ==
    /\ offered[p] # 0
    /\ offered' = [offered EXCEPT ![p] = 0]
XRespondentRecv(p) == XRepRecv(p)

Received(p) == IF offered[p] = Malformed THEN {}
               ELSE {Header(key[p], offered[p], conn[p])}

(* grid_rep_recv: the request in progress is given up first, also when no  *)
(* other one is there.                                                     *)
RepRecv(p)        == XRepRecv(p) /\ backtrace' = Received(p)
RespondentRecv(p) == XRespondentRecv(p) /\ backtrace' = Received(p)

RecvNothing ==
    /\ Running /\ \A p \in Pipes : offered[p] = 0
    /\ proto \in Cooked /\ backtrace' = {}
    /\ UNCHANGED <<proto, nextKey, outpipes, key, outFlag, outIdle, offered, failed,
                   conn, made, wire>>

Recv ==
    /\ Running
    /\ proto \notin Cooked => Cardinality(backtrace) < MaxHeld
    /\ \E p \in Pipes :
          \/ proto = "REP"         /\ RepRecv(p)
          \/ proto = "RESPONDENT"  /\ RespondentRecv(p)
          \/ proto = "XREP"        /\ XRepRecv(p)
                                   /\ backtrace' = backtrace \cup Received(p)
          \/ proto = "XRESPONDENT" /\ XRespondentRecv(p)
                                   /\ backtrace' = backtrace \cup Received(p)
    /\ UNCHANGED <<proto, nextKey, outpipes, key, outFlag, outIdle, failed, conn, made, wire>>

(* Bound: a device passes a message on or drops it.                        *)
DeviceDrops ==
    /\ Running /\ proto \notin Cooked
    /\ \E h \in backtrace : backtrace' = backtrace \ {h}
    /\ UNCHANGED <<proto, nextKey, outpipes, key, outFlag, outIdle, offered, failed,
                   conn, made, wire>>

Next == \/ \E p \in Pipes : Add(p) \/ Rm(p) \/ Out(p) \/ In(p)
        \/ Send \/ Recv \/ RecvNothing \/ DeviceDrops

Spec == Init /\ [][Next]_vars

-----------------------------------------------------------------------------
(* Properties.                                                             *)

(* No pipe is sent to while it is busy (pipe.c:186), and while the counter *)
(* makes one round (MaxConn <= Keys), starting anywhere and passing from   *)
(* the last key to the first, no key is in use twice (hash.c:101).  What   *)
(* happens after 2^31 connections is not said.                             *)
NoAbort == failed = "none"

(* The hash finds every connected pipe under its key and nothing else,     *)
(* also after it was re-hashed; a pipe carries the flag OUT exactly while  *)
(* it can be sent to, so that no reply is dropped without need.            *)
HashConsistent ==
    /\ NoAbort
    /\ \A k \in 0..(Keys - 1) :
          /\ HashHas(outpipes, k) <=> \E p \in Pipes : key[p] = k
          /\ HashHas(outpipes, k) => key[HashGet(outpipes, k)] = k
    /\ outpipes.items = Cardinality({p \in Pipes : key[p] # -1})
    /\ \A p \in Pipes : outFlag[p] = outIdle[p]

Service == INSTANCE ReplyService WITH
    Peers <- 1..MaxConn,
    ready <- {conn[p] : p \in {q \in Pipes : outFlag[q]}},
    held  <- {[peer |-> h.from, req |-> h.req] : h \in backtrace}

(* The socket keeps the promise of ReplyService: a reply whose peer has    *)
(* gone does not reach the one that came in its place.                     *)
ImplementsService == Service!Spec
=============================================================================
