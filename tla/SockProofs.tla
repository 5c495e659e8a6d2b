----------------------------- MODULE SockProofs -----------------------------
(***************************************************************************)
(* The holds of a socket and the table of descriptors, for any number of   *)
(* threads, slots and endpoints, and the refinement of Handles; the event  *)
(* descriptors; and, for an orderly program, the assertions of sock.c.     *)
(*                                                                         *)
(* Most steps change neither who is inside a call on a socket nor what is  *)
(* counted about it (Steady).  The others are grid_socket, the begin and   *)
(* the end of a call, and the parts of grid_close.                         *)
(***************************************************************************)
EXTENDS Sock, FiniteSetTheorems, TLAPS

(* The change of a socket that the table and the holds do not see.         *)
SameClass(k, j) == /\ j.state = "NONE" <=> k.state = "NONE"
                   /\ j.state \in Closing <=> k.state \in Closing
TermOnce(k) == k.state # "FINI" => k.termsem = 0
Bounded(k) == k \in Socks /\ k.eps + k.sdeps <= MaxEps /\ TermOnce(k)
Steady(k, j) == SameClass(k, j) /\ j.holds = k.holds /\ j.relesem = k.relesem

-----------------------------------------------------------------------------
(* Operators on one socket.                                                *)

(* Leaving the context changes only the descriptors.                       *)
LEMMA OnLeaveSteady ==
  ASSUME NEW k, Bounded(k)
  PROVE  Bounded(OnLeave(k)) /\ Steady(k, OnLeave(k))
<1>1. CASE k.state = "ACTIVE"
  <2>. DEFINE f == [d \in Dirs |-> k.ready[d] > 0]
  <2>1. f \in [Dirs -> BOOLEAN]
    OBVIOUS
  <2>2. OnLeave(k) = [k EXCEPT !.sig = f]
    BY <1>1 DEF OnLeave
  <2>. HIDE DEF f
  <2>3. [k EXCEPT !.sig = f] \in Socks
    BY <2>1 DEF Socks, Bounded
  <2>4. QED
    BY <2>2, <2>3 DEF Bounded, Steady, SameClass, TermOnce, Socks
<1>2. CASE k.state # "ACTIVE"
  BY <1>2 DEF OnLeave, Steady, SameClass
<1>3. QED
  BY <1>1, <1>2

(* What is ready, and the endpoints, are not counted.                      *)
LEMMA ReadySteady ==
  ASSUME NEW k, Bounded(k), NEW d \in Dirs, NEW n \in 0..Cap,
         NEW j, j = [k EXCEPT !.ready[d] = n]
  PROVE  Bounded(j) /\ Steady(k, j)
<1>. DEFINE f == [k.ready EXCEPT ![d] = n]
<1>1. f \in [Dirs -> 0..Cap] /\ j = [k EXCEPT !.ready = f]
  BY DEF Bounded, Socks
<1>. HIDE DEF f
<1>2. j \in Socks
  BY <1>1 DEF Bounded, Socks
<1>3. QED
  BY <1>1, <1>2 DEF Bounded, Steady, SameClass, TermOnce, Socks

LEMMA EpsSteady ==
  ASSUME NEW k, Bounded(k), NEW m \in 0..MaxEps, NEW n \in 0..MaxEps, m + n <= MaxEps,
         NEW j, j = [k EXCEPT !.eps = m, !.sdeps = n]
  PROVE  Bounded(j) /\ Steady(k, j) /\ j.state = k.state
<1>. DEFINE i == [k EXCEPT !.eps = m]
<1>1. j = [i EXCEPT !.sdeps = n]
  BY DEF Bounded, Socks
<1>2. i \in Socks /\ i.eps = m
  BY DEF Bounded, Socks
<1>3. j \in Socks
  <2>. HIDE DEF i
  <2>1. QED
    BY <1>1, <1>2 DEF Socks
<1>4. j.eps = m /\ j.sdeps = n /\ j.state = k.state /\ j.holds = k.holds
      /\ j.relesem = k.relesem /\ j.termsem = k.termsem
  BY <1>1 DEF Bounded, Socks
<1>5. QED
  BY <1>1, <1>3, <1>4 DEF Bounded, Steady, SameClass, TermOnce

(* Finishing a socket that is being stopped: its semaphore is posted.      *)
LEMMA FinishedSteady ==
  ASSUME NEW k, Bounded(k), k.state \in {"STOPPING_EPS", "STOPPING"}
  PROVE  Bounded(Finished(k)) /\ Steady(k, Finished(k))
<1>1. k.termsem = 0
  BY DEF Bounded, TermOnce
<1>. DEFINE j == [[k EXCEPT !.state = "FINI"] EXCEPT !.fd = "closed"]
<1>2. j \in Socks
  <2>1. [k EXCEPT !.state = "FINI"] \in Socks
    BY DEF Bounded, Socks, States
  <2>2. QED
    BY <2>1 DEF Socks
<1>3. Finished(k) = [j EXCEPT !.termsem = 1]
  BY <1>1 DEF Finished, Bounded, Socks
<1>. HIDE DEF j
<1>4. Finished(k) \in Socks
  BY <1>2, <1>3 DEF Socks
<1>5. QED
  BY <1>1, <1>4 DEF Finished, Bounded, Steady, SameClass, TermOnce, Socks, Closing

LEMMA StopProtocolSteady ==
  ASSUME NEW k, Bounded(k), k.state = "STOPPING_EPS"
  PROVE  Bounded(StopProtocol(k)) /\ Steady(k, StopProtocol(k))
<1>1. CASE k.atonce
  BY <1>1, FinishedSteady DEF StopProtocol
<1>2. CASE ~k.atonce
  <2>1. [k EXCEPT !.state = "STOPPING"] \in Socks
    BY DEF Bounded, Socks, States
  <2>2. QED
    BY <1>2, <2>1 DEF StopProtocol, Bounded, Steady, SameClass, TermOnce, Socks, Closing
<1>3. QED
  BY <1>1, <1>2

(* ZOMBIFY does not begin to close a socket.                               *)
LEMMA ZombifySteady ==
  ASSUME NEW k, Bounded(k)
  PROVE  Bounded(Zombify(k)) /\ Steady(k, Zombify(k))
<1>1. CASE k.state = "ACTIVE"
  <2>. DEFINE f == [d \in Dirs |-> TRUE]
              j == [k EXCEPT !.state = "ZOMBIE", !.sig = f]
  <2>1. f \in [Dirs -> BOOLEAN]
    OBVIOUS
  <2>2. Zombify(k) = j
    BY <1>1 DEF Zombify
  <2>. HIDE DEF f
  <2>3. j \in Socks
    BY <2>1 DEF Socks, Bounded, States
  <2>4. QED
    BY <1>1, <2>2, <2>3 DEF Bounded, Steady, SameClass, TermOnce, Socks, Closing
<1>2. CASE k.state # "ACTIVE"
  BY <1>2 DEF Zombify, Steady, SameClass
<1>3. QED
  BY <1>1, <1>2

(* Dropping a hold; the last one posts the semaphore.                      *)
LEMMA ReleCounts ==
  ASSUME NEW k, Bounded(k), k.holds > 0, k.holds = 1 => k.relesem = 0
  PROVE  /\ Bounded(Rele(k)) /\ SameClass(k, Rele(k))
         /\ Rele(k).holds = k.holds - 1
         /\ Rele(k).relesem = IF k.holds = 1 THEN 1 ELSE k.relesem
<1>. DEFINE r == IF k.holds = 1 THEN k.relesem + 1 ELSE k.relesem
<1>1. r \in 0..1 /\ k.holds - 1 \in 0 .. Cardinality(Callers) + 2
  <2>1. Cardinality(Callers) \in Nat
    BY CallersAssumption, FS_CardinalityType
  <2>2. QED
    BY <2>1 DEF Bounded, Socks
<1>2. Rele(k) = [k EXCEPT !.holds = k.holds - 1, !.relesem = r]
  BY DEF Rele, Bounded, Socks
<1>. HIDE DEF r
<1>3. Rele(k) \in Socks
  BY <1>1, <1>2 DEF Bounded, Socks
<1>4. QED
  BY <1>1, <1>2, <1>3 DEF r, Bounded, SameClass, TermOnce, Socks

(* The first section of grid_close: the socket is closing, and one hold    *)
(* is dropped in the end, that of the creator.                             *)
LEMMA StopAndReleCounts ==
  ASSUME NEW k, Bounded(k), k.state = "ACTIVE",
         k.holds \in 1 .. Cardinality(Callers) + 1, k.relesem = 0
  PROVE  /\ Bounded(StopAndRele(k))
         /\ StopAndRele(k).state \in Closing
         /\ StopAndRele(k).holds = k.holds - 1
         /\ StopAndRele(k).relesem = IF k.holds = 1 THEN 1 ELSE 0
<1>. DEFINE f == [d \in Dirs |-> TRUE]
            h == [k EXCEPT !.holds = @ + 1]
            e == [h EXCEPT !.state = "STOPPING_EPS"]
            i == [e EXCEPT !.eps = 0]
            n == h.eps + h.sdeps
            j == [[i EXCEPT !.sdeps = n] EXCEPT !.sig = f]
<1>0. Cardinality(Callers) \in Nat
  BY CallersAssumption, FS_CardinalityType
<1>1. h \in Socks /\ h.holds = k.holds + 1 /\ h.relesem = 0
      /\ h.termsem = 0 /\ h.eps + h.sdeps \in 0..MaxEps
  <2>1. k.holds + 1 \in 0 .. Cardinality(Callers) + 2
    BY <1>0
  <2>2. h \in Socks
    BY <2>1 DEF Bounded, Socks
  <2>3. QED
    BY <2>2, SizesAssumption DEF Bounded, Socks, TermOnce
<1>2. j \in Socks /\ Bounded(j) /\ j.state = "STOPPING_EPS"
      /\ j.holds = k.holds + 1 /\ j.relesem = 0
  <2>1. f \in [Dirs -> BOOLEAN] /\ n \in 0..MaxEps
    BY <1>1
  <2>. HIDE DEF f, h, n
  <2>2. i \in Socks
    <3>1. e \in Socks /\ 0 \in 0..MaxEps
      BY <1>1, SizesAssumption DEF Socks, States
    <3>. HIDE DEF e
    <3>2. QED
      BY <3>1 DEF Socks
  <2>3. j \in Socks
    <3>. HIDE DEF i
    <3>1. [i EXCEPT !.sdeps = n] \in Socks
      BY <2>1, <2>2 DEF Socks
    <3>2. QED
      BY <2>1, <3>1 DEF Socks
  <2>4. /\ j.eps = 0 /\ j.sdeps = n /\ j.state = "STOPPING_EPS"
        /\ j.termsem = h.termsem /\ j.holds = h.holds /\ j.relesem = h.relesem
    BY <1>1 DEF Socks
  <2>5. QED
    BY <1>1, <2>1, <2>3, <2>4 DEF Bounded, TermOnce, Socks
<1>. DEFINE s == Stop(h)
<1>3. Bounded(s) /\ s.state \in Closing /\ s.holds = k.holds + 1 /\ s.relesem = 0
  <2>1. s = IF j.sdeps = 0 THEN StopProtocol(j) ELSE j
    <3>1. j = [h EXCEPT !.state = "STOPPING_EPS", !.eps = 0, !.sdeps = n, !.sig = f]
      <4>. HIDE DEF h, f, n
      <4>1. QED
        BY <1>1 DEF Socks
    <3>2. QED
      BY <3>1 DEF Stop
  <2>. HIDE DEF j, s
  <2>2. Bounded(StopProtocol(j)) /\ Steady(j, StopProtocol(j))
    BY <1>2, StopProtocolSteady
  <2>3. QED
    BY <1>2, <2>1, <2>2 DEF Steady, SameClass, Closing
<1>. HIDE DEF s
<1>4. /\ Bounded(Rele(s)) /\ Rele(s).state \in Closing
      /\ Rele(s).holds = k.holds /\ Rele(s).relesem = 0
  BY <1>3, ReleCounts DEF SameClass
<1>5. /\ Bounded(Rele(Rele(s))) /\ Rele(Rele(s)).state \in Closing
      /\ Rele(Rele(s)).holds = k.holds - 1
      /\ Rele(Rele(s)).relesem = IF k.holds = 1 THEN 1 ELSE 0
  BY <1>4, ReleCounts DEF SameClass
<1>6. QED
  BY <1>5 DEF StopAndRele, s, h

-----------------------------------------------------------------------------
(* The inductive invariant.                                                *)

(* A thread in grid_close does not also count as a user of the socket, and *)
(* without statistics nobody waits inside the global lock.                 *)
CallInv ==
    \A c \in Callers : /\ call[c].pc \in InCall => call[c].op # "close"
                       /\ call[c].pc \in InClose => call[c].op = "close"
                       /\ call[c].pc # "locked"

(* HoldsCounted with what it rests on: a socket that is closing has one    *)
(* closer, who is past grid_sem_wait only when nobody has a hold.          *)
HoldsInv(s) ==
    /\ sock[s].state = "NONE" => In(s) = {}
    /\ sock[s].state # "NONE" =>
          sock[s].holds = Cardinality(In(s))
                          + (IF sock[s].state \in Closing THEN 0 ELSE 1)
    /\ sock[s].state \in Closing => \E c \in Callers : ClosersOf(s) = {c}
    /\ sock[s].state \notin Closing => ClosersOf(s) = {}
    /\ sock[s].relesem = 1 =>
          /\ sock[s].holds = 0
          /\ \E c \in ClosersOf(s) : call[c].pc \in {"termsem", "relesem"}
    /\ \A c \in ClosersOf(s) :
          call[c].pc \in {"dispose", "free"} => sock[s].holds = 0

(* TableConsistent, and that no slot is twice in the free part.            *)
FreePart == 0 .. MaxSockets - nsocks - 1
TableInv == /\ nsocks = MaxSockets - Cardinality(FreeSlots)
            /\ {unused[i] : i \in FreePart} = FreeSlots
            /\ \A i, j \in FreePart : unused[i] = unused[j] => i = j

IInv == /\ TypeOK /\ CallInv
        /\ \A s \in Slots : TermOnce(sock[s]) /\ HoldsInv(s)
        /\ TableInv

LEMMA SocksBounded == ASSUME IInv, NEW s \in Slots PROVE Bounded(sock[s])
BY DEF IInv, TypeOK, Bounded

LEMMA SlotsFinite ==
  /\ IsFiniteSet(Slots) /\ Cardinality(Slots) = MaxSockets
  /\ IsFiniteSet(FreeSlots) /\ Cardinality(FreeSlots) \in 0..MaxSockets
<1>1. IsFiniteSet(Slots) /\ Cardinality(Slots) = MaxSockets
  BY SizesAssumption, FS_Interval DEF Slots
<1>2. FreeSlots \in SUBSET Slots
  BY DEF FreeSlots
<1>3. QED
  BY <1>1, <1>2, FS_Subset, FS_CardinalityType, SizesAssumption

LEMMA InFinite ==
  ASSUME NEW s
  PROVE  /\ IsFiniteSet(In(s)) /\ Cardinality(In(s)) \in 0 .. Cardinality(Callers)
         /\ Cardinality(Callers) \in Nat
<1>1. In(s) \in SUBSET Callers
  BY DEF In
<1>2. QED
  BY <1>1, CallersAssumption, FS_Subset, FS_CardinalityType

LEMMA NoSockBounded == Bounded(NoSock)
<1>1. 0 \in 0 .. Cardinality(Callers) + 2
  BY CallersAssumption, FS_CardinalityType
<1>2. /\ [d \in Dirs |-> 0] \in [Dirs -> 0..Cap]
      /\ [d \in Dirs |-> FALSE] \in [Dirs -> BOOLEAN] /\ 0 \in 0..MaxEps
  BY SizesAssumption
<1>3. NoSock \in Socks
  BY <1>1, <1>2 DEF NoSock, Socks, States
<1>4. QED
  BY <1>3, SizesAssumption DEF NoSock, Bounded, TermOnce

LEMMA IdleCalls ==
  /\ Idle \in Calls /\ Idle.pc = "idle" /\ Idle.op = None
  /\ \A res \in Results : Ended(res) \in Calls /\ Ended(res).pc = "idle"
<1>1. Idle \in Calls
  BY SizesAssumption DEF Idle, Calls, Slots, Ops, Modes, Results, None, InCall, InClose
<1>2. QED
  BY <1>1 DEF Idle, Ended, Calls

(* In the beginning every slot is free.                                    *)
LEMMA InitInv == Init => IInv
<1>. SUFFICES ASSUME Init PROVE IInv
  OBVIOUS
<1>1. NoSock \in Socks
  BY NoSockBounded DEF Bounded
<1>2. Idle \in Calls
  BY IdleCalls
<1>3. \A s \in Slots : sock[s].state = "NONE" /\ sock[s].relesem = 0
                       /\ TermOnce(sock[s]) /\ sock[s].eps + sock[s].sdeps <= MaxEps
  BY SizesAssumption DEF Init, AllUnused, NoSock, TermOnce
<1>4. \A c \in Callers : call[c].pc = "idle" /\ call[c].op = None
  BY DEF Init, AllUnused, Idle
<1>5. \A s \in Slots : HoldsInv(s)
  BY <1>3, <1>4 DEF HoldsInv, In, ClosersOf, InCall, Closing
<1>6. FreeSlots = Slots
  BY <1>3 DEF FreeSlots
<1>7. TableInv
  <2>1. FreePart = Slots
    BY SizesAssumption DEF Init, AllUnused, FreePart, Slots
  <2>2. {unused[i] : i \in Slots} = Slots
    <3>1. \A i \in Slots : unused[i] \in Slots
      BY SizesAssumption DEF Init, AllUnused, Slots
    <3>2. \A s \in Slots : MaxSockets - s - 1 \in Slots
                           /\ unused[MaxSockets - s - 1] = s
      BY SizesAssumption DEF Init, AllUnused, Slots
    <3>3. QED
      BY <3>1, <3>2
  <2>3. \A i, j \in Slots : unused[i] = unused[j] => i = j
    BY SizesAssumption DEF Init, AllUnused, Slots
  <2>4. QED
    BY <1>6, <2>1, <2>2, <2>3, SlotsFinite, SizesAssumption DEF TableInv, Init
<1>8. TypeOK
  <2>1. unused \in [Slots -> Slots]
    BY SizesAssumption DEF Init, AllUnused, Slots
  <2>2. sock \in [Slots -> Socks] /\ call \in [Callers -> Calls]
    BY <1>1, <1>2 DEF Init
  <2>3. nsocks \in 0..MaxSockets
    BY SizesAssumption DEF Init
  <2>4. inited \in BOOLEAN /\ zombie \in BOOLEAN
    BY DEF Init
  <2>5. glock \in Callers \cup {None} /\ stat \in Slots \cup {NoSlot}
    BY DEF Init
  <2>6. QED
    BY <1>3, <2>1, <2>2, <2>3, <2>4, <2>5 DEF TypeOK
<1>9. CallInv
  BY <1>4 DEF CallInv, InCall, InClose
<1>10. QED
  BY <1>3, <1>5, <1>7, <1>8, <1>9 DEF IInv

-----------------------------------------------------------------------------
(* Steps that neither the holds nor the table see.                         *)

(* How a call may go on without being counted differently.                 *)
Continues(a, b) ==
    \/ b = a
    \/ a.pc = "idle" /\ b.pc = "idle"
    \/ a.pc \in InCall /\ b.pc \in InCall /\ b.slot = a.slot /\ b.op = a.op
    \/ /\ <<a.pc, b.pc>> \in {<<"termsem", "relesem">>, <<"dispose", "free">>}
       /\ b.slot = a.slot /\ b.op = a.op

(* Calls go on, sockets keep their class and holds, the table is not used. *)
Hidden ==
    /\ sock' \in [Slots -> Socks]
    /\ \A s \in Slots : Bounded(sock'[s]) /\ Steady(sock[s], sock'[s])
    /\ call' \in [Callers -> Calls]
    /\ \A c \in Callers : Continues(call[c], call'[c])
    /\ inited' \in BOOLEAN /\ zombie' \in BOOLEAN
    /\ UNCHANGED <<unused, nsocks, glock, stat>>

LEMMA HiddenKeeps ==
  ASSUME IInv, Hidden
  PROVE  IInv' /\ UNCHANGED Table!vars
<1>1. \A c \in Callers : call[c].pc # "locked"
  BY DEF IInv, CallInv
<1>2. ASSUME NEW s \in Slots
      PROVE  In(s)' = In(s) /\ ClosersOf(s)' = ClosersOf(s)
             /\ Phase(s)' = Phase(s)
  <2>1. In(s)' = In(s)
    BY DEF In, Hidden, Continues, InCall
  <2>2. ClosersOf(s)' = ClosersOf(s)
    <3>1. \A c \in Callers : call[c].pc \in InCall => call[c].op # "close"
      BY DEF IInv, CallInv
    <3>2. QED
      BY <3>1 DEF ClosersOf, Hidden, Continues, InCall
  <2>3. Phase(s)' = Phase(s)
    BY DEF Phase, Hidden, Steady, SameClass
  <2>4. QED
    BY <2>1, <2>2, <2>3
<1>3. TypeOK'
  BY DEF TypeOK, IInv, Hidden, Bounded
<1>4. CallInv'
  BY DEF IInv, CallInv, Hidden, Continues, InCall, InClose
<1>5. ASSUME NEW s \in Slots
      PROVE  TermOnce(sock[s])' /\ HoldsInv(s)'
  <2>1. Steady(sock[s], sock'[s]) /\ Bounded(sock'[s]) /\ HoldsInv(s)
    BY DEF Hidden, IInv
  <2>2. \A c \in ClosersOf(s) : Continues(call[c], call'[c]) /\ call[c].pc # "idle"
    BY DEF Hidden, ClosersOf
  <2>3. ASSUME NEW c \in ClosersOf(s)
        PROVE  /\ call[c].pc \in {"termsem", "relesem"} => call'[c].pc \in {"termsem", "relesem"}
               /\ call'[c].pc \in {"dispose", "free"} => call[c].pc \in {"dispose", "free"}
    BY <2>2 DEF Continues, InCall
  <2>4. QED
    BY <1>2, <2>1, <2>3 DEF HoldsInv, Steady, SameClass, Bounded
<1>6. TableInv'
  <2>1. FreeSlots' = FreeSlots
    BY DEF FreeSlots, Hidden, Steady, SameClass
  <2>2. FreePart' = FreePart
    BY DEF FreePart, Hidden
  <2>3. QED
    BY <2>1, <2>2 DEF TableInv, Hidden, IInv
<1>7. UNCHANGED Table!vars
  BY <1>2 DEF Table!vars
<1>8. QED
  BY <1>3, <1>4, <1>5, <1>6, <1>7 DEF IInv

(* The two shapes of a hidden step: one socket changes, and one call.      *)
LEMMA HiddenStep ==
  ASSUME IInv, NEW s \in Slots, NEW c \in Callers,
         NEW k, Bounded(k), Steady(sock[s], k),
         NEW r \in Calls, Continues(call[c], r),
         sock' = [sock EXCEPT ![s] = k], call' = [call EXCEPT ![c] = r],
         inited' \in BOOLEAN, zombie' \in BOOLEAN,
         UNCHANGED <<unused, nsocks, glock, stat>>
  PROVE  Hidden
<1>1. sock \in [Slots -> Socks] /\ call \in [Callers -> Calls]
  BY DEF IInv, TypeOK
<1>2. sock' \in [Slots -> Socks] /\ call' \in [Callers -> Calls]
  BY <1>1 DEF Bounded
<1>3. \A u \in Slots : Bounded(sock'[u]) /\ Steady(sock[u], sock'[u])
  BY <1>1, SocksBounded DEF Steady, SameClass
<1>4. \A d \in Callers : Continues(call[d], call'[d])
  BY <1>1 DEF Continues
<1>5. QED
  BY <1>2, <1>3, <1>4 DEF Hidden

LEMMA HiddenSock ==
  ASSUME IInv, NEW s \in Slots, NEW k, Bounded(k), Steady(sock[s], k), Changed(s, k)
  PROVE  Hidden
<1>1. sock \in [Slots -> Socks] /\ call \in [Callers -> Calls]
      /\ inited \in BOOLEAN /\ zombie \in BOOLEAN
  BY DEF IInv, TypeOK
<1>2. sock' = [sock EXCEPT ![s] = k] /\ UNCHANGED <<call, inited, zombie>>
      /\ UNCHANGED <<unused, nsocks, glock, stat>>
  BY DEF Changed, NoGlobalChange
<1>3. sock' \in [Slots -> Socks]
  BY <1>1, <1>2 DEF Bounded
<1>4. \A u \in Slots : Bounded(sock'[u]) /\ Steady(sock[u], sock'[u])
  BY <1>1, <1>2, SocksBounded DEF Steady, SameClass
<1>5. QED
  BY <1>1, <1>2, <1>3, <1>4 DEF Hidden, Continues

(* An assertion that fails changes nothing.                                *)
LEMMA HiddenStop ==
  ASSUME IInv, UNCHANGED <<inited, zombie, sock, unused, nsocks, call, glock, stat>>
  PROVE  Hidden
<1>1. \A s \in Slots : Bounded(sock[s])
  BY SocksBounded
<1>2. QED
  BY <1>1 DEF IInv, TypeOK, Hidden, Continues, Steady, SameClass

LEMMA HiddenCall ==
  ASSUME IInv, NEW c \in Callers, NEW r \in Calls, Continues(call[c], r),
         call' = [call EXCEPT ![c] = r], UNCHANGED sock,
         inited' \in BOOLEAN, zombie' \in BOOLEAN,
         UNCHANGED <<unused, nsocks, glock, stat>>
  PROVE  Hidden
<1>1. call[c].slot \in Slots
  BY DEF IInv, TypeOK, Calls
<1>2. sock' = [sock EXCEPT ![call[c].slot] = sock[call[c].slot]]
  BY <1>1 DEF IInv, TypeOK
<1>3. /\ Bounded(sock[call[c].slot])
      /\ Steady(sock[call[c].slot], sock[call[c].slot])
  BY <1>1, SocksBounded DEF Steady, SameClass
<1>4. QED
  BY <1>1, <1>2, <1>3, HiddenStep

(* A call inside the context goes on, or returns with its result.          *)
LEMMA PcContinues ==
  ASSUME IInv, NEW c \in Callers, NEW p, call' = [call EXCEPT ![c].pc = p],
         \/ call[c].pc \in InCall /\ p \in InCall
         \/ <<call[c].pc, p>> \in {<<"termsem", "relesem">>, <<"dispose", "free">>}
  PROVE  \E r \in Calls : Continues(call[c], r) /\ call' = [call EXCEPT ![c] = r]
<1>. DEFINE r == [call[c] EXCEPT !.pc = p]
<1>1. r \in Calls
  BY DEF IInv, TypeOK, Calls, InCall, InClose
<1>2. r.pc = p /\ r.slot = call[c].slot /\ r.op = call[c].op
  BY DEF IInv, TypeOK, Calls
<1>3. call' = [call EXCEPT ![c] = r]
  OBVIOUS
<1>. HIDE DEF r
<1>4. QED
  BY <1>1, <1>2, <1>3 DEF Continues

LEMMA ResultContinues ==
  ASSUME IInv, NEW c \in Callers, call[c].pc \in InCall, NEW res \in Results, Result(c, res)
  PROVE  \E r \in Calls : Continues(call[c], r) /\ call' = [call EXCEPT ![c] = r]
<1>. DEFINE q == [call[c] EXCEPT !.pc = "rele"]
            r == [q EXCEPT !.res = res]
<1>1. q \in Calls /\ q.pc = "rele" /\ q.slot = call[c].slot /\ q.op = call[c].op
  BY DEF IInv, TypeOK, Calls, InCall
<1>2. call' = [call EXCEPT ![c] = r]
  BY DEF Result, IInv, TypeOK, Calls
<1>. HIDE DEF q
<1>3. r \in Calls /\ r.pc = "rele" /\ r.slot = call[c].slot /\ r.op = call[c].op
  BY <1>1 DEF Calls
<1>. HIDE DEF r
<1>4. QED
  BY <1>2, <1>3 DEF Continues, InCall

-----------------------------------------------------------------------------
(* The handlers and the calls that are hidden.                             *)

LEMMA TransferHidden == ASSUME IInv, NEW c \in Callers, Transfer(c) PROVE Hidden
<1>. DEFINE s == call[c].slot
            d == call[c].op
<1>1. /\ s \in Slots /\ Bounded(sock[s]) /\ d \in Dirs
      /\ call[c].pc = "enter" /\ call[c].pc \in InCall
  <2>1. s \in Slots
    BY DEF IInv, TypeOK, Calls
  <2>2. QED
    BY <2>1, SocksBounded DEF Transfer, InContext, InCall
<1>2. inited' \in BOOLEAN /\ zombie' \in BOOLEAN /\ UNCHANGED <<unused, nsocks, glock, stat>>
  BY DEF Transfer, NoGlobalChange, IInv, TypeOK
<1>3. \E r \in Calls : Continues(call[c], r) /\ call' = [call EXCEPT ![c] = r]
  <2>1. \/ \E res \in {"ok", "ETERM", "EBADF", "EAGAIN"} : Result(c, res)
        \/ call' = [call EXCEPT ![c].pc = "wait"]
    BY DEF Transfer
  <2>2. ASSUME NEW res \in {"ok", "ETERM", "EBADF", "EAGAIN"}, Result(c, res)
        PROVE  \E r \in Calls : Continues(call[c], r) /\ call' = [call EXCEPT ![c] = r]
    BY <1>1, <2>2, ResultContinues DEF Results
  <2>3. QED
    BY <1>1, <2>1, <2>2, PcContinues DEF InCall
<1>4. \E k : Bounded(k) /\ Steady(sock[s], k) /\ sock' = [sock EXCEPT ![s] = k]
  <2>. DEFINE j == [sock[s] EXCEPT !.ready[d] = @ - 1]
  <2>1. \/ sock' = [sock EXCEPT ![s] = OnLeave(sock[s])]
        \/ sock[s].ready[d] > 0 /\ sock' = [sock EXCEPT ![s] = OnLeave(j)]
    BY DEF Transfer
  <2>2. ASSUME sock[s].ready[d] > 0
        PROVE  Bounded(j) /\ Steady(sock[s], j)
    <3>1. sock[s].ready[d] - 1 \in 0..Cap
      BY <1>1, <2>2, SizesAssumption DEF Bounded, Socks
    <3>2. QED
      BY <1>1, <3>1, ReadySteady
  <2>. HIDE DEF j
  <2>3. QED
    BY <1>1, <2>1, <2>2, OnLeaveSteady DEF Steady, SameClass
<1>5. QED
  BY <1>1, <1>2, <1>3, <1>4, HiddenStep

(* The polling of a descriptor only moves the call.                        *)
LEMMA PollingHidden ==
  ASSUME IInv, NEW c \in Callers, WaitFd(c) \/ Woken(c) \/ TimedOut(c)
  PROVE  Hidden
<1>1. /\ call[c].pc \in InCall /\ UNCHANGED sock
      /\ inited' \in BOOLEAN /\ zombie' \in BOOLEAN /\ UNCHANGED <<unused, nsocks, glock, stat>>
  BY DEF WaitFd, Woken, TimedOut, InCall, NoGlobalChange, IInv, TypeOK
<1>2. \/ \E p \in {"poll", "enter"} : call' = [call EXCEPT ![c].pc = p]
      \/ \E res \in {"EBADF", "ETIMEDOUT"} : Result(c, res)
  BY DEF WaitFd, Woken, TimedOut
<1>3. \E r \in Calls : Continues(call[c], r) /\ call' = [call EXCEPT ![c] = r]
  BY <1>1, <1>2, PcContinues, ResultContinues DEF InCall, Results
<1>4. QED
  BY <1>1, <1>3, HiddenCall
-----------------------------------------------------------------------------
LEMMA OnLeaveAfter ==
  ASSUME NEW k, NEW j, Bounded(j), Steady(k, j)
  PROVE  Bounded(OnLeave(j)) /\ Steady(k, OnLeave(j))
BY OnLeaveSteady DEF Steady, SameClass

(* The calls that change the endpoints and the options.                    *)
LEMMA ConfigHidden ==
  ASSUME IInv, NEW c \in Callers, Configure(c)
  PROVE  Hidden
<1>. DEFINE s == call[c].slot
            k == sock[s]
<1>1. s \in Slots /\ Bounded(k) /\ call[c].pc \in InCall
  <2>1. s \in Slots
    BY DEF IInv, TypeOK, Calls
  <2>2. QED
    BY <2>1, SocksBounded DEF Configure, CreateEp, AddEp, RmEp, SetOpt, GetOpt, InOption,
                              InContext, InCall
<1>2. k.eps \in 0..MaxEps /\ k.sdeps \in 0..MaxEps /\ k.eps + k.sdeps <= MaxEps
      /\ MaxEps \in Nat
  BY <1>1, SizesAssumption DEF Bounded, Socks
<1>3. CASE UNCHANGED <<inited, zombie, sock, unused, nsocks, call, glock, stat>>
  BY <1>3, HiddenStop
<1>4. CASE NoGlobalChange /\ UNCHANGED sock /\ \E res \in Results : Result(c, res)
  <2>1. \E r \in Calls : Continues(call[c], r) /\ call' = [call EXCEPT ![c] = r]
    BY <1>1, <1>4, ResultContinues
  <2>2. QED
    BY <1>4, <2>1, HiddenCall DEF NoGlobalChange, IInv, TypeOK
<1>5. ASSUME NEW m \in 0..MaxEps, NEW n \in 0..MaxEps, m + n <= MaxEps,
             NEW j, j = [k EXCEPT !.eps = m, !.sdeps = n],
             sock' = [sock EXCEPT ![s] = OnLeave(j)], Result(c, "ok"), NoGlobalChange
      PROVE  Hidden
  <2>1. Bounded(j) /\ Steady(k, j)
    BY <1>1, <1>5, EpsSteady
  <2>2. Bounded(OnLeave(j)) /\ Steady(k, OnLeave(j))
    BY <2>1, OnLeaveAfter
  <2>3. \E r \in Calls : Continues(call[c], r) /\ call' = [call EXCEPT ![c] = r]
    BY <1>1, <1>5, ResultContinues DEF Results
  <2>4. QED
    BY <1>1, <1>5, <2>2, <2>3, HiddenStep DEF NoGlobalChange, IInv, TypeOK
<1>6. CASE AddEp(c)
  <2>1. CASE /\ k.eps + k.sdeps < MaxEps
             /\ sock' = [sock EXCEPT ![s] = OnLeave([k EXCEPT !.eps = @ + 1])]
             /\ Result(c, "ok")
    <3>1. [k EXCEPT !.eps = @ + 1] = [k EXCEPT !.eps = k.eps + 1, !.sdeps = k.sdeps]
      BY <1>1 DEF Bounded, Socks
    <3>2. k.eps + 1 \in 0..MaxEps /\ k.eps + 1 + k.sdeps <= MaxEps
      BY <1>2, <2>1
    <3>3. NoGlobalChange
      BY <1>6 DEF AddEp
    <3>4. QED
      BY <1>2, <1>5, <2>1, <3>1, <3>2, <3>3
  <2>2. QED
    BY <1>4, <1>6, <2>1 DEF AddEp, Results
<1>7. CASE RmEp(c)
  <2>1. CASE /\ k.eps > 0
             /\ sock' = [sock EXCEPT ![s] =
                            OnLeave([k EXCEPT !.eps = @ - 1, !.sdeps = @ + 1])]
             /\ Result(c, "ok")
    <3>1. k.eps - 1 \in 0..MaxEps /\ k.sdeps + 1 \in 0..MaxEps
          /\ k.eps - 1 + (k.sdeps + 1) <= MaxEps
      BY <1>2, <2>1
    <3>2. NoGlobalChange
      BY <1>7 DEF RmEp
    <3>3. QED
      BY <1>5, <2>1, <3>1, <3>2
  <2>2. QED
    BY <1>4, <1>7, <2>1 DEF RmEp, Results
<1>8. CASE SetOpt(c) \/ GetOpt(c)
  <2>1. CASE Terminated(c) \/ OptionDone(c)
    BY <1>4, <2>1 DEF Terminated, OptionDone, Results
  <2>2. CASE ProtocolOption(c)
    BY <1>3, <2>1, <2>2 DEF ProtocolOption, Abort
  <2>3. QED
    BY <1>8, <2>1, <2>2 DEF SetOpt, GetOpt
<1>9. CASE CreateEp(c)
  BY <1>4, <1>9 DEF CreateEp, Results
<1>10. QED
  BY <1>6, <1>7, <1>8, <1>9 DEF Configure

(* The events of endpoints, pipes and protocols.                           *)
LEMMA EpStoppedHidden == ASSUME IInv, NEW s \in Slots, EpStopped(s) PROVE Hidden
<1>. DEFINE k == sock[s]
            j == [k EXCEPT !.sdeps = @ - 1]
<1>1. Bounded(k) /\ k.sdeps > 0
  BY SocksBounded DEF EpStopped
<1>2. Bounded(j) /\ Steady(k, j) /\ j.state = k.state
  <2>. DEFINE m == k.eps
              n == k.sdeps - 1
  <2>. HIDE DEF k
  <2>1. j = [k EXCEPT !.eps = m, !.sdeps = n]
    BY <1>1 DEF Bounded, Socks
  <2>2. m \in 0..MaxEps /\ n \in 0..MaxEps /\ m + n <= MaxEps
    BY <1>1, SizesAssumption DEF Bounded, Socks
  <2>. HIDE DEF j, m, n
  <2>3. QED
    BY <1>1, <2>1, <2>2, EpsSteady, ZenonT(60)
<1>. HIDE DEF k, j
<1>3. \/ UNCHANGED <<inited, zombie, sock, unused, nsocks, call, glock, stat>>
      \/ Changed(s, OnLeave(j)) \/ Changed(s, j)
      \/ j.state = "STOPPING_EPS" /\ Changed(s, StopProtocol(j))
  BY DEF EpStopped, BadState, Abort, k, j
<1>4. Bounded(OnLeave(j)) /\ Steady(k, OnLeave(j))
  BY <1>2, OnLeaveAfter
<1>5. j.state = "STOPPING_EPS" =>
         Bounded(StopProtocol(j)) /\ Steady(k, StopProtocol(j))
  BY <1>2, StopProtocolSteady DEF Steady, SameClass
<1>6. QED
  BY <1>2, <1>3, <1>4, <1>5, HiddenStop, HiddenSock DEF k

LEMMA PipeHidden ==
  ASSUME IInv, NEW s \in Slots, NEW d \in Dirs, PipeEvent(s, d) \/ PipeGone(s, d)
  PROVE  Hidden
<1>. DEFINE k == sock[s]
<1>1. Bounded(k)
  BY SocksBounded
<1>2. CASE UNCHANGED <<inited, zombie, sock, unused, nsocks, call, glock, stat>>
  BY <1>2, HiddenStop
<1>3. CASE Changed(s, k)
  BY <1>1, <1>3, HiddenSock DEF Steady, SameClass
<1>4. ASSUME NEW n \in 0..Cap, NEW j, j = [k EXCEPT !.ready[d] = n], Changed(s, OnLeave(j))
      PROVE  Hidden
  <2>1. Bounded(j) /\ Steady(k, j)
    BY <1>1, <1>4, ReadySteady
  <2>2. QED
    BY <1>4, <2>1, OnLeaveAfter, HiddenSock
<1>5. k.ready[d] \in 0..Cap /\ Cap \in Nat
  BY <1>1, SizesAssumption DEF Bounded, Socks
<1>6. CASE PipeEvent(s, d)
  <2>1. CASE k.ready[d] < Cap /\ Changed(s, OnLeave([k EXCEPT !.ready[d] = @ + 1]))
    <3>1. k.ready[d] + 1 \in 0..Cap
      BY <1>5, <2>1
    <3>2. QED
      BY <1>4, <2>1, <3>1
  <2>2. QED
    BY <1>2, <1>3, <1>6, <2>1 DEF PipeEvent, BadState, Abort
<1>7. CASE PipeGone(s, d)
  <2>1. k.ready[d] - 1 \in 0..Cap
    BY <1>5, <1>7 DEF PipeGone
  <2>2. QED
    BY <1>4, <1>7, <2>1 DEF PipeGone
<1>8. QED
  BY <1>6, <1>7

LEMMA ProtocolStoppedHidden ==
  ASSUME IInv, NEW s \in Slots, ProtocolStopped(s) PROVE Hidden
BY SocksBounded, FinishedSteady, HiddenSock DEF ProtocolStopped
(* grid_close once grid_sock_stop has posted, and the endpoints are gone.  *)
LEMMA WaitTermHidden == ASSUME IInv, NEW c \in Callers, WaitTerm(c) PROVE Hidden
<1>. DEFINE s == call[c].slot
            k == sock[s]
            j == [k EXCEPT !.termsem = 0]
<1>1. s \in Slots
  BY DEF IInv, TypeOK, Calls
<1>2. Bounded(k) /\ k.termsem = 1 /\ k.state = "FINI"
  BY <1>1, SocksBounded DEF WaitTerm, Bounded, Socks, TermOnce
<1>3. Bounded(j) /\ Steady(k, j)
  <2>. HIDE DEF k
  <2>1. j \in Socks
    BY <1>2 DEF Bounded, Socks
  <2>2. QED
    BY <1>2, <2>1 DEF Bounded, Steady, SameClass, TermOnce, Socks
<1>4. sock' = [sock EXCEPT ![s] = j]
  BY <1>2 DEF WaitTerm
<1>5. \E r \in Calls : Continues(call[c], r) /\ call' = [call EXCEPT ![c] = r]
  BY PcContinues DEF WaitTerm
<1>. HIDE DEF j
<1>6. QED
  BY <1>1, <1>3, <1>4, <1>5, HiddenStep DEF WaitTerm, NoGlobalChange, IInv, TypeOK

LEMMA DisposeHidden == ASSUME IInv, NEW c \in Callers, Dispose(c) PROVE Hidden
<1>. DEFINE s == call[c].slot
            k == sock[s]
            j == [k EXCEPT !.disposed = TRUE]
<1>1. s \in Slots
  BY DEF IInv, TypeOK, Calls
<1>2. CASE UNCHANGED <<inited, zombie, sock, unused, nsocks, call, glock, stat>>
  BY <1>2, HiddenStop
<1>3. CASE sock' = [sock EXCEPT ![s].disposed = TRUE] /\ call' = [call EXCEPT ![c].pc = "free"]
           /\ NoGlobalChange
  <2>1. Bounded(k)
    BY <1>1, SocksBounded
  <2>2. Bounded(j) /\ Steady(k, j)
    <3>. HIDE DEF k
    <3>1. j \in Socks
      BY <2>1 DEF Bounded, Socks
    <3>2. QED
      BY <2>1, <3>1 DEF Bounded, Steady, SameClass, TermOnce, Socks
  <2>3. sock' = [sock EXCEPT ![s] = j]
    BY <1>3
  <2>4. \E r \in Calls : Continues(call[c], r) /\ call' = [call EXCEPT ![c] = r]
    BY <1>3, PcContinues DEF Dispose
  <2>. HIDE DEF j
  <2>5. QED
    BY <1>1, <1>3, <2>2, <2>3, <2>4, HiddenStep DEF NoGlobalChange, IInv, TypeOK
<1>4. QED
  BY <1>2, <1>3 DEF Dispose, Abort

LEMMA TermHidden == ASSUME IInv, Term PROVE Hidden
<1>1. CASE UNCHANGED <<inited, zombie, sock, unused, nsocks, call, glock, stat>>
  BY <1>1, HiddenStop
<1>2. CASE /\ zombie' = TRUE /\ sock' = [s \in Slots |-> Zombify(sock[s])]
           /\ UNCHANGED <<inited, unused, nsocks, call, glock, stat>>
  <2>1. \A s \in Slots : Bounded(sock'[s]) /\ Steady(sock[s], sock'[s])
    BY <1>2, SocksBounded, ZombifySteady
  <2>2. sock' \in [Slots -> Socks]
    BY <1>2, <2>1 DEF Bounded
  <2>3. QED
    BY <1>2, <2>1, <2>2 DEF Hidden, Continues, IInv, TypeOK
<1>3. QED
  BY <1>1, <1>2 DEF Term, Abort

-----------------------------------------------------------------------------
(* Steps that are counted.                                                 *)

(* A step of one thread on one socket.                                     *)
MovesAt(c, s, k, r) ==
    /\ Bounded(k) /\ sock' = [sock EXCEPT ![s] = k]
    /\ r \in Calls /\ call' = [call EXCEPT ![c] = r]
    /\ call[c].pc = "idle" \/ call[c].slot = s
    /\ r.pc = "idle" \/ r.slot = s
    /\ r.pc \in InCall => r.op # "close"
    /\ r.pc \in InClose => r.op = "close"
    /\ r.pc # "locked"

(* Who is inside the socket and who closes it afterwards; the others see   *)
(* nothing of it.                                                          *)
LEMMA Counted ==
  ASSUME IInv, NEW c \in Callers, NEW s \in Slots, NEW k, NEW r, MovesAt(c, s, k, r)
  PROVE  /\ In(s)' = IF r.pc \in InCall THEN In(s) \cup {c} ELSE In(s) \ {c}
         /\ ClosersOf(s)' = IF r.pc \in InClose THEN ClosersOf(s) \cup {c}
                            ELSE ClosersOf(s) \ {c}
         /\ sock'[s] = k /\ call'[c] = r /\ \A d \in Callers \ {c} : call'[d] = call[d]
         /\ \A u \in Slots \ {s} : /\ In(u)' = In(u) /\ Phase(u)' = Phase(u)
                                  /\ sock'[u] = sock[u] /\ HoldsInv(u)'
<1>1. sock \in [Slots -> Socks] /\ call \in [Callers -> Calls]
  BY DEF IInv, TypeOK
<1>2. sock'[s] = k /\ \A u \in Slots \ {s} : sock'[u] = sock[u]
  BY <1>1 DEF MovesAt
<1>3. call'[c] = r /\ \A d \in Callers \ {c} : call'[d] = call[d]
  BY <1>1 DEF MovesAt
<1>4. In(s)' = IF r.pc \in InCall THEN In(s) \cup {c} ELSE In(s) \ {c}
  BY <1>3 DEF In, MovesAt, InCall
<1>5. ClosersOf(s)' = IF r.pc \in InClose THEN ClosersOf(s) \cup {c}
                      ELSE ClosersOf(s) \ {c}
  <2>1. r.pc \in InClose <=> r.op = "close" /\ r.pc # "idle"
    BY DEF MovesAt, Calls, InCall, InClose
  <2>2. r.pc \in InClose => r.slot = s
    BY DEF MovesAt, InClose
  <2>3. QED
    BY <1>3, <2>1, <2>2 DEF ClosersOf
<1>6. ASSUME NEW u \in Slots \ {s}
      PROVE  In(u)' = In(u) /\ Phase(u)' = Phase(u) /\ HoldsInv(u)'
  <2>1. In(u)' = In(u)
    BY <1>3 DEF In, MovesAt, InCall
  <2>2. ClosersOf(u)' = ClosersOf(u) /\ c \notin ClosersOf(u)
    BY <1>3 DEF ClosersOf, MovesAt
  <2>3. \A d \in ClosersOf(u) : call'[d] = call[d]
    BY <1>3, <2>2 DEF ClosersOf
  <2>4. HoldsInv(u)'
    BY <1>2, <2>1, <2>2, <2>3 DEF HoldsInv, IInv
  <2>5. QED
    BY <1>2, <2>1, <2>4 DEF Phase
<1>7. QED
  BY <1>2, <1>3, <1>4, <1>5, <1>6

LEMMA CountedInv ==
  ASSUME IInv, NEW c \in Callers, NEW s \in Slots, NEW k, NEW r, MovesAt(c, s, k, r),
         HoldsInv(s)', TableInv', inited' \in BOOLEAN, nsocks' \in 0..MaxSockets,
         unused' \in [Slots -> Slots], UNCHANGED <<zombie, glock, stat>>
  PROVE  IInv'
<1>1. sock \in [Slots -> Socks] /\ call \in [Callers -> Calls]
  BY DEF IInv, TypeOK
<1>2. \A u \in Slots : Bounded(sock'[u]) /\ HoldsInv(u)'
  <2>1. sock'[s] = k /\ \A u \in Slots \ {s} : sock'[u] = sock[u] /\ HoldsInv(u)'
    BY Counted
  <2>2. Bounded(k) /\ \A u \in Slots : Bounded(sock[u])
    BY SocksBounded DEF MovesAt
  <2>3. ASSUME NEW u \in Slots PROVE Bounded(sock'[u]) /\ HoldsInv(u)'
    BY <2>1, <2>2
  <2>4. QED
    BY <2>3
<1>3. sock' \in [Slots -> Socks] /\ call' \in [Callers -> Calls]
  <2>1. k \in Socks /\ r \in Calls
    BY DEF MovesAt, Bounded
  <2>2. QED
    BY <1>1, <2>1 DEF MovesAt
<1>4. TypeOK'
  <2>1. zombie' \in BOOLEAN /\ glock' \in Callers \cup {None} /\ stat' \in Slots \cup {NoSlot}
    BY DEF IInv, TypeOK
  <2>2. \A u \in Slots : sock'[u].eps + sock'[u].sdeps <= MaxEps
    BY <1>2 DEF Bounded
  <2>3. QED
    BY <1>3, <2>1, <2>2 DEF TypeOK
<1>5. CallInv'
  BY Counted DEF CallInv, IInv, MovesAt
<1>6. QED
  BY <1>2, <1>4, <1>5 DEF IInv, Bounded

LEMMA TableKept ==
  ASSUME IInv, NEW c \in Callers, NEW s \in Slots, NEW k, NEW r, MovesAt(c, s, k, r),
         sock[s].state = "NONE" <=> k.state = "NONE", UNCHANGED <<unused, nsocks>>
  PROVE  TableInv' /\ nsocks' \in 0..MaxSockets /\ unused' \in [Slots -> Slots]
<1>1. FreeSlots' = FreeSlots
  BY Counted DEF FreeSlots
<1>2. FreePart' = FreePart
  BY DEF FreePart
<1>3. QED
  BY <1>1, <1>2 DEF TableInv, IInv, TypeOK
(* What the table shows of a step on one slot.                             *)
LEMMA TableSees ==
  ASSUME IInv, NEW c \in Callers, NEW s \in Slots, NEW k, NEW r, MovesAt(c, s, k, r)
  PROVE  /\ [u \in Slots |-> Phase(u)]' =
               [[u \in Slots |-> Phase(u)] EXCEPT ![s] = Phase(s)']
         /\ [u \in Slots |-> In(u)]' =
               [[u \in Slots |-> In(u)] EXCEPT ![s] = In(s)']
<1>1. \A u \in Slots \ {s} : In(u)' = In(u) /\ Phase(u)' = Phase(u)
  BY Counted
<1>2. QED
  BY <1>1

(* A call that fails at once is not seen.                                  *)
LEMMA FailedHidden ==
  ASSUME IInv, NEW c \in Callers, call[c].pc = "idle", NEW r \in Calls, r.pc = "idle",
         call' = [call EXCEPT ![c] = r],
         UNCHANGED <<inited, zombie, sock, unused, nsocks, glock, stat>>
  PROVE  Hidden
<1>1. inited' \in BOOLEAN /\ zombie' \in BOOLEAN
  BY DEF IInv, TypeOK
<1>2. Continues(call[c], r)
  BY DEF Continues
<1>3. QED
  BY <1>1, <1>2, HiddenCall

(* grid_socket takes the slot on top of the stack.                         *)
LEMMA TakeSlot ==
  ASSUME IInv, nsocks < MaxSockets, NEW s, s = unused[MaxSockets - nsocks - 1],
         FreeSlots' = FreeSlots \ {s}, nsocks' = nsocks + 1, unused' = unused
  PROVE  s \in FreeSlots /\ TableInv' /\ nsocks' \in 0..MaxSockets
<1>. DEFINE t == MaxSockets - nsocks - 1
<1>1. nsocks \in 0..MaxSockets /\ MaxSockets \in Nat /\ t \in FreePart
  BY SizesAssumption DEF IInv, TypeOK, FreePart
<1>2. s \in FreeSlots
  BY <1>1 DEF IInv, TableInv
<1>3. FreePart' = FreePart \ {t}
  BY <1>1 DEF FreePart
<1>4. {unused[i] : i \in FreePart \ {t}} = FreeSlots \ {s}
  <2>1. \A i \in FreePart : unused[i] = s => i = t
    BY <1>1 DEF IInv, TableInv
  <2>2. QED
    BY <2>1 DEF IInv, TableInv
<1>5. Cardinality(FreeSlots \ {s}) = Cardinality(FreeSlots) - 1
  BY <1>2, SlotsFinite, FS_RemoveElement
<1>6. nsocks' = MaxSockets - Cardinality(FreeSlots \ {s})
  BY <1>1, <1>5, SlotsFinite DEF IInv, TableInv
<1>7. \A i, j \in FreePart \ {t} : unused[i] = unused[j] => i = j
  BY DEF IInv, TableInv
<1>8. QED
  BY <1>1, <1>2, <1>3, <1>4, <1>6, <1>7 DEF TableInv

LEMMA SocketGiven ==
  ASSUME IInv, NEW c \in Callers, call[c].pc = "idle", nsocks < MaxSockets,
         NEW s \in Slots, s = unused[MaxSockets - nsocks - 1], NEW once \in BOOLEAN,
         sock' = [sock EXCEPT ![s] = Created(once)],
         nsocks' = nsocks + 1, inited' = TRUE, call' = [call EXCEPT ![c] = Ended("ok")],
         UNCHANGED <<zombie, unused, glock, stat>>
  PROVE  IInv' /\ Table!Open(s)
<1>. DEFINE i == [NoSock EXCEPT !.state = "ACTIVE"]
            j == [i EXCEPT !.holds = 1]
            k == [j EXCEPT !.atonce = once]
            r == Ended("ok")
<1>1. s \in FreeSlots /\ sock[s].state = "NONE"
  <2>1. MaxSockets - nsocks - 1 \in FreePart
    BY SizesAssumption DEF IInv, TypeOK, FreePart
  <2>2. QED
    BY <2>1 DEF IInv, TableInv, FreeSlots
<1>2. Bounded(k) /\ k.state = "ACTIVE" /\ k.holds = 1 /\ k.relesem = 0
  <2>1. i \in Socks
    BY NoSockBounded DEF Bounded, Socks, States
  <2>2. i.state = "ACTIVE" /\ i.relesem = 0 /\ i.termsem = 0 /\ i.eps = 0 /\ i.sdeps = 0
    BY DEF NoSock
  <2>3. 1 \in 0 .. Cardinality(Callers) + 2
    BY CallersAssumption, FS_CardinalityType
  <2>. HIDE DEF i
  <2>4. j \in Socks /\ j.holds = 1 /\ j.state = "ACTIVE" /\ j.relesem = 0 /\ j.termsem = 0
        /\ j.eps = 0 /\ j.sdeps = 0
    BY <2>1, <2>2, <2>3 DEF Socks
  <2>. HIDE DEF j
  <2>5. k \in Socks /\ k.holds = 1 /\ k.state = "ACTIVE" /\ k.relesem = 0 /\ k.termsem = 0
        /\ k.eps = 0 /\ k.sdeps = 0
    BY <2>4 DEF Socks
  <2>6. QED
    BY <2>5, SizesAssumption DEF Bounded, TermOnce
<1>3. Created(once) = k
  BY DEF NoSock, Created
<1>4. r \in Calls /\ r.pc = "idle"
  BY IdleCalls DEF Results
<1>5. MovesAt(c, s, k, r)
  <2>. HIDE DEF k, r
  <2>1. QED
    BY <1>2, <1>3, <1>4 DEF MovesAt, InCall, InClose, r
<1>. HIDE DEF k, r
<1>6. /\ In(s)' = In(s) \ {c} /\ ClosersOf(s)' = ClosersOf(s) \ {c} /\ sock'[s] = k
      /\ \A u \in Slots \ {s} : sock'[u] = sock[u]
  BY <1>4, <1>5, Counted DEF InCall, InClose
<1>7. In(s) = {} /\ ClosersOf(s) = {}
  BY <1>1 DEF IInv, HoldsInv, Closing
<1>8. HoldsInv(s)'
  <2>1. In(s)' = {} /\ ClosersOf(s)' = {} /\ Cardinality(In(s)') = 0
    BY <1>6, <1>7, FS_EmptySet
  <2>2. sock'[s].state = "ACTIVE" /\ sock'[s].holds = 1 /\ sock'[s].relesem = 0
    BY <1>2, <1>6
  <2>3. QED
    BY <2>1, <2>2 DEF HoldsInv, Closing
<1>9. FreeSlots' = FreeSlots \ {s}
  BY <1>1, <1>2, <1>6 DEF FreeSlots
<1>10. TableInv' /\ nsocks' \in 0..MaxSockets
  BY <1>9, TakeSlot
<1>11. IInv'
  <2>1. unused' \in [Slots -> Slots] /\ inited' \in BOOLEAN
    BY DEF IInv, TypeOK
  <2>2. QED
    BY <1>5, <1>8, <1>10, <2>1, CountedInv
<1>12. Table!Open(s)
  <2>1. Phase(s) = "free" /\ Phase(s)' = "open" /\ In(s)' = In(s)
    BY <1>1, <1>2, <1>6, <1>7 DEF Phase, Closing
  <2>2. QED
    BY <1>5, <2>1, TableSees DEF Table!Open, Table!Move
<1>13. QED
  BY <1>11, <1>12

LEMMA SocketStep ==
  ASSUME IInv, NEW c \in Callers, Socket(c)
  PROVE  IInv' /\ [Table!Next]_(Table!vars)
<1>1. call[c].pc = "idle" /\ UNCHANGED <<zombie, unused, glock, stat>>
  BY DEF Socket
<1>2. ASSUME NEW res \in Results, call' = [call EXCEPT ![c] = Ended(res)],
             UNCHANGED <<inited, sock, nsocks>>
      PROVE  IInv' /\ [Table!Next]_(Table!vars)
  <2>1. Hidden
    BY <1>1, <1>2, IdleCalls, FailedHidden
  <2>2. QED
    BY <2>1, HiddenKeeps
<1>3. CASE \E res \in Results : /\ call' = [call EXCEPT ![c] = Ended(res)]
                                /\ UNCHANGED <<inited, sock, nsocks>>
  BY <1>2, <1>3
<1>4. CASE \E once \in BOOLEAN :
              /\ nsocks < MaxSockets
              /\ sock' = [sock EXCEPT ![unused[MaxSockets - nsocks - 1]] = Created(once)]
              /\ nsocks' = nsocks + 1 /\ inited' = TRUE
              /\ call' = [call EXCEPT ![c] = Ended("ok")]
  <2>1. nsocks < MaxSockets /\ unused[MaxSockets - nsocks - 1] \in Slots
    BY <1>4, SizesAssumption DEF IInv, TypeOK, Slots
  <2>2. PICK s \in Slots : s = unused[MaxSockets - nsocks - 1]
    BY <2>1
  <2>3. PICK once \in BOOLEAN :
           /\ sock' = [sock EXCEPT ![s] = Created(once)]
           /\ nsocks' = nsocks + 1 /\ inited' = TRUE
           /\ call' = [call EXCEPT ![c] = Ended("ok")]
    BY <1>4, <2>2
  <2>4. IInv' /\ Table!Open(s)
    BY <1>1, <2>1, <2>2, <2>3, SocketGiven
  <2>5. QED
    BY <2>4 DEF Table!Next
<1>5. QED
  BY <1>3, <1>4 DEF Socket, Results
(* A socket of which a hold can be taken is active.                        *)
LEMMA HeldIsActive ==
  ASSUME IInv, NEW s \in Slots, HoldResult(s) = "ok"
  PROVE  /\ sock[s].state = "ACTIVE" /\ sock[s].relesem = 0 /\ ClosersOf(s) = {}
         /\ sock[s].holds = Cardinality(In(s)) + 1
<1>1. sock[s].state \in States /\ sock[s].relesem \in 0..1
  BY SocksBounded DEF Bounded, Socks
<1>2. sock[s].state = "ACTIVE"
  BY <1>1 DEF HoldResult, States, Closing
<1>3. ClosersOf(s) = {} /\ sock[s].holds = Cardinality(In(s)) + 1
      /\ (sock[s].relesem = 1 => sock[s].holds = 0)
  BY <1>2 DEF IInv, HoldsInv, Closing
<1>4. QED
  BY <1>1, <1>2, <1>3, InFinite

LEMMA HoldResultType == ASSUME NEW s PROVE HoldResult(s) \in Results
BY DEF HoldResult, Results

(* A call begins: it is counted from the section in which it is admitted.  *)
LEMMA EnterStep ==
  ASSUME IInv, NEW c \in Callers, NEW s \in Slots, NEW op \in Ops \ {"close"},
         NEW mode \in Modes, Enter(c, s, op, mode)
  PROVE  IInv' /\ [Table!Next]_(Table!vars)
<1>1. call[c].pc = "idle" /\ UNCHANGED <<inited, zombie, unused, nsocks, glock, stat>>
  BY DEF Enter, NoGlobalChange
<1>2. CASE HoldResult(s) # "ok"
  <2>1. UNCHANGED sock /\ call' = [call EXCEPT ![c] = Ended(HoldResult(s))]
    BY <1>2 DEF Enter
  <2>2. Hidden
    BY <1>1, <2>1, IdleCalls, HoldResultType, FailedHidden
  <2>3. QED
    BY <2>2, HiddenKeeps
<1>3. CASE HoldResult(s) = "ok"
  <2>. DEFINE n == sock[s].holds + 1
              k == [sock[s] EXCEPT !.holds = n]
              r == [Idle EXCEPT !.pc = "enter", !.slot = s, !.op = op, !.mode = mode]
  <2>1. sock' = [sock EXCEPT ![s] = k] /\ call' = [call EXCEPT ![c] = r]
    BY <1>3 DEF Enter
  <2>2. /\ sock[s].state = "ACTIVE" /\ sock[s].relesem = 0 /\ ClosersOf(s) = {}
        /\ sock[s].holds = Cardinality(In(s)) + 1
    BY <1>3, HeldIsActive
  <2>3. Bounded(k) /\ k.holds = n /\ k.state = "ACTIVE" /\ k.relesem = 0
    <3>1. n \in 0 .. Cardinality(Callers) + 2
      BY <2>2, InFinite
    <3>. HIDE DEF n
    <3>2. k \in Socks
      BY <3>1, SocksBounded DEF Bounded, Socks
    <3>3. QED
      BY <2>2, <3>2, SocksBounded DEF Bounded, Socks, TermOnce
  <2>4. r \in Calls /\ r.pc = "enter" /\ r.slot = s /\ r.op = op
    BY IdleCalls DEF Idle, Calls, InCall, InClose, Results
  <2>. HIDE DEF k, r
  <2>5. MovesAt(c, s, k, r)
    BY <1>1, <2>1, <2>3, <2>4 DEF MovesAt, InCall, InClose
  <2>6. /\ In(s)' = In(s) \cup {c} /\ ClosersOf(s)' = {} /\ sock'[s] = k
    BY <2>2, <2>4, <2>5, Counted DEF InCall, InClose
  <2>7. Cardinality(In(s)') = Cardinality(In(s)) + 1
    <3>1. c \notin In(s)
      BY <1>1 DEF In, InCall
    <3>2. QED
      BY <2>6, <3>1, InFinite, FS_AddElement
  <2>8. HoldsInv(s)'
    BY <2>2, <2>3, <2>6, <2>7, InFinite DEF HoldsInv, Closing
  <2>9. IInv'
    <3>1. TableInv' /\ nsocks' \in 0..MaxSockets /\ unused' \in [Slots -> Slots]
      BY <1>1, <2>2, <2>3, <2>5, TableKept
    <3>2. inited' \in BOOLEAN
      BY <1>1 DEF IInv, TypeOK
    <3>3. QED
      BY <1>1, <2>5, <2>8, <3>1, <3>2, CountedInv
  <2>10. Table!Admit(c, s)
    <3>1. Phase(s) = "open" /\ Phase(s)' = "open"
      BY <2>2, <2>3, <2>6 DEF Phase, Closing
    <3>2. \A u \in Slots : c \notin In(u)
      BY <1>1 DEF In, InCall
    <3>3. QED
      BY <2>5, <2>6, <3>1, <3>2, TableSees DEF Table!Admit
  <2>11. QED
    BY <2>9, <2>10 DEF Table!Next
<1>4. QED
  BY <1>2, <1>3

(* A call returns and drops its hold; if it was the last one grid_close    *)
(* is let go, and it is still waiting.                                     *)
LEMMA LeaveStep ==
  ASSUME IInv, NEW c \in Callers, Leave(c)
  PROVE  IInv' /\ [Table!Next]_(Table!vars)
<1>1. /\ call[c].pc = "rele" /\ call[c].slot \in Slots /\ call[c].res \in Results
      /\ UNCHANGED <<inited, zombie, unused, nsocks, glock, stat>>
  BY DEF Leave, NoGlobalChange, IInv, TypeOK, Calls
<1>2. PICK s \in Slots : s = call[c].slot
  BY <1>1
<1>3. PICK r : r = Ended(call[c].res)
  OBVIOUS
<1>4. PICK k : k = Rele(sock[s])
  OBVIOUS
<1>5. sock' = [sock EXCEPT ![s] = k] /\ call' = [call EXCEPT ![c] = r]
  BY <1>2, <1>3, <1>4 DEF Leave
<1>6. c \in In(s) /\ c \notin ClosersOf(s) /\ In(s) # {}
  BY <1>1, <1>2 DEF In, ClosersOf, InCall, IInv, CallInv
<1>7. /\ sock[s].state # "NONE" /\ Cardinality(In(s)) \in Nat \ {0}
      /\ sock[s].holds = Cardinality(In(s)) + (IF sock[s].state \in Closing THEN 0 ELSE 1)
      /\ sock[s].holds > 0 /\ sock[s].relesem = 0
  <2>1. Cardinality(In(s)) \in Nat \ {0}
    BY <1>6, InFinite, FS_EmptySet
  <2>2. sock[s].state # "NONE"
    BY <1>6 DEF IInv, HoldsInv
  <2>3. sock[s].relesem \in 0..1
    BY SocksBounded DEF Bounded, Socks
  <2>4. QED
    BY <2>1, <2>2, <2>3 DEF IInv, HoldsInv
<1>8. /\ Bounded(k) /\ SameClass(sock[s], k) /\ k.holds = sock[s].holds - 1
      /\ k.relesem = IF sock[s].holds = 1 THEN 1 ELSE 0
  BY <1>4, <1>7, SocksBounded, ReleCounts
<1>9. r \in Calls /\ r.pc = "idle"
  BY <1>1, <1>3, IdleCalls
<1>10. MovesAt(c, s, k, r)
  BY <1>2, <1>5, <1>8, <1>9 DEF MovesAt, InCall, InClose
<1>11. /\ In(s)' = In(s) \ {c} /\ ClosersOf(s)' = ClosersOf(s) /\ sock'[s] = k
       /\ \A d \in Callers \ {c} : call'[d] = call[d]
  BY <1>6, <1>9, <1>10, Counted DEF InCall, InClose
<1>12. Cardinality(In(s)') = Cardinality(In(s)) - 1
  BY <1>6, <1>11, InFinite, FS_RemoveElement
<1>13. ASSUME NEW d \in ClosersOf(s)
       PROVE  call'[d] = call[d] /\ call[d].pc \in {"termsem", "relesem"}
  <2>1. call'[d] = call[d]
    BY <1>6, <1>11 DEF ClosersOf
  <2>2. call[d].pc \in InClose
    BY DEF ClosersOf, IInv, TypeOK, Calls, CallInv
  <2>3. call[d].pc \notin {"dispose", "free"}
    BY <1>7 DEF IInv, HoldsInv
  <2>4. QED
    BY <2>1, <2>2, <2>3 DEF InClose
<1>14. HoldsInv(s)'
  <2>1. k.state # "NONE" /\ (k.state \in Closing <=> sock[s].state \in Closing)
    BY <1>7, <1>8 DEF SameClass
  <2>2. k.holds = Cardinality(In(s)') + (IF k.state \in Closing THEN 0 ELSE 1)
    BY <1>7, <1>8, <1>12, <2>1
  <2>3. k.relesem = 1 => k.holds = 0 /\ \E d \in ClosersOf(s) : call'[d].pc \in {"termsem", "relesem"}
    <3>1. SUFFICES ASSUME k.relesem = 1
                   PROVE  k.holds = 0 /\ ClosersOf(s) # {}
      BY <1>13
    <3>2. sock[s].holds = 1 /\ k.holds = 0
      BY <1>7, <1>8, <3>1
    <3>3. sock[s].state \in Closing
      BY <1>7, <3>2
    <3>4. QED
      BY <3>2, <3>3 DEF IInv, HoldsInv
  <2>4. \A d \in ClosersOf(s) : call'[d].pc \notin {"dispose", "free"}
    BY <1>13
  <2>5. /\ sock[s].state \in Closing => \E d \in Callers : ClosersOf(s) = {d}
        /\ sock[s].state \notin Closing => ClosersOf(s) = {}
    BY DEF IInv, HoldsInv
  <2>6. QED
    BY <1>11, <2>1, <2>2, <2>3, <2>4, <2>5 DEF HoldsInv
<1>15. IInv'
  <2>1. TableInv' /\ nsocks' \in 0..MaxSockets /\ unused' \in [Slots -> Slots]
    BY <1>1, <1>8, <1>10, TableKept DEF SameClass
  <2>2. inited' \in BOOLEAN
    BY <1>1 DEF IInv, TypeOK
  <2>3. QED
    BY <1>1, <1>10, <1>14, <2>1, <2>2, CountedInv
<1>16. Table!Return(c, s)
  <2>1. Phase(s)' = Phase(s)
    BY <1>8, <1>11 DEF Phase, SameClass
  <2>2. QED
    BY <1>6, <1>10, <1>11, <2>1, TableSees DEF Table!Return
<1>17. QED
  BY <1>15, <1>16 DEF Table!Next
(* grid_close admits nobody else to close, and drops the creator's hold.   *)
LEMMA CloseStep ==
  ASSUME IInv, NEW c \in Callers, NEW s \in Slots, Close(c, s)
  PROVE  IInv' /\ [Table!Next]_(Table!vars)
<1>1. call[c].pc = "idle" /\ UNCHANGED <<inited, zombie, unused, nsocks, glock, stat>>
  BY DEF Close, NoGlobalChange
<1>2. CASE HoldResult(s) # "ok"
  <2>. DEFINE e == Ended(HoldResult(s))
              r == [e EXCEPT !.op = "close"]
  <2>1. UNCHANGED sock /\ call' = [call EXCEPT ![c] = r]
    BY <1>2 DEF Close
  <2>2. e \in Calls /\ e.pc = "idle"
    BY IdleCalls, HoldResultType
  <2>3. r \in Calls /\ r.pc = "idle"
    <3>. HIDE DEF e
    <3>1. QED
      BY <2>2 DEF Calls, Ops
  <2>. HIDE DEF r
  <2>4. Hidden
    BY <1>1, <2>1, <2>3, FailedHidden
  <2>5. QED
    BY <2>4, HiddenKeeps
<1>3. CASE HoldResult(s) = "ok"
  <2>1. PICK k : k = StopAndRele(sock[s])
    OBVIOUS
  <2>2. PICK r : r = [Idle EXCEPT !.pc = "termsem", !.slot = s, !.op = "close"]
    OBVIOUS
  <2>3. sock' = [sock EXCEPT ![s] = k] /\ call' = [call EXCEPT ![c] = r]
    BY <1>3, <2>1, <2>2 DEF Close
  <2>4. /\ sock[s].state = "ACTIVE" /\ sock[s].relesem = 0 /\ ClosersOf(s) = {}
        /\ sock[s].holds = Cardinality(In(s)) + 1
    BY <1>3, HeldIsActive
  <2>5. /\ Bounded(k) /\ k.state \in Closing /\ k.holds = Cardinality(In(s))
        /\ k.relesem = IF k.holds = 0 THEN 1 ELSE 0
    <3>1. sock[s].holds \in 1 .. Cardinality(Callers) + 1
      BY <2>4, InFinite
    <3>2. /\ Bounded(k) /\ k.state \in Closing /\ k.holds = sock[s].holds - 1
          /\ k.relesem = IF sock[s].holds = 1 THEN 1 ELSE 0
      BY <2>1, <2>4, <3>1, SocksBounded, StopAndReleCounts
    <3>3. QED
      BY <2>4, <3>2, InFinite
  <2>6. r \in Calls /\ r.pc = "termsem" /\ r.slot = s /\ r.op = "close"
    <3>. DEFINE i == [Idle EXCEPT !.pc = "termsem"]
                j == [i EXCEPT !.slot = s]
    <3>1. i \in Calls /\ i.pc = "termsem"
      BY IdleCalls DEF Calls, InClose
    <3>2. r = [j EXCEPT !.op = "close"]
      BY <2>2 DEF Idle
    <3>. HIDE DEF i
    <3>3. j \in Calls /\ j.pc = "termsem" /\ j.slot = s
      BY <3>1 DEF Calls
    <3>. HIDE DEF j
    <3>4. QED
      BY <3>2, <3>3 DEF Calls, Ops
  <2>7. MovesAt(c, s, k, r)
    BY <1>1, <2>3, <2>5, <2>6 DEF MovesAt, InCall, InClose
  <2>8. /\ In(s)' = In(s) \ {c} /\ ClosersOf(s)' = {c} /\ sock'[s] = k /\ call'[c] = r
    BY <2>4, <2>6, <2>7, Counted DEF InCall, InClose
  <2>9. In(s)' = In(s)
    BY <1>1, <2>8 DEF In, InCall
  <2>10. HoldsInv(s)'
    BY <2>5, <2>6, <2>8, <2>9, InFinite DEF HoldsInv, Closing
  <2>11. IInv'
    <3>1. TableInv' /\ nsocks' \in 0..MaxSockets /\ unused' \in [Slots -> Slots]
      BY <1>1, <2>4, <2>5, <2>7, TableKept DEF Closing
    <3>2. inited' \in BOOLEAN
      BY <1>1 DEF IInv, TypeOK
    <3>3. QED
      BY <1>1, <2>7, <2>10, <3>1, <3>2, CountedInv
  <2>12. Table!StartClose(s)
    <3>1. Phase(s) = "open" /\ Phase(s)' = "closing"
      BY <2>4, <2>5, <2>8 DEF Phase, Closing
    <3>2. QED
      BY <2>7, <2>9, <3>1, TableSees DEF Table!StartClose, Table!Move
  <2>13. QED
    BY <2>11, <2>12 DEF Table!Next
<1>4. QED
  BY <1>2, <1>3

(* The thread in grid_close, and its socket.                               *)
LEMMA Closer ==
  ASSUME IInv, NEW c \in Callers, call[c].pc \in InClose
  PROVE  \E s \in Slots : /\ s = call[c].slot /\ ClosersOf(s) = {c} /\ c \notin In(s)
                         /\ sock[s].state \in Closing
<1>1. PICK s \in Slots : s = call[c].slot
  BY DEF IInv, TypeOK, Calls
<1>2. c \in ClosersOf(s) /\ c \notin In(s)
  BY <1>1 DEF ClosersOf, In, IInv, CallInv, InClose, InCall
<1>3. sock[s].state \in Closing /\ ClosersOf(s) = {c}
  BY <1>2 DEF IInv, HoldsInv
<1>4. QED
  BY <1>1, <1>2, <1>3

(* grid_close when the other callers are gone.                             *)
LEMMA WaitReleStep ==
  ASSUME IInv, NEW c \in Callers, WaitRele(c)
  PROVE  IInv' /\ UNCHANGED Table!vars
<1>1. call[c].pc = "relesem" /\ UNCHANGED <<inited, zombie, unused, nsocks, glock, stat>>
  BY DEF WaitRele, NoGlobalChange
<1>2. PICK s \in Slots : /\ s = call[c].slot /\ ClosersOf(s) = {c} /\ c \notin In(s)
                         /\ sock[s].state \in Closing
  BY <1>1, Closer DEF InClose
<1>3. sock[s].relesem = 1 /\ sock[s].holds = 0
  BY <1>2, SocksBounded DEF WaitRele, Bounded, Socks, IInv, HoldsInv
<1>4. PICK k : k = [sock[s] EXCEPT !.relesem = 0]
  OBVIOUS
<1>5. PICK r : r = [call[c] EXCEPT !.pc = "dispose"]
  OBVIOUS
<1>6. sock' = [sock EXCEPT ![s] = k] /\ call' = [call EXCEPT ![c] = r]
  BY <1>2, <1>3, <1>4, <1>5 DEF WaitRele
<1>7. Bounded(k) /\ k.state = sock[s].state /\ k.relesem = 0 /\ k.holds = 0
  <2>1. k \in Socks
    BY <1>4, SocksBounded DEF Bounded, Socks
  <2>2. QED
    BY <1>3, <1>4, <2>1, SocksBounded DEF Bounded, Socks, TermOnce
<1>8. r \in Calls /\ r.pc = "dispose" /\ r.slot = s /\ r.op = "close"
  <2>1. call[c] \in Calls /\ call[c].op = "close"
    BY <1>1 DEF IInv, TypeOK, CallInv, InClose
  <2>2. QED
    BY <1>2, <1>5, <2>1 DEF Calls, InClose
<1>9. MovesAt(c, s, k, r)
  BY <1>2, <1>6, <1>7, <1>8 DEF MovesAt, InCall, InClose
<1>10. /\ In(s)' = In(s) /\ ClosersOf(s)' = {c} /\ sock'[s] = k
  BY <1>2, <1>8, <1>9, Counted DEF InCall, InClose
<1>11. HoldsInv(s)'
  <2>1. k.holds = Cardinality(In(s))
    BY <1>2, <1>3, <1>7, InFinite DEF IInv, HoldsInv, Closing
  <2>2. QED
    BY <1>2, <1>7, <1>10, <2>1 DEF HoldsInv, Closing
<1>12. IInv'
  <2>1. TableInv' /\ nsocks' \in 0..MaxSockets /\ unused' \in [Slots -> Slots]
    BY <1>1, <1>7, <1>9, TableKept
  <2>2. inited' \in BOOLEAN
    BY <1>1 DEF IInv, TypeOK
  <2>3. QED
    BY <1>1, <1>9, <1>11, <2>1, <2>2, CountedInv
<1>13. UNCHANGED Table!vars
  <2>1. Phase(s)' = Phase(s)
    BY <1>7, <1>10 DEF Phase
  <2>2. QED
    BY <1>9, <1>10, <2>1, TableSees DEF Table!vars
<1>14. QED
  BY <1>12, <1>13

(* grid_close puts the slot back on the stack.                             *)
LEMMA ReturnSlot ==
  ASSUME IInv, NEW s \in Slots \ FreeSlots, FreeSlots' = FreeSlots \cup {s},
         nsocks' = nsocks - 1,
         unused' = IF nsocks = 1 THEN [i \in Slots |-> MaxSockets - i - 1] ELSE Pushed(s)
  PROVE  TableInv' /\ nsocks' \in 0..MaxSockets /\ unused' \in [Slots -> Slots]
<1>1. /\ MaxSockets \in Nat \ {0} /\ nsocks \in 0..MaxSockets
      /\ unused \in [Slots -> Slots]
  BY SizesAssumption DEF IInv, TypeOK
<1>2. Cardinality(FreeSlots \cup {s}) = Cardinality(FreeSlots) + 1
  BY SlotsFinite, FS_AddElement
<1>3. FreeSlots \cup {s} \in SUBSET Slots
  BY DEF FreeSlots
<1>4. nsocks \in 1..MaxSockets /\ nsocks' = MaxSockets - Cardinality(FreeSlots')
  <2>1. Cardinality(FreeSlots \cup {s}) <= MaxSockets
    BY <1>3, SlotsFinite, FS_Subset
  <2>2. QED
    BY <1>1, <1>2, <2>1, SlotsFinite DEF IInv, TableInv
<1>0. PICK f : f = unused'
  OBVIOUS
<1>5. CASE nsocks = 1
  <2>1. FreeSlots' = Slots
    <3>1. Cardinality(FreeSlots \cup {s}) = MaxSockets
      BY <1>1, <1>2, <1>5, SlotsFinite DEF IInv, TableInv
    <3>2. QED
      BY <1>3, <3>1, SlotsFinite, FS_Subset
  <2>2. FreePart' = Slots
    BY <1>1, <1>5 DEF FreePart, Slots
  <2>3. f \in [Slots -> Slots] /\ \A i \in Slots : f[i] = MaxSockets - i - 1
    BY <1>0, <1>1, <1>5 DEF Slots
  <2>4. {f[i] : i \in Slots} = Slots
    <3>1. \A t \in Slots : /\ MaxSockets - t - 1 \in Slots
                           /\ MaxSockets - (MaxSockets - t - 1) - 1 = t
      BY <1>1 DEF Slots
    <3>2. QED
      BY <2>3, <3>1
  <2>5. \A i, j \in Slots : f[i] = f[j] => i = j
    <3>1. \A i, j \in Slots : MaxSockets - i - 1 = MaxSockets - j - 1 => i = j
      BY <1>1 DEF Slots
    <3>2. QED
      BY <2>3, <3>1
  <2>6. nsocks' \in 0..MaxSockets
    BY <1>1, <1>5
  <2>7. QED
    BY <1>0, <1>4, <2>1, <2>2, <2>3, <2>4, <2>5, <2>6 DEF TableInv
<1>6. CASE nsocks # 1
  <2>. DEFINE t == MaxSockets - nsocks
  <2>1. t \in Slots /\ t \notin FreePart /\ FreePart \subseteq Slots
    BY <1>1, <1>4, <1>6 DEF Slots, FreePart
  <2>2. FreePart' = FreePart \cup {t}
    BY <1>1, <1>4, <1>6 DEF FreePart
  <2>3. /\ f \in [Slots -> Slots] /\ f[t] = s
        /\ \A i \in FreePart : f[i] = unused[i]
    BY <1>0, <1>1, <1>6, <2>1 DEF Pushed
  <2>4. /\ {unused[i] : i \in FreePart} = FreeSlots
        /\ \A i, j \in FreePart : unused[i] = unused[j] => i = j
    BY DEF IInv, TableInv
  <2>5. {f[i] : i \in FreePart \cup {t}} = FreeSlots \cup {s}
    <3>1. {f[i] : i \in FreePart \cup {t}} = {unused[i] : i \in FreePart} \cup {s}
      BY <2>1, <2>3
    <3>2. QED
      BY <2>4, <3>1
  <2>6. \A i, j \in FreePart \cup {t} : f[i] = f[j] => i = j
    <3>1. \A i \in FreePart : f[i] # s
      BY <2>3, <2>4
    <3>2. QED
      BY <2>3, <2>4, <3>1
  <2>7. nsocks' \in 0..MaxSockets
    BY <1>1, <1>4
  <2>8. QED
    BY <1>0, <1>4, <2>2, <2>3, <2>5, <2>6, <2>7 DEF TableInv
<1>7. QED
  BY <1>5, <1>6
LEMMA FreeStep ==
  ASSUME IInv, NEW c \in Callers, Free(c)
  PROVE  IInv' /\ [Table!Next]_(Table!vars)
<1>1. call[c].pc = "free" /\ UNCHANGED <<zombie, glock, stat>>
  BY DEF Free, GlobalTerm
<1>2. PICK s \in Slots : /\ s = call[c].slot /\ ClosersOf(s) = {c} /\ c \notin In(s)
                         /\ sock[s].state \in Closing
  BY <1>1, Closer DEF InClose
<1>3. In(s) = {}
  <2>1. sock[s].holds = 0
    BY <1>1, <1>2 DEF IInv, HoldsInv
  <2>2. Cardinality(In(s)) = 0
    BY <1>2, <2>1, InFinite DEF IInv, HoldsInv, Closing
  <2>3. QED
    BY <2>2, InFinite, FS_EmptySet
<1>4. PICK r : r = Ended("ok")
  OBVIOUS
<1>5. /\ sock' = [sock EXCEPT ![s] = NoSock] /\ call' = [call EXCEPT ![c] = r]
      /\ nsocks' = nsocks - 1 /\ inited' = (nsocks > 1)
      /\ unused' = IF nsocks = 1 THEN AllUnused ELSE Pushed(s)
  BY <1>2, <1>4 DEF Free, GlobalTerm
<1>6. r \in Calls /\ r.pc = "idle"
  BY <1>4, IdleCalls DEF Results
<1>7. NoSock.state = "NONE" /\ NoSock.relesem = 0
  BY DEF NoSock
<1>8. MovesAt(c, s, NoSock, r)
  BY <1>2, <1>5, <1>6, NoSockBounded DEF MovesAt, InCall, InClose
<1>9. /\ In(s)' = {} /\ ClosersOf(s)' = {} /\ sock'[s] = NoSock
      /\ \A u \in Slots \ {s} : sock'[u] = sock[u]
  BY <1>2, <1>3, <1>6, <1>8, Counted DEF InCall, InClose
<1>10. HoldsInv(s)'
  BY <1>7, <1>9 DEF HoldsInv, Closing
<1>11. FreeSlots' = FreeSlots \cup {s} /\ s \in Slots \ FreeSlots
  BY <1>2, <1>7, <1>9 DEF FreeSlots, Closing
<1>12. IInv'
  <2>1. TableInv' /\ nsocks' \in 0..MaxSockets /\ unused' \in [Slots -> Slots]
    BY <1>5, <1>11, ReturnSlot DEF AllUnused
  <2>2. inited' \in BOOLEAN
    BY <1>5
  <2>3. QED
    BY <1>1, <1>8, <1>10, <2>1, <2>2, CountedInv
<1>13. Table!Finish(s)
  <2>1. Phase(s) = "closing" /\ Phase(s)' = "free" /\ In(s)' = In(s)
    BY <1>2, <1>3, <1>7, <1>9 DEF Phase, Closing
  <2>2. QED
    BY <1>3, <1>8, <2>1, TableSees DEF Table!Finish, Table!Move
<1>14. QED
  BY <1>12, <1>13 DEF Table!Next

-----------------------------------------------------------------------------
(* Every step, also those of a program that is not orderly, preserves the  *)
(* invariant and is one of Handles.                                        *)
LEMMA StepKeeps ==
  ASSUME IInv, [Next]_vars
  PROVE  IInv' /\ [Table!Next]_(Table!vars)
<1>1. ASSUME Hidden PROVE IInv' /\ [Table!Next]_(Table!vars)
  BY <1>1, HiddenKeeps
<1>2. CASE UNCHANGED vars
  BY <1>1, <1>2, HiddenStop DEF vars
<1>3. ASSUME NEW c \in Callers, Continue(c)
      PROVE  IInv' /\ [Table!Next]_(Table!vars)
  <2>1. CASE Leave(c)
    BY <2>1, LeaveStep
  <2>2. CASE Transfer(c)
    BY <1>1, <2>2, TransferHidden
  <2>3. CASE WaitFd(c) \/ Woken(c)
    BY <1>1, <2>3, PollingHidden
  <2>4. CASE Configure(c)
    BY <1>1, <2>4, ConfigHidden
  <2>5. CASE WaitTerm(c)
    BY <1>1, <2>5, WaitTermHidden
  <2>6. CASE WaitRele(c)
    BY <2>6, WaitReleStep
  <2>7. CASE Dispose(c)
    BY <1>1, <2>7, DisposeHidden
  <2>8. CASE Free(c)
    BY <2>8, FreeStep
  <2>9. QED
    BY <1>3, <2>1, <2>2, <2>3, <2>4, <2>5, <2>6, <2>7, <2>8 DEF Continue
<1>4. ASSUME NEW c \in Callers, NEW s \in Slots, Begin(c, s)
      PROVE  IInv' /\ [Table!Next]_(Table!vars)
  <2>1. PICK op \in Dirs \cup {"add_ep", "rm_ep", "setopt", "getopt"}, mode \in Modes :
                Enter(c, s, op, mode)
    BY <1>4 DEF Begin, Modes
  <2>2. op \in Ops \ {"close"}
    BY DirsAssumption DEF Ops
  <2>3. QED
    BY <2>1, <2>2, EnterStep
<1>5. CASE Calling
  BY <1>1, <1>3, <1>4, <1>5, SocketStep, PollingHidden DEF Calling
<1>6. CASE Working
  BY <1>1, <1>6, EpStoppedHidden, ProtocolStoppedHidden, PipeHidden DEF Working
<1>7. CASE Term
  BY <1>1, <1>7, TermHidden
<1>8. ASSUME NEW c \in Callers, NEW s \in Slots, Close(c, s)
      PROVE  IInv' /\ [Table!Next]_(Table!vars)
  BY <1>8, CloseStep
<1>9. QED
  BY <1>2, <1>5, <1>6, <1>7, <1>8 DEF Next

(* The inductive invariant of the socket table, for any number of threads, *)
(* slots and endpoints, and whatever the program calls in which order.     *)
THEOREM Invariant == Spec => []IInv
<1>1. IInv /\ [Next]_vars => IInv'
  BY StepKeeps
<1>2. QED
  BY <1>1, InitInv, PTL DEF Spec

(* Every variable of the table, of a socket and of a call keeps its type;  *)
(* in particular neither semaphore of a socket is posted twice.            *)
THEOREM TypesHold == Spec => []TypeOK
<1>1. IInv => TypeOK
  BY DEF IInv
<1>2. QED
  BY <1>1, Invariant, PTL

(* The holds of a socket are those of the calls in progress and of the     *)
(* creator; grid_close waits for all of them and is let go once.           *)
THEOREM HoldsAreCounted == Spec => []HoldsCounted
<1>1. IInv => HoldsCounted
  <2>. SUFFICES ASSUME IInv, NEW s \in Slots, sock[s].state # "NONE"
                PROVE  /\ sock[s].holds = Cardinality(In(s))
                                          + (IF sock[s].state \in Closing THEN 0 ELSE 1)
                       /\ Cardinality(ClosersOf(s)) = IF sock[s].state \in Closing THEN 1 ELSE 0
                       /\ sock[s].relesem = 1 =>
                             sock[s].holds = 0
                             /\ \E c \in ClosersOf(s) : call[c].pc \in {"termsem", "relesem"}
    BY DEF HoldsCounted
  <2>1. HoldsInv(s)
    BY DEF IInv
  <2>2. Cardinality(ClosersOf(s)) = IF sock[s].state \in Closing THEN 1 ELSE 0
    BY <2>1, FS_EmptySet, FS_Singleton DEF HoldsInv
  <2>3. QED
    BY <2>1, <2>2 DEF HoldsInv
<1>2. QED
  BY <1>1, Invariant, PTL

(* No slot is given out twice or lost, in whatever order sockets are       *)
(* opened and closed (grid_socket, grid_close).                            *)
THEOREM TableIsConsistent == Spec => []TableConsistent
<1>1. IInv => TableConsistent
  BY DEF IInv, TableInv, TableConsistent, FreePart
<1>2. QED
  BY <1>1, Invariant, PTL

(* All of it together.                                                     *)
THEOREM TableStaysSound == Spec => []TableSound
<1>1. QED
  BY TypesHold, HoldsAreCounted, TableIsConsistent, PTL DEF TableSound

(* A descriptor is not given out again while a call on the socket it named *)
(* is in progress, and no call is admitted once closing has begun.         *)
THEOREM TableIsHandles == Spec => ImplementsHandles
<1>1. Init => Table!Init
  <2>. SUFFICES ASSUME Init PROVE Table!Init
    OBVIOUS
  <2>1. \A s \in Slots : Phase(s) = "free" /\ In(s) = {}
    BY DEF Init, NoSock, Idle, Phase, In, InCall
  <2>2. QED
    BY <2>1 DEF Table!Init
<1>2. IInv /\ [Next]_vars => [Table!Next]_(Table!vars)
  BY StepKeeps
<1>3. QED
  BY <1>1, <1>2, Invariant, PTL DEF Spec, ImplementsHandles, Table!Spec

(* The steps of an orderly program are among them.                         *)
THEOREM OrderlyIsSpec == OrderlySpec => Spec
<1>1. OrderlyNext => Next
  BY DEF OrderlyNext, Next
<1>2. QED
  BY <1>1, PTL DEF OrderlySpec, Spec

-----------------------------------------------------------------------------
(***************************************************************************)
(* The event descriptors of a socket: what a caller in poll waits for.     *)
(* On an active socket they are set by whoever leaves the context; any     *)
(* other socket was made so by a step that signalled them, and nothing     *)
(* clears them since.                                                      *)
(***************************************************************************)

(* SignalsTellTruth of one socket.                                         *)
Truthful(k) ==
    \A d \in Dirs : /\ k.state = "ACTIVE" => (k.sig[d] <=> k.ready[d] > 0)
                    /\ k.state \notin {"NONE", "ACTIVE"} => k.sig[d]
Truth == \A s \in Slots : Truthful(sock[s])

(* What does not concern the descriptors leaves these fields alone.        *)
Like(k, j) == j.state = k.state /\ j.sig = k.sig /\ j.ready = k.ready

LEMMA LikeTruthful == ASSUME NEW k, NEW j, Truthful(k), Like(k, j) PROVE Truthful(j)
BY DEF Truthful, Like

-----------------------------------------------------------------------------
(* Operators on one socket.                                                *)

(* grid_sock_onleave sets them from what the socket can do, whatever the   *)
(* thread that leaves has changed.                                         *)
LEMMA OnLeaveTruthful ==
  ASSUME NEW k \in Socks, k.state # "ACTIVE" => Truthful(k)
  PROVE  Truthful(OnLeave(k))
<1>1. CASE k.state = "ACTIVE"
  <2>. DEFINE f == [d \in Dirs |-> k.ready[d] > 0]
  <2>1. OnLeave(k) = [k EXCEPT !.sig = f]
    BY <1>1 DEF OnLeave
  <2>2. \A d \in Dirs : f[d] <=> k.ready[d] > 0
    OBVIOUS
  <2>. HIDE DEF f
  <2>3. OnLeave(k).state = "ACTIVE" /\ OnLeave(k).sig = f /\ OnLeave(k).ready = k.ready
    BY <1>1, <2>1 DEF Socks
  <2>4. QED
    BY <2>2, <2>3 DEF Truthful
<1>2. CASE k.state # "ACTIVE"
  BY <1>2 DEF OnLeave
<1>3. QED
  BY <1>1, <1>2

(* Holds and semaphores.                                                   *)
LEMMA CountersLike ==
  ASSUME NEW k \in Socks, NEW n
  PROVE  /\ Like(k, [k EXCEPT !.holds = n]) /\ Like(k, [k EXCEPT !.termsem = n])
         /\ Like(k, [k EXCEPT !.relesem = n]) /\ Like(k, [k EXCEPT !.disposed = TRUE])
         /\ Like(k, Rele(k))
BY DEF Like, Rele, Socks

(* The protocol ends, which closes the descriptors signalled.              *)
LEMMA StopProtocolTruthful ==
  ASSUME NEW k \in Socks, Truthful(k), k.state \in {"STOPPING_EPS", "STOPPING"}
  PROVE  Truthful(Finished(k)) /\ Truthful(StopProtocol(k))
<1>1. \A d \in Dirs : k.sig[d]
  BY DEF Truthful
<1>2. Finished(k).state = "FINI" /\ Finished(k).sig = k.sig
  BY DEF Finished, Socks
<1>3. ~k.atonce => StopProtocol(k).state = "STOPPING" /\ StopProtocol(k).sig = k.sig
  BY DEF StopProtocol, Socks
<1>4. Truthful(Finished(k))
  BY <1>1, <1>2 DEF Truthful
<1>5. CASE k.atonce
  BY <1>4, <1>5 DEF StopProtocol
<1>6. CASE ~k.atonce
  BY <1>1, <1>3, <1>4, <1>6 DEF Truthful
<1>7. QED
  BY <1>5, <1>6

(* grid_close signals them before anything else.                           *)
LEMMA StopTruthful ==
  ASSUME NEW k \in Socks
  PROVE  Truthful(StopAndRele(k))
<1>. DEFINE f == [d \in Dirs |-> TRUE]
            h == [k EXCEPT !.holds = @ + 1]
            j == [h EXCEPT !.state = "STOPPING_EPS", !.eps = 0,
                           !.sdeps = h.eps + h.sdeps, !.sig = f]
            s == Stop(h)
            r == Rele(s)
<1>1. \A d \in Dirs : f[d]
  OBVIOUS
<1>2. s = IF j.sdeps = 0 THEN StopProtocol(j) ELSE j
  BY DEF Stop
<1>. HIDE DEF f
<1>3. j.sig = f /\ j.state = "STOPPING_EPS"
  BY DEF Socks
<1>4. s.sig = f /\ s.state \in Closing
  <2>1. Finished(j).sig = f /\ Finished(j).state = "FINI"
    BY DEF Finished, Socks
  <2>2. StopProtocol(j).sig = f /\ StopProtocol(j).state \in Closing
    BY <2>1 DEF StopProtocol, Closing, Socks
  <2>. HIDE DEF j, s
  <2>3. QED
    BY <1>2, <1>3, <2>2 DEF Closing
<1>5. r.sig = s.sig /\ r.state = s.state
  BY DEF Rele, Stop, StopProtocol, Finished, Socks
<1>6. Rele(r).sig = s.sig /\ Rele(r).state = s.state
  BY DEF Rele, Stop, StopProtocol, Finished, Socks
<1>7. StopAndRele(k) = Rele(r)
  BY DEF StopAndRele
<1>8. QED
  BY <1>1, <1>4, <1>6, <1>7 DEF Truthful, Closing

(* What is ready, and the endpoints, may change before it leaves.          *)
LEMMA ReadyTruthful ==
  ASSUME NEW k, Bounded(k), Truthful(k), NEW d \in Dirs, NEW n \in 0..Cap
  PROVE  Truthful(OnLeave([k EXCEPT !.ready[d] = n]))
<1>. DEFINE j == [k EXCEPT !.ready[d] = n]
<1>1. j \in Socks
  BY ReadySteady DEF Bounded
<1>2. j.state = k.state /\ j.sig = k.sig
  BY DEF Bounded, Socks
<1>. HIDE DEF j
<1>3. j.state # "ACTIVE" => Truthful(j)
  BY <1>2 DEF Truthful
<1>4. Truthful(OnLeave(j))
  BY <1>1, <1>3, OnLeaveTruthful
<1>5. QED
  BY <1>4 DEF j

LEMMA EpsTruthful ==
  ASSUME NEW k, Bounded(k), Truthful(k),
         NEW m \in 0..MaxEps, NEW n \in 0..MaxEps, m + n <= MaxEps,
         NEW j, j = [k EXCEPT !.eps = m, !.sdeps = n]
  PROVE  j \in Socks /\ Truthful(j) /\ Truthful(OnLeave(j))
<1>1. j \in Socks
  BY EpsSteady DEF Bounded
<1>2. Like(k, j)
  BY DEF Like, Bounded, Socks
<1>3. QED
  BY <1>1, <1>2, LikeTruthful, OnLeaveTruthful

-----------------------------------------------------------------------------
(* The steps.                                                              *)

(* One socket changes.                                                     *)
LEMMA OneChanges ==
  ASSUME TypeOK, Truth, NEW s, NEW j, sock' = [sock EXCEPT ![s] = j], Truthful(j)
  PROVE  Truth'
<1>1. \A x \in Slots : sock'[x] = j \/ sock'[x] = sock[x]
  BY DEF TypeOK
<1>2. QED
  BY <1>1 DEF Truth, Truthful

LEMMA NoneChanges == ASSUME Truth, UNCHANGED sock PROVE Truth'
BY DEF Truth, Truthful

(* A socket is created with nothing to receive and no peer to send to.     *)
LEMMA SocketTruth == ASSUME IInv, Truth, NEW c \in Callers, Socket(c) PROVE Truth'
<1>. DEFINE s == unused[MaxSockets - nsocks - 1]
<1>1. CASE UNCHANGED sock
  BY <1>1, NoneChanges
<1>2. CASE \E once \in BOOLEAN : sock' = [sock EXCEPT ![s] = Created(once)]
  <2>1. PICK once \in BOOLEAN : sock' = [sock EXCEPT ![s] = Created(once)]
    BY <1>2
  <2>2. Truthful(Created(once))
    BY DEF Truthful, NoSock, Created
  <2>3. QED
    BY <2>1, <2>2, OneChanges DEF IInv
<1>3. QED
  BY <1>1, <1>2 DEF Socket

(* The begin and the end of calls, and the semaphores of grid_close.       *)
LEMMA CountTruth ==
  ASSUME IInv, Truth,
         \/ \E c \in Callers : Leave(c) \/ WaitTerm(c) \/ WaitRele(c) \/ Dispose(c)
         \/ \E c \in Callers, s \in Slots, op \in Ops, mode \in Modes : Enter(c, s, op, mode)
  PROVE  Truth'
<1>1. CASE UNCHANGED sock
  BY <1>1, NoneChanges
<1>2. ASSUME NEW s \in Slots, NEW j, Like(sock[s], j), sock' = [sock EXCEPT ![s] = j]
      PROVE  Truth'
  BY <1>2, LikeTruthful, OneChanges DEF Truth, IInv
<1>3. \A s \in Slots : sock[s] \in Socks
  BY DEF IInv, TypeOK
<1>4. ASSUME NEW c \in Callers, Leave(c) \/ WaitTerm(c) \/ WaitRele(c) \/ Dispose(c)
      PROVE  Truth'
  <2>. DEFINE s == call[c].slot
  <2>1. s \in Slots
    BY DEF IInv, TypeOK, Calls
  <2>2. \/ UNCHANGED sock
        \/ sock' = [sock EXCEPT ![s] = Rele(sock[s])]
        \/ sock' = [sock EXCEPT ![s] = [sock[s] EXCEPT !.termsem = @ - 1]]
        \/ sock' = [sock EXCEPT ![s] = [sock[s] EXCEPT !.relesem = @ - 1]]
        \/ sock' = [sock EXCEPT ![s] = [sock[s] EXCEPT !.disposed = TRUE]]
    BY <1>4 DEF Leave, WaitTerm, WaitRele, Dispose, Abort
  <2>3. QED
    BY <1>1, <1>2, <1>3, <2>1, <2>2, CountersLike
<1>5. ASSUME NEW c \in Callers, NEW s \in Slots, NEW op \in Ops, NEW mode \in Modes,
             Enter(c, s, op, mode)
      PROVE  Truth'
  <2>1. \/ UNCHANGED sock
        \/ sock' = [sock EXCEPT ![s] = [sock[s] EXCEPT !.holds = @ + 1]]
    BY <1>5 DEF Enter
  <2>2. QED
    BY <1>1, <1>2, <1>3, <2>1, CountersLike
<1>6. QED
  BY <1>4, <1>5

(* Calls inside the context: what is left behind is shown.                 *)
LEMMA TransferTruth ==
  ASSUME IInv, Truth, NEW c \in Callers, Transfer(c) PROVE Truth'
<1>. DEFINE s == call[c].slot
            k == sock[s]
            d == call[c].op
<1>1. s \in Slots /\ d \in Dirs
  BY DEF IInv, TypeOK, Calls, Transfer
<1>2. Bounded(k) /\ k \in Socks /\ Truthful(k)
  BY <1>1, SocksBounded DEF Bounded, Truth
<1>3. \/ sock' = [sock EXCEPT ![s] = OnLeave(k)]
      \/ /\ k.ready[d] > 0
         /\ sock' = [sock EXCEPT ![s] = OnLeave([k EXCEPT !.ready[d] = @ - 1])]
  BY DEF Transfer
<1>4. k.ready[d] > 0 => k.ready[d] - 1 \in 0..Cap
  BY <1>1, <1>2, SizesAssumption DEF Socks
<1>5. Truthful(OnLeave(k))
  BY <1>2, OnLeaveTruthful
<1>6. k.ready[d] > 0 => Truthful(OnLeave([k EXCEPT !.ready[d] = @ - 1]))
  BY <1>1, <1>2, <1>4, ReadyTruthful
<1>7. QED
  BY <1>3, <1>5, <1>6, OneChanges DEF IInv

LEMMA ConfigTruth ==
  ASSUME IInv, Truth, NEW c \in Callers, Configure(c)
  PROVE  Truth'
<1>. DEFINE s == call[c].slot
            k == sock[s]
<1>1. s \in Slots
  BY DEF IInv, TypeOK, Calls
<1>2. Bounded(k) /\ Truthful(k) /\ k \in Socks
  BY <1>1, SocksBounded DEF Bounded, Truth
<1>3. k.eps \in 0..MaxEps /\ k.sdeps \in 0..MaxEps /\ k.eps + k.sdeps <= MaxEps
      /\ MaxEps \in Nat
  BY <1>2, SizesAssumption DEF Bounded, Socks
<1>4. CASE UNCHANGED sock
  BY <1>4, NoneChanges
<1>5. CASE /\ k.eps + k.sdeps < MaxEps
           /\ sock' = [sock EXCEPT ![s] = OnLeave([k EXCEPT !.eps = @ + 1])]
  <2>1. [k EXCEPT !.eps = @ + 1] = [k EXCEPT !.eps = k.eps + 1, !.sdeps = k.sdeps]
    BY <1>2 DEF Socks
  <2>2. k.eps + 1 \in 0..MaxEps /\ k.eps + 1 + k.sdeps <= MaxEps
    BY <1>3, <1>5
  <2>3. Truthful(OnLeave([k EXCEPT !.eps = @ + 1]))
    BY <1>2, <1>3, <2>1, <2>2, EpsTruthful
  <2>4. QED
    BY <1>5, <2>3, OneChanges DEF IInv
<1>6. CASE /\ k.eps > 0
           /\ sock' = [sock EXCEPT ![s] =
                          OnLeave([k EXCEPT !.eps = @ - 1, !.sdeps = @ + 1])]
  <2>1. k.eps - 1 \in 0..MaxEps /\ k.sdeps + 1 \in 0..MaxEps
        /\ k.eps - 1 + (k.sdeps + 1) <= MaxEps
    BY <1>3, <1>6
  <2>2. Truthful(OnLeave([k EXCEPT !.eps = @ - 1, !.sdeps = @ + 1]))
    BY <1>2, <2>1, EpsTruthful
  <2>3. QED
    BY <1>6, <2>2, OneChanges DEF IInv
<1>7. QED
  BY <1>4, <1>5, <1>6 DEF Configure, CreateEp, AddEp, RmEp, SetOpt, GetOpt, Terminated,
                           OptionDone, ProtocolOption, Abort

(* Waiting for a descriptor changes nothing.                               *)
LEMMA PollingTruth ==
  ASSUME Truth, NEW c \in Callers, WaitFd(c) \/ Woken(c) \/ TimedOut(c) PROVE Truth'
BY NoneChanges DEF WaitFd, Woken, TimedOut

(* Events of the endpoints, the pipes and the protocol.                    *)
LEMMA EpStoppedTruth ==
  ASSUME IInv, Truth, NEW s \in Slots, EpStopped(s) PROVE Truth'
<1>. DEFINE k == sock[s]
            j == [k EXCEPT !.sdeps = @ - 1]
<1>1. Bounded(k) /\ Truthful(k) /\ k.sdeps > 0
  BY SocksBounded DEF Truth, EpStopped
<1>2. j \in Socks /\ Truthful(j) /\ Truthful(OnLeave(j))
  <2>. DEFINE m == k.eps
              n == k.sdeps - 1
  <2>. HIDE DEF k
  <2>1. j = [k EXCEPT !.eps = m, !.sdeps = n]
    BY <1>1 DEF Bounded, Socks
  <2>2. m \in 0..MaxEps /\ n \in 0..MaxEps /\ m + n <= MaxEps
    BY <1>1, SizesAssumption DEF Bounded, Socks
  <2>. HIDE DEF j, m, n
  <2>3. QED
    BY <1>1, <2>1, <2>2, EpsTruthful
<1>. HIDE DEF k, j
<1>3. \/ UNCHANGED sock \/ Changed(s, OnLeave(j)) \/ Changed(s, j)
      \/ j.state = "STOPPING_EPS" /\ Changed(s, StopProtocol(j))
  BY DEF EpStopped, BadState, Abort, k, j
<1>4. j.state = "STOPPING_EPS" => Truthful(StopProtocol(j))
  BY <1>2, StopProtocolTruthful
<1>5. QED
  BY <1>2, <1>3, <1>4, NoneChanges, OneChanges DEF Changed, IInv

LEMMA PipeTruth ==
  ASSUME IInv, Truth, NEW s \in Slots, NEW d \in Dirs, PipeEvent(s, d) \/ PipeGone(s, d)
  PROVE  Truth'
<1>. DEFINE k == sock[s]
<1>1. Bounded(k) /\ Truthful(k) /\ k.ready[d] \in 0..Cap /\ Cap \in Nat
  BY SocksBounded, SizesAssumption DEF Truth, Bounded, Socks
<1>2. CASE UNCHANGED sock \/ Changed(s, k)
  BY <1>1, <1>2, NoneChanges, OneChanges DEF Changed, IInv
<1>3. CASE k.ready[d] < Cap /\ Changed(s, OnLeave([k EXCEPT !.ready[d] = @ + 1]))
  <2>1. k.ready[d] + 1 \in 0..Cap
    BY <1>1, <1>3
  <2>2. Truthful(OnLeave([k EXCEPT !.ready[d] = @ + 1]))
    BY <1>1, <2>1, ReadyTruthful
  <2>3. QED
    BY <1>3, <2>2, OneChanges DEF Changed, IInv
<1>4. CASE k.ready[d] > 0 /\ Changed(s, OnLeave([k EXCEPT !.ready[d] = @ - 1]))
  <2>1. k.ready[d] - 1 \in 0..Cap
    BY <1>1, <1>4
  <2>2. Truthful(OnLeave([k EXCEPT !.ready[d] = @ - 1]))
    BY <1>1, <2>1, ReadyTruthful
  <2>3. QED
    BY <1>4, <2>2, OneChanges DEF Changed, IInv
<1>5. QED
  BY <1>2, <1>3, <1>4 DEF PipeEvent, PipeGone, BadState, Abort

LEMMA ProtocolStoppedTruth ==
  ASSUME IInv, Truth, NEW s \in Slots, ProtocolStopped(s) PROVE Truth'
<1>1. sock[s] \in Socks /\ Truthful(sock[s])
  BY DEF IInv, TypeOK, Truth
<1>2. Truthful(Finished(sock[s]))
  BY <1>1, StopProtocolTruthful DEF ProtocolStopped
<1>3. QED
  BY <1>2, OneChanges DEF ProtocolStopped, Changed, IInv

(* Both ends of grid_close that change the descriptors, and grid_term.     *)
LEMMA CloseTruth ==
  ASSUME IInv, Truth, NEW c \in Callers, NEW s \in Slots, Close(c, s) PROVE Truth'
<1>1. UNCHANGED sock \/ sock' = [sock EXCEPT ![s] = StopAndRele(sock[s])]
  BY DEF Close
<1>2. Truthful(StopAndRele(sock[s]))
  BY StopTruthful DEF IInv, TypeOK
<1>3. QED
  BY <1>1, <1>2, NoneChanges, OneChanges DEF IInv

LEMMA FreeTruth == ASSUME IInv, Truth, NEW c \in Callers, Free(c) PROVE Truth'
<1>1. Truthful(NoSock)
  BY DEF Truthful, NoSock
<1>2. QED
  BY <1>1, OneChanges DEF Free, GlobalTerm, IInv

LEMMA TermTruth == ASSUME IInv, Truth, Term PROVE Truth'
<1>1. CASE UNCHANGED sock
  BY <1>1, NoneChanges
<1>2. CASE sock' = [s \in Slots |-> Zombify(sock[s])]
  <2> SUFFICES ASSUME NEW s \in Slots PROVE Truthful(Zombify(sock[s]))
    BY <1>2 DEF Truth, Truthful
  <2> DEFINE k == sock[s]
             f == [d \in Dirs |-> TRUE]
  <2>1. k \in Socks /\ Truthful(k) /\ \A d \in Dirs : f[d]
    BY DEF IInv, TypeOK, Truth
  <2> HIDE DEF k
  <2>2. CASE k.state = "ACTIVE"
    <3>1. Zombify(k) = [k EXCEPT !.state = "ZOMBIE", !.sig = f]
      BY <2>2 DEF Zombify
    <3> HIDE DEF f
    <3>2. Zombify(k).state = "ZOMBIE" /\ Zombify(k).sig = f
      BY <2>1, <3>1 DEF Socks
    <3>3. QED
      BY <2>1, <3>2 DEF Truthful, k
  <2>3. CASE k.state # "ACTIVE"
    BY <2>1, <2>3 DEF Zombify, k
  <2>4. QED
    BY <2>2, <2>3
<1>3. QED
  BY <1>1, <1>2 DEF Term, Abort

LEMMA StepTruth == ASSUME IInv, Truth, [Next]_vars PROVE Truth'
<1>1. CASE UNCHANGED vars
  BY <1>1, NoneChanges DEF vars
<1>2. ASSUME NEW c \in Callers, Continue(c) PROVE Truth'
  BY <1>2, CountTruth, TransferTruth, PollingTruth, ConfigTruth, FreeTruth DEF Continue
<1>3. ASSUME NEW c \in Callers, NEW s \in Slots, Begin(c, s) PROVE Truth'
  <2>1. PICK op \in Ops, mode \in Modes : Enter(c, s, op, mode)
    <3>1. Dirs \cup {"add_ep", "rm_ep", "setopt", "getopt"} \subseteq Ops /\ "forever" \in Modes
      BY DEF Ops, Modes
    <3>2. QED
      BY <1>3, <3>1 DEF Begin
  <2>2. QED
    BY <2>1, CountTruth
<1>4. CASE Calling
  BY <1>2, <1>3, <1>4, SocketTruth, PollingTruth DEF Calling
<1>5. CASE Working
  BY <1>5, EpStoppedTruth, PipeTruth, ProtocolStoppedTruth DEF Working
<1>6. QED
  BY <1>1, <1>4, <1>5, TermTruth, CloseTruth DEF Next

(* For any number of threads, slots and endpoints and any order of calls,  *)
(* a thread blocked in grid_send or grid_recv finds its descriptor         *)
(* signalled once its call can go on, is being closed or the library ends. *)
THEOREM SignalsAreTrue == Spec => []SignalsTellTruth
<1>1. Init => Truth
  BY DEF Init, Truth, Truthful, NoSock
<1>2. IInv /\ Truth /\ [Next]_vars => Truth'
  BY StepTruth
<1>3. Truth => SignalsTellTruth
  BY DEF Truth, Truthful, SignalsTellTruth
<1>4. QED
  BY <1>1, <1>2, <1>3, Invariant, PTL DEF Spec

-----------------------------------------------------------------------------
(***************************************************************************)
(* The assertions of sock.c, in an orderly program.  What grid_close and   *)
(* the workers rely on is a relation of the state of the socket to its     *)
(* endpoints, and to where the threads are that call it.                   *)
(***************************************************************************)

(* A socket has endpoints in use only while it is active, and endpoints    *)
(* that are shutting down only until the protocol is told to stop.         *)
Settled(k) ==
    /\ k.state \notin {"ACTIVE", "STOPPING_EPS"} => k.eps = 0 /\ k.sdeps = 0
    /\ k.state = "STOPPING_EPS" => k.eps = 0

(* Who configures a socket finds it active, and who has passed the first   *)
(* wait of grid_sock_term finds it finished.                               *)
Past == {"relesem", "dispose", "free"}
Placed(r, f) ==
    /\ r.pc \in InCall /\ r.op \notin Dirs => f[r.slot].state = "ACTIVE"
    /\ r.pc \in Past => f[r.slot].state = "FINI"
Unbound(r) == (r.pc \in InCall => r.op \in Dirs) /\ r.pc \notin Past

Orderly == /\ NoAbort
           /\ \A s \in Slots : Settled(sock[s])
           /\ \A c \in Callers : Placed(call[c], sock)

(* The same state and endpoints.                                           *)
Alike(k, j) == j.state = k.state /\ j.eps = k.eps /\ j.sdeps = k.sdeps

LEMMA AlikeSettled == ASSUME NEW k, NEW j, Settled(k), Alike(k, j) PROVE Settled(j)
BY DEF Settled, Alike

LEMMA FieldsAlike ==
  ASSUME NEW k \in Socks, NEW n
  PROVE  /\ Alike(k, OnLeave(k)) /\ Alike(k, Rele(k))
         /\ Alike(k, [k EXCEPT !.holds = n]) /\ Alike(k, [k EXCEPT !.termsem = n])
         /\ Alike(k, [k EXCEPT !.relesem = n]) /\ Alike(k, [k EXCEPT !.disposed = TRUE])
         /\ \A d \in Dirs : /\ Alike(k, [k EXCEPT !.ready[d] = n])
                            /\ Alike(k, OnLeave([k EXCEPT !.ready[d] = n]))
BY DEF Alike, OnLeave, Rele, Socks

(* The threads of C move, and one socket changes: in its state only if no  *)
(* other thread relies on it.                                              *)
LEMMA Moves ==
  ASSUME IInv, Orderly, NEW C \in SUBSET Callers, NEW s \in Slots, NEW k, Settled(k),
         sock' = [sock EXCEPT ![s] = k], failed' = failed,
         \A c \in C : Placed(call'[c], sock'),
         \A d \in Callers \ C : call'[d] = call[d],
         \/ k.state = sock[s].state
         \/ \A d \in Callers \ C : call[d].slot = s => Unbound(call[d])
  PROVE  Orderly'
<1>1. sock'[s] = k /\ \A u \in Slots \ {s} : sock'[u] = sock[u]
  BY DEF IInv, TypeOK
<1>2. \A u \in Slots : Settled(sock'[u])
  BY <1>1 DEF Orderly
<1>3. ASSUME NEW d \in Callers \ C PROVE Placed(call'[d], sock')
  <2>1. call[d].slot \in Slots /\ Placed(call[d], sock) /\ call'[d] = call[d]
    BY DEF IInv, TypeOK, Calls, Orderly
  <2>2. CASE call[d].slot # s
    BY <1>1, <2>1, <2>2 DEF Placed
  <2>3. CASE call[d].slot = s /\ Unbound(call[d])
    BY <2>1, <2>3 DEF Placed, Unbound
  <2>4. CASE call[d].slot = s /\ k.state = sock[s].state
    BY <1>1, <2>1, <2>4 DEF Placed
  <2>5. QED
    BY <2>2, <2>3, <2>4
<1>4. \A c \in Callers : Placed(call'[c], sock')
  BY <1>3
<1>5. QED
  BY <1>2, <1>4 DEF Orderly, NoAbort

(* Nobody relies on a socket that is neither active nor finished.          *)
LEMMA Unrelied ==
  ASSUME Orderly, NEW s, sock[s].state \notin {"ACTIVE", "FINI"}, NEW d \in Callers,
         call[d].slot = s
  PROVE  Unbound(call[d])
BY DEF Orderly, Placed, Unbound

(* A worker changes one socket.                                            *)
LEMMA WorkMoves ==
  ASSUME IInv, Orderly, NEW s \in Slots, NEW k, Settled(k), Changed(s, k),
         k.state = sock[s].state \/ sock[s].state \notin {"ACTIVE", "FINI"}
  PROVE  Orderly'
<1>1. sock' = [sock EXCEPT ![s] = k] /\ call' = call /\ failed' = failed
  BY DEF Changed, NoGlobalChange
<1>2. {} \in SUBSET Callers
  OBVIOUS
<1>3. QED
  BY <1>1, <1>2, Moves, Unrelied

(* A thread goes on, and the sockets keep state and endpoints.             *)
LEMMA CallMoves ==
  ASSUME IInv, Orderly, NEW c \in Callers, NEW s \in Slots, NEW k, Alike(sock[s], k),
         sock' = [sock EXCEPT ![s] = k], failed' = failed,
         NEW r \in Calls, call' = [call EXCEPT ![c] = r], Placed(r, sock)
  PROVE  Orderly'
<1>1. call'[c] = r /\ \A d \in Callers \ {c} : call'[d] = call[d]
  BY DEF IInv, TypeOK
<1>2. \A u \in Slots : sock'[u].state = sock[u].state
  BY DEF IInv, TypeOK, Alike
<1>3. Placed(call'[c], sock') /\ k.state = sock[s].state
  BY <1>1, <1>2 DEF Placed, Calls, Alike
<1>4. Settled(k)
  BY AlikeSettled DEF Orderly
<1>5. {c} \in SUBSET Callers
  OBVIOUS
<1>6. QED
  BY <1>1, <1>3, <1>4, <1>5, Moves

LEMMA ContinuesPlaced ==
  ASSUME Orderly, NEW c \in Callers, NEW r, Continues(call[c], r),
         r.pc = "relesem" => sock[call[c].slot].state = "FINI" \/ r = call[c]
  PROVE  Placed(r, sock)
BY DEF Orderly, Placed, Past, Continues, InCall

(* No socket changes.                                                      *)
LEMMA OnlyCallMoves ==
  ASSUME IInv, Orderly, NEW c \in Callers, UNCHANGED <<sock, failed>>,
         NEW r \in Calls, call' = [call EXCEPT ![c] = r], Placed(r, sock)
  PROVE  Orderly'
<1>1. call[c].slot \in Slots
  BY DEF IInv, TypeOK, Calls
<1>2. PICK s \in Slots : s = call[c].slot
  BY <1>1
<1>3. sock' = [sock EXCEPT ![s] = sock[s]] /\ Alike(sock[s], sock[s])
  BY DEF IInv, TypeOK, Alike
<1>4. QED
  BY <1>3, CallMoves

LEMMA UnchangedMoves == ASSUME Orderly, UNCHANGED <<sock, call, failed>> PROVE Orderly'
BY DEF Orderly, NoAbort

-----------------------------------------------------------------------------
(* The steps of an orderly program.                                        *)

LEMMA TransferOrderly ==
  ASSUME IInv, Orderly, NEW c \in Callers, Transfer(c) PROVE Orderly'
<1>. DEFINE s == call[c].slot
            d == call[c].op
<1>1. s \in Slots /\ sock[s] \in Socks /\ d \in Dirs /\ call[c].pc \in InCall
      /\ call[c].pc = "enter"
  BY DEF Transfer, InContext, InCall, IInv, TypeOK, Calls
<1>2. \E r \in Calls : Continues(call[c], r) /\ call' = [call EXCEPT ![c] = r]
  <2>1. \/ \E res \in {"ok", "ETERM", "EBADF", "EAGAIN"} : Result(c, res)
        \/ call' = [call EXCEPT ![c].pc = "wait"]
    BY DEF Transfer
  <2>2. ASSUME NEW res \in {"ok", "ETERM", "EBADF", "EAGAIN"}, Result(c, res)
        PROVE  \E r \in Calls : Continues(call[c], r) /\ call' = [call EXCEPT ![c] = r]
    BY <1>1, <2>2, ResultContinues DEF Results
  <2>3. QED
    BY <1>1, <2>1, <2>2, PcContinues DEF InCall
<1>3. PICK r \in Calls : Continues(call[c], r) /\ call' = [call EXCEPT ![c] = r]
  BY <1>2
<1>4. Placed(r, sock)
  BY <1>1, <1>3, ContinuesPlaced DEF Continues, InCall
<1>5. \E k : Alike(sock[s], k) /\ sock' = [sock EXCEPT ![s] = k]
  <2>1. \/ sock' = [sock EXCEPT ![s] = OnLeave(sock[s])]
        \/ sock' = [sock EXCEPT ![s] =
                       OnLeave([sock[s] EXCEPT !.ready[d] = sock[s].ready[d] - 1])]
    BY DEF Transfer
  <2>2. QED
    BY <1>1, <2>1, FieldsAlike
<1>6. QED
  BY <1>1, <1>3, <1>4, <1>5, CallMoves DEF Transfer, NoGlobalChange

LEMMA PollingOrderly ==
  ASSUME IInv, Orderly, NEW c \in Callers, WaitFd(c) \/ Woken(c) \/ TimedOut(c)
  PROVE  Orderly'
<1>1. call[c].pc \in InCall /\ UNCHANGED <<sock, failed>>
  BY DEF WaitFd, Woken, TimedOut, InCall, NoGlobalChange
<1>2. \/ \E p \in {"poll", "enter"} : call' = [call EXCEPT ![c].pc = p]
      \/ \E res \in {"EBADF", "ETIMEDOUT"} : Result(c, res)
  BY DEF WaitFd, Woken, TimedOut
<1>3. PICK r \in Calls : Continues(call[c], r) /\ call' = [call EXCEPT ![c] = r]
  BY <1>1, <1>2, PcContinues, ResultContinues DEF InCall, Results
<1>4. Placed(r, sock)
  BY <1>1, <1>3, ContinuesPlaced DEF Continues, InCall
<1>5. QED
  BY <1>1, <1>3, <1>4, OnlyCallMoves

(* Endpoints come and go in an active socket, so that the assertion of     *)
(* grid_optset on the protocol of a finished one is not reached.           *)
LEMMA ConfigOrderly ==
  ASSUME IInv, Orderly, NEW c \in Callers, Configure(c)
  PROVE  Orderly'
<1>. DEFINE s == call[c].slot
            k == sock[s]
<1>1. /\ s \in Slots /\ k \in Socks /\ call[c].pc \in InCall /\ call[c].pc = "enter"
      /\ call[c].op \notin Dirs
  BY DirsAssumption DEF Configure, CreateEp, AddEp, RmEp, SetOpt, GetOpt, InOption,
                        InContext, InCall, IInv, TypeOK, Calls
<1>2. k.state = "ACTIVE"
  BY <1>1 DEF Orderly, Placed
<1>3. NoGlobalChange /\ \E res \in Results : Result(c, res)
  BY <1>2 DEF Configure, CreateEp, AddEp, RmEp, SetOpt, GetOpt, Terminated, OptionDone,
              ProtocolOption, Results
<1>4. PICK r \in Calls : Continues(call[c], r) /\ call' = [call EXCEPT ![c] = r]
  BY <1>1, <1>3, ResultContinues
<1>5. Placed(r, sock)
  BY <1>1, <1>4, ContinuesPlaced DEF Continues, InCall
<1>6. CASE UNCHANGED sock
  BY <1>3, <1>4, <1>5, <1>6, OnlyCallMoves DEF NoGlobalChange
<1>7. ASSUME NEW j \in Socks, j.state = "ACTIVE", sock' = [sock EXCEPT ![s] = OnLeave(j)]
      PROVE  Orderly'
  <2>1. OnLeave(j).state = "ACTIVE"
    BY <1>7, FieldsAlike DEF Alike
  <2>2. Settled(OnLeave(j))
    BY <2>1 DEF Settled
  <2>3. sock'[s].state = "ACTIVE"
    BY <1>1, <1>7, <2>1 DEF IInv, TypeOK
  <2>4. Placed(call'[c], sock')
    BY <1>1, <1>4, <2>3 DEF IInv, TypeOK, Placed, Past, Continues, InCall
  <2>5. \A d \in Callers \ {c} : call'[d] = call[d]
    BY <1>4 DEF IInv, TypeOK
  <2>6. {c} \in SUBSET Callers /\ failed' = failed
    BY <1>3 DEF NoGlobalChange
  <2>7. QED
    BY <1>1, <1>2, <1>7, <2>1, <2>2, <2>4, <2>5, <2>6, Moves
<1>8. ASSUME sock' # sock
      PROVE  \E j \in Socks : j.state = "ACTIVE" /\ sock' = [sock EXCEPT ![s] = OnLeave(j)]
  <2>0. k.eps \in 0..MaxEps /\ k.sdeps \in 0..MaxEps /\ k.eps + k.sdeps <= MaxEps
        /\ MaxEps \in Nat /\ Bounded(k)
    BY <1>1, SocksBounded, SizesAssumption DEF Bounded, Socks
  <2>1. ASSUME NEW m \in 0..MaxEps, NEW n \in 0..MaxEps, m + n <= MaxEps,
               NEW j, j = [k EXCEPT !.eps = m, !.sdeps = n]
        PROVE  j \in Socks /\ j.state = k.state
    <3>1. Bounded(k) /\ k \in Socks
      BY <1>1, <2>0
    <3>. HIDE DEF k
    <3>2. Bounded(j) /\ j.state = k.state
      BY <2>1, <3>1, EpsSteady, ZenonT(60)
    <3>3. QED
      BY <3>2 DEF Bounded
  <2>2. CASE /\ k.eps + k.sdeps < MaxEps
             /\ sock' = [sock EXCEPT ![s] = OnLeave([k EXCEPT !.eps = @ + 1])]
    <3>1. [k EXCEPT !.eps = @ + 1] = [k EXCEPT !.eps = k.eps + 1, !.sdeps = k.sdeps]
      BY <1>1 DEF Socks
    <3>2. k.eps + 1 \in 0..MaxEps /\ k.eps + 1 + k.sdeps <= MaxEps
      BY <2>0, <2>2
    <3>3. QED
      BY <1>2, <2>0, <2>1, <2>2, <3>1, <3>2, ZenonT(60)
  <2>3. CASE /\ k.eps > 0
             /\ sock' = [sock EXCEPT ![s] =
                            OnLeave([k EXCEPT !.eps = @ - 1, !.sdeps = @ + 1])]
    <3>1. k.eps - 1 \in 0..MaxEps /\ k.sdeps + 1 \in 0..MaxEps
          /\ k.eps - 1 + (k.sdeps + 1) <= MaxEps
      BY <2>0, <2>3
    <3>2. QED
      BY <1>2, <2>1, <2>3, <3>1
  <2>4. QED
    BY <1>2, <1>8, <2>2, <2>3 DEF Configure, CreateEp, AddEp, RmEp, SetOpt, GetOpt,
                                  Terminated, OptionDone, ProtocolOption
<1>9. QED
  BY <1>6, <1>7, <1>8

(* Events of the endpoints meet a socket that has some.                    *)
LEMMA EpStoppedOrderly ==
  ASSUME IInv, Orderly, NEW s \in Slots, EpStopped(s) PROVE Orderly'
<1>. DEFINE k == sock[s]
            j == [k EXCEPT !.sdeps = @ - 1]
<1>1. k \in Socks /\ Settled(k) /\ k.sdeps > 0 /\ k.sdeps \in 0..MaxEps /\ MaxEps \in Nat
  BY SocksBounded, SizesAssumption DEF EpStopped, Orderly, Bounded, Socks
<1>2. j.state = k.state /\ j.eps = k.eps /\ j.sdeps = k.sdeps - 1
  BY <1>1 DEF Socks
<1>3. k.state \in {"ACTIVE", "STOPPING_EPS"}
  BY <1>1 DEF Settled
<1>4. CASE k.state = "ACTIVE"
  <2>1. OnLeave(j).state = "ACTIVE" /\ Changed(s, OnLeave(j))
    BY <1>1, <1>2, <1>4 DEF OnLeave, EpStopped, Socks
  <2>. HIDE DEF j
  <2>2. QED
    BY <1>4, <2>1, WorkMoves DEF Settled
<1>5. CASE k.state = "STOPPING_EPS"
  <2>1. k.eps = 0
    BY <1>1, <1>5 DEF Settled
  <2>2. \/ Changed(s, j) /\ j.sdeps > 0
        \/ Changed(s, StopProtocol(j)) /\ j.sdeps = 0
    BY <1>1, <1>2, <1>5, <2>1 DEF EpStopped
  <2>3. Settled(j)
    BY <1>2, <1>5, <2>1 DEF Settled
  <2>4. j.sdeps = 0 => Settled(StopProtocol(j))
    BY <1>1, <1>2, <1>5, <2>1 DEF Settled, StopProtocol, Finished, Socks
  <2>. HIDE DEF j
  <2>5. QED
    BY <1>5, <2>2, <2>3, <2>4, WorkMoves
<1>6. QED
  BY <1>3, <1>4, <1>5

LEMMA PipeOrderly ==
  ASSUME IInv, Orderly, NEW s \in Slots, NEW d \in Dirs, PipeEvent(s, d) \/ PipeGone(s, d)
  PROVE  Orderly'
<1>. DEFINE k == sock[s]
<1>1. k \in Socks /\ Settled(k) /\ k.eps \in Nat /\ k.sdeps \in Nat
  BY SocksBounded, SizesAssumption DEF Orderly, Bounded, Socks
<1>2. \E j : Alike(k, j) /\ Changed(s, j)
  <2>1. CASE PipeEvent(s, d)
    <3>1. k.state \in {"ACTIVE", "STOPPING_EPS"}
      BY <1>1, <2>1 DEF PipeEvent, Settled
    <3>2. Changed(s, k) \/ Changed(s, OnLeave([k EXCEPT !.ready[d] = k.ready[d] + 1]))
      BY <2>1, <3>1 DEF PipeEvent
    <3>3. QED
      BY <1>1, <3>2, FieldsAlike DEF Alike
  <2>2. CASE PipeGone(s, d)
    <3>1. Changed(s, OnLeave([k EXCEPT !.ready[d] = k.ready[d] - 1]))
      BY <2>2 DEF PipeGone
    <3>2. QED
      BY <1>1, <3>1, FieldsAlike
  <2>3. QED
    BY <2>1, <2>2
<1>3. QED
  BY <1>1, <1>2, AlikeSettled, WorkMoves DEF Alike

LEMMA ProtocolStoppedOrderly ==
  ASSUME IInv, Orderly, NEW s \in Slots, ProtocolStopped(s) PROVE Orderly'
<1>1. sock[s] \in Socks /\ Settled(sock[s]) /\ sock[s].state = "STOPPING"
      /\ Changed(s, Finished(sock[s]))
  BY DEF IInv, TypeOK, Orderly, ProtocolStopped
<1>2. Settled(Finished(sock[s]))
  BY <1>1 DEF Settled, Finished, Socks
<1>3. QED
  BY <1>1, <1>2, WorkMoves

(* The two waits of grid_sock_term, and the end of it, whose assertion     *)
(* is that the lists of endpoints are empty.                               *)
LEMMA ClosingOrderly ==
  ASSUME IInv, Orderly, NEW c \in Callers, WaitTerm(c) \/ WaitRele(c) \/ Dispose(c)
  PROVE  Orderly'
<1>. DEFINE s == call[c].slot
            k == sock[s]
<1>1. s \in Slots /\ k \in Socks /\ TermOnce(k) /\ Placed(call[c], sock) /\ Settled(k)
  BY SocksBounded DEF IInv, TypeOK, Calls, Orderly, Bounded
<1>2. k.state = "FINI"
  BY <1>1 DEF WaitTerm, WaitRele, Dispose, TermOnce, Placed, Past
<1>3. k.eps + k.sdeps = 0
  BY <1>1, <1>2 DEF Settled
<1>4. /\ \/ sock' = [sock EXCEPT ![s] = [k EXCEPT !.termsem = k.termsem - 1]]
         \/ sock' = [sock EXCEPT ![s] = [k EXCEPT !.relesem = k.relesem - 1]]
         \/ sock' = [sock EXCEPT ![s] = [k EXCEPT !.disposed = TRUE]]
      /\ \E p \in Past : call' = [call EXCEPT ![c].pc = p]
      /\ NoGlobalChange
  BY <1>3 DEF WaitTerm, WaitRele, Dispose, Past
<1>5. \E j : Alike(k, j) /\ sock' = [sock EXCEPT ![s] = j]
  BY <1>1, <1>4, FieldsAlike
<1>6. PICK p \in Past : call' = [call EXCEPT ![c].pc = p]
  BY <1>4
<1>7. [call[c] EXCEPT !.pc = p] \in Calls /\ Placed([call[c] EXCEPT !.pc = p], sock)
  BY <1>2 DEF IInv, TypeOK, Calls, Past, InCall, InClose, Placed
<1>8. QED
  BY <1>1, <1>4, <1>5, <1>6, <1>7, CallMoves DEF NoGlobalChange

(* The slot is free again when nobody else relies on it.                   *)
LEMMA FreeOrderly == ASSUME IInv, Orderly, NEW c \in Callers, Free(c) PROVE Orderly'
<1>1. call[c].pc = "free"
  BY DEF Free, GlobalTerm
<1>2. PICK s \in Slots : s = call[c].slot /\ ClosersOf(s) = {c}
  BY <1>1, Closer DEF InClose
<1>3. sock[s].state = "FINI"
  BY <1>1, <1>2 DEF Orderly, Placed, Past
<1>4. ASSUME NEW d \in Callers \ {c}, call[d].slot = s PROVE Unbound(call[d])
  <2>1. call[d].pc \in InCall => call[d].op \in Dirs
    BY <1>3, <1>4 DEF Orderly, Placed
  <2>2. call[d].pc \notin Past
    BY <1>2, <1>4 DEF ClosersOf, IInv, CallInv, InClose, Past
  <2>3. QED
    BY <2>1, <2>2 DEF Unbound
<1>5. Settled(NoSock)
  BY DEF Settled, NoSock
<1>6. /\ sock' = [sock EXCEPT ![s] = NoSock] /\ failed' = failed
      /\ call' = [call EXCEPT ![c] = Ended("ok")]
  BY <1>2 DEF Free, GlobalTerm
<1>7. Placed(call'[c], sock')
  BY <1>6, IdleCalls DEF IInv, TypeOK, Placed, InCall, Past, Results
<1>8. /\ {c} \in SUBSET Callers
      /\ \A d \in Callers \ {c} : call'[d] = call[d]
  BY <1>6 DEF IInv, TypeOK
<1>9. QED
  BY <1>4, <1>5, <1>6, <1>7, <1>8, Moves

(* The last section of a call, and one that is refused.                    *)
LEMMA LeaveOrderly == ASSUME IInv, Orderly, NEW c \in Callers, Leave(c) PROVE Orderly'
<1>. DEFINE s == call[c].slot
<1>1. s \in Slots /\ sock[s] \in Socks /\ call[c].res \in Results
  BY DEF IInv, TypeOK, Calls
<1>2. sock' = [sock EXCEPT ![s] = Rele(sock[s])] /\ failed' = failed
      /\ call' = [call EXCEPT ![c] = Ended(call[c].res)]
  BY DEF Leave, NoGlobalChange
<1>3. Ended(call[c].res) \in Calls /\ Placed(Ended(call[c].res), sock)
  BY <1>1, IdleCalls DEF Placed, InCall, Past
<1>4. Alike(sock[s], Rele(sock[s]))
  BY <1>1, FieldsAlike
<1>5. QED
  BY <1>1, <1>2, <1>3, <1>4, CallMoves

LEMMA RefusedOrderly ==
  ASSUME IInv, Orderly, NEW c \in Callers, UNCHANGED <<sock, failed>>,
         NEW r \in Calls, r.pc = "idle", call' = [call EXCEPT ![c] = r]
  PROVE  Orderly'
<1>1. Placed(r, sock)
  BY DEF Placed, InCall, Past
<1>2. QED
  BY <1>1, OnlyCallMoves

(* A call is admitted while its socket is active.                          *)
LEMMA EnterOrderly ==
  ASSUME IInv, Orderly, NEW c \in Callers, NEW s \in Slots, NEW op \in Ops,
         NEW mode \in Modes, Enter(c, s, op, mode)
  PROVE  Orderly'
<1>1. failed' = failed
  BY DEF Enter, NoGlobalChange
<1>2. CASE HoldResult(s) # "ok"
  <2>1. UNCHANGED sock /\ call' = [call EXCEPT ![c] = Ended(HoldResult(s))]
    BY <1>2 DEF Enter
  <2>2. QED
    BY <1>1, <2>1, IdleCalls, HoldResultType, RefusedOrderly
<1>3. CASE HoldResult(s) = "ok"
  <2>. DEFINE r == [Idle EXCEPT !.pc = "enter", !.slot = s, !.op = op, !.mode = mode]
  <2>1. sock' = [sock EXCEPT ![s] = [sock[s] EXCEPT !.holds = sock[s].holds + 1]]
        /\ call' = [call EXCEPT ![c] = r]
    BY <1>3 DEF Enter
  <2>2. r \in Calls /\ r.slot = s /\ r.pc = "enter"
    BY DEF Idle, Calls, InCall, Results
  <2>3. sock[s].state = "ACTIVE" /\ sock[s] \in Socks
    BY <1>3, HeldIsActive DEF IInv, TypeOK
  <2>. HIDE DEF r
  <2>4. Placed(r, sock)
    BY <2>2, <2>3 DEF Placed, Past
  <2>5. Alike(sock[s], [sock[s] EXCEPT !.holds = sock[s].holds + 1])
    BY <2>3, FieldsAlike
  <2>6. QED
    BY <1>1, <2>1, <2>2, <2>4, <2>5, CallMoves
<1>4. QED
  BY <1>2, <1>3

(* A slot that is given out was free, so that nobody relies on it.         *)
LEMMA SocketOrderly == ASSUME IInv, Orderly, NEW c \in Callers, Socket(c) PROVE Orderly'
<1>. DEFINE s == unused[MaxSockets - nsocks - 1]
<1>1. failed' = failed /\ call[c].pc = "idle"
  BY DEF Socket
<1>2. PICK res \in Results : call' = [call EXCEPT ![c] = Ended(res)]
  BY DEF Socket, Results
<1>3. Ended(res) \in Calls /\ Ended(res).pc = "idle"
  BY IdleCalls
<1>4. CASE UNCHANGED sock
  BY <1>1, <1>2, <1>3, <1>4, RefusedOrderly
<1>5. ASSUME NEW once \in BOOLEAN, nsocks < MaxSockets,
             sock' = [sock EXCEPT ![s] = Created(once)]
      PROVE  Orderly'
  <2>1. s \in Slots /\ sock[s].state = "NONE"
    <3>1. MaxSockets - nsocks - 1 \in FreePart /\ FreePart \subseteq Slots
      BY <1>5, SizesAssumption DEF IInv, TypeOK, FreePart, Slots
    <3>2. s \in FreeSlots
      BY <3>1 DEF IInv, TableInv
    <3>3. QED
      BY <3>2 DEF FreeSlots
  <2>2. Settled(Created(once))
    BY DEF Settled, Created, NoSock
  <2>3. Placed(call'[c], sock') /\ \A d \in Callers \ {c} : call'[d] = call[d]
    BY <1>2, <1>3 DEF IInv, TypeOK, Placed, InCall, Past
  <2>4. {c} \in SUBSET Callers
    OBVIOUS
  <2>5. \A d \in Callers \ {c} : call[d].slot = s => Unbound(call[d])
    BY <2>1, Unrelied
  <2>6. QED
    BY <1>1, <1>5, <2>1, <2>2, <2>3, <2>4, <2>5, Moves
<1>6. QED
  BY <1>4, <1>5 DEF Socket

(* grid_sock_stop tells every endpoint to stop, and the protocol when      *)
(* there is none.                                                          *)
LEMMA StopSettled ==
  ASSUME NEW k \in Socks
  PROVE  Settled(StopAndRele(k))
<1>. DEFINE f == [d \in Dirs |-> TRUE]
            h == [k EXCEPT !.holds = @ + 1]
            j == [h EXCEPT !.state = "STOPPING_EPS", !.eps = 0,
                           !.sdeps = h.eps + h.sdeps, !.sig = f]
            s == Stop(h)
<1>1. s = IF j.sdeps = 0 THEN StopProtocol(j) ELSE j
  BY DEF Stop
<1>. HIDE DEF f
<1>2. j.eps = 0 /\ j.state = "STOPPING_EPS"
  BY DEF Socks
<1>3. /\ Finished(j).state = "FINI" /\ Finished(j).eps = 0 /\ Finished(j).sdeps = j.sdeps
      /\ StopProtocol(j).state \in {"FINI", "STOPPING"}
      /\ StopProtocol(j).eps = 0 /\ StopProtocol(j).sdeps = j.sdeps
  BY DEF Finished, StopProtocol, Socks
<1>4. Settled(s)
  <2>. HIDE DEF j, s
  <2>1. QED
    BY <1>1, <1>2, <1>3 DEF Settled
<1>5. Alike(s, Rele(s)) /\ Alike(s, Rele(Rele(s)))
  BY DEF Alike, Rele, Stop, StopProtocol, Finished, Socks
<1>6. QED
  BY <1>4, <1>5, AlikeSettled DEF StopAndRele

(* grid_close, in a program in which nobody configures the socket.         *)
LEMMA CloseOrderly ==
  ASSUME IInv, Orderly, NEW c \in Callers, NEW s \in Slots, Quiet(s), Close(c, s)
  PROVE  Orderly'
<1>1. failed' = failed
  BY DEF Close, NoGlobalChange
<1>2. CASE HoldResult(s) # "ok"
  <2>. DEFINE r == [Ended(HoldResult(s)) EXCEPT !.op = "close"]
  <2>1. UNCHANGED sock /\ call' = [call EXCEPT ![c] = r]
    BY <1>2 DEF Close
  <2>2. r \in Calls /\ r.pc = "idle"
    BY IdleCalls, HoldResultType DEF Calls, Ops
  <2>3. QED
    BY <1>1, <2>1, <2>2, RefusedOrderly
<1>3. CASE HoldResult(s) = "ok"
  <2>. DEFINE k == StopAndRele(sock[s])
  <2>1. /\ sock' = [sock EXCEPT ![s] = k]
        /\ call' = [call EXCEPT ![c] =
                       [Idle EXCEPT !.pc = "termsem", !.slot = s, !.op = "close"]]
    BY <1>3 DEF Close
  <2>2. Settled(k)
    BY StopSettled DEF IInv, TypeOK
  <2>3. Placed(call'[c], sock') /\ \A d \in Callers \ {c} : call'[d] = call[d]
    BY <2>1 DEF IInv, TypeOK, Placed, InCall, Past, Idle
  <2>4. sock[s].state = "ACTIVE"
    BY <1>3, HeldIsActive
  <2>5. \A d \in Callers \ {c} : call[d].slot = s => Unbound(call[d])
    BY <2>4 DEF Quiet, Orderly, Placed, Unbound
  <2>6. {c} \in SUBSET Callers
    OBVIOUS
  <2>7. QED
    BY <1>1, <2>1, <2>2, <2>3, <2>5, <2>6, Moves
<1>4. QED
  BY <1>2, <1>3

(* grid_term, when no socket is being closed or has endpoints.             *)
LEMMA TermOrderly ==
  ASSUME IInv, Orderly, \A s \in Slots : Calm(s), Term
  PROVE  Orderly'
<1>1. \A s \in Slots : /\ Quiet(s) /\ sock[s].state \notin Closing
                       /\ sock[s].eps = 0 /\ sock[s].sdeps = 0 /\ sock[s] \in Socks
  BY SizesAssumption DEF Calm, IInv, TypeOK, Socks
<1>2. UNCHANGED <<call, failed>> /\ sock' = [s \in Slots |-> Zombify(sock[s])]
  BY <1>1 DEF Term, Closing
<1>3. ASSUME NEW s \in Slots PROVE Settled(sock'[s])
  <2>1. Zombify(sock[s]).eps = 0 /\ Zombify(sock[s]).sdeps = 0
    BY <1>1 DEF Zombify, Socks
  <2>2. QED
    BY <1>2, <2>1 DEF Settled
<1>4. ASSUME NEW c \in Callers PROVE Placed(call'[c], sock')
  <2>1. call[c].slot \in Slots
    BY DEF IInv, TypeOK, Calls
  <2>2. Unbound(call[c])
    BY <1>1, <2>1 DEF Quiet, Orderly, Placed, Unbound, Closing
  <2>3. QED
    BY <1>2, <2>2 DEF Unbound, Placed
<1>5. QED
  BY <1>2, <1>3, <1>4 DEF Orderly, NoAbort

LEMMA StepOrderly ==
  ASSUME IInv, Orderly, [OrderlyNext]_vars
  PROVE  Orderly'
<1>1. CASE UNCHANGED vars
  BY <1>1, UnchangedMoves DEF vars
<1>2. ASSUME NEW c \in Callers, Continue(c) PROVE Orderly'
  BY <1>2, LeaveOrderly, TransferOrderly, PollingOrderly, ConfigOrderly, ClosingOrderly,
     FreeOrderly DEF Continue
<1>3. ASSUME NEW c \in Callers, NEW s \in Slots, Begin(c, s) PROVE Orderly'
  <2>1. PICK op \in Ops, mode \in Modes : Enter(c, s, op, mode)
    <3>1. Dirs \cup {"add_ep", "rm_ep", "setopt", "getopt"} \subseteq Ops /\ "forever" \in Modes
      BY DEF Ops, Modes
    <3>2. QED
      BY <1>3, <3>1 DEF Begin
  <2>2. QED
    BY <2>1, EnterOrderly
<1>4. CASE Calling
  BY <1>2, <1>3, <1>4, SocketOrderly, PollingOrderly DEF Calling
<1>5. CASE Working
  BY <1>5, EpStoppedOrderly, PipeOrderly, ProtocolStoppedOrderly DEF Working
<1>6. QED
  BY <1>1, <1>4, <1>5, TermOrderly, CloseOrderly DEF OrderlyNext

(* In an orderly program no assertion of sock.c, of the protocol's base or *)
(* of the list of endpoints fails, for any number of threads, sockets and  *)
(* endpoints: events find a socket that can take them, grid_sock_term      *)
(* finds its lists empty.                                                  *)
THEOREM NothingAborts == OrderlySpec => []NoAbort
<1>1. Init => Orderly
  BY DEF Init, Orderly, NoAbort, Settled, NoSock, Placed, Idle, InCall, Past
<1>2. IInv /\ Orderly /\ [OrderlyNext]_vars => Orderly'
  BY StepOrderly
<1>3. Orderly => NoAbort
  BY DEF Orderly
<1>4. QED
  BY <1>1, <1>2, <1>3, OrderlyIsSpec, Invariant, PTL DEF OrderlySpec
=============================================================================
