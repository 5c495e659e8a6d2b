---------------------------- MODULE WorkerProofs ----------------------------
(***************************************************************************)
(* The worker thread with its task queue and its timer set, for any number *)
(* of timers and any timeouts: the assertions of timer.c and queue.c hold, *)
(* no wakeup is lost, expiries come in order and never early, and each     *)
(* timer behaves like the timer of Timer, which has a worker of its own.   *)
(***************************************************************************)
EXTENDS Worker, TimerLemmas, WellFoundedInduction

-----------------------------------------------------------------------------
(* Sequences, by their elements.                                           *)

LEMMA SeqFacts ==
  ASSUME NEW S, NEW q \in Seq(S)
  PROVE  /\ Len(q) \in Nat /\ DOMAIN q = 1..Len(q)
         /\ \A i \in 1..Len(q) : q[i] \in S
         /\ q = << >> <=> Len(q) = 0
BY LenProperties, EmptySeq

LEMMA TailFacts ==
  ASSUME NEW S, NEW q \in Seq(S), q # << >>
  PROVE  /\ Head(q) = q[1] /\ Head(q) \in S
         /\ Tail(q) \in Seq(S) /\ DOMAIN Tail(q) = 1..Len(q) - 1
         /\ \A i \in 1..Len(q) - 1 : Tail(q)[i] = q[i + 1]
         /\ DOMAIN q = 1..Len(q) /\ Len(q) \in Nat /\ Len(q) > 0
<1>1. Len(q) \in Nat /\ Len(q) > 0 /\ DOMAIN q = 1..Len(q)
  BY SeqFacts
<1>2. /\ Head(q) = q[1] /\ Tail(q) \in Seq(S) /\ Len(Tail(q)) = Len(q) - 1
      /\ \A i \in 1..Len(Tail(q)) : Tail(q)[i] = q[i + 1]
  BY HeadTailProperties
<1>3. Head(q) \in S
  BY <1>1, <1>2, SeqFacts
<1>4. DOMAIN Tail(q) = 1..Len(q) - 1
  BY <1>2, SeqFacts
<1>5. QED
  BY <1>1, <1>2, <1>3, <1>4

LEMMA AppendFacts ==
  ASSUME NEW S, NEW q \in Seq(S), NEW e \in S
  PROVE  /\ Append(q, e) \in Seq(S) /\ DOMAIN Append(q, e) = 1..Len(q) + 1
         /\ \A i \in 1..Len(q) : Append(q, e)[i] = q[i]
         /\ Append(q, e)[Len(q) + 1] = e
         /\ DOMAIN q = 1..Len(q) /\ Len(q) \in Nat
<1>1. /\ Append(q, e) \in Seq(S) /\ Len(Append(q, e)) = Len(q) + 1
      /\ \A i \in 1..Len(q) : Append(q, e)[i] = q[i]
      /\ Append(q, e)[Len(q) + 1] = e
  BY AppendProperties
<1>2. DOMAIN Append(q, e) = 1..Len(q) + 1 /\ DOMAIN q = 1..Len(q) /\ Len(q) \in Nat
  BY <1>1, SeqFacts
<1>3. QED
  BY <1>1, <1>2

(* A piece of a sequence from its beginning, and one to its end.           *)
LEMMA Pieces ==
  ASSUME NEW S, NEW q \in Seq(S), NEW a \in Nat, NEW b \in 1..Len(q) + 1, a <= Len(q)
  PROVE  /\ SubSeq(q, 1, a) \in Seq(S) /\ Len(SubSeq(q, 1, a)) = a
         /\ \A i \in 1..a : SubSeq(q, 1, a)[i] = q[i]
         /\ SubSeq(q, b, Len(q)) \in Seq(S) /\ Len(SubSeq(q, b, Len(q))) = Len(q) - b + 1
         /\ \A i \in 1..Len(q) - b + 1 : SubSeq(q, b, Len(q))[i] = q[b + i - 1]
<1>0. Len(q) \in Nat /\ \A i \in 1..Len(q) : q[i] \in S
  BY SeqFacts
<1>1. 1 \in Int /\ a \in Int /\ \A i \in 1..a : q[i] \in S
  BY <1>0
<1>2. /\ SubSeq(q, 1, a) \in Seq(S)
      /\ Len(SubSeq(q, 1, a)) = IF 1 <= a THEN a - 1 + 1 ELSE 0
      /\ \A i \in 1..a - 1 + 1 : SubSeq(q, 1, a)[i] = q[1 + i - 1]
  BY <1>1, SubSeqProperties
<1>3. b \in Int /\ Len(q) \in Int /\ \A i \in b..Len(q) : q[i] \in S
  BY <1>0
<1>4. /\ SubSeq(q, b, Len(q)) \in Seq(S)
      /\ Len(SubSeq(q, b, Len(q))) = IF b <= Len(q) THEN Len(q) - b + 1 ELSE 0
      /\ \A i \in 1..Len(q) - b + 1 : SubSeq(q, b, Len(q))[i] = q[b + i - 1]
  BY <1>3, SubSeqProperties
<1>5. QED
  BY <1>0, <1>2, <1>4

(* grid_list_erase *)
LEMMA Removed ==
  ASSUME NEW S, NEW q \in Seq(S), NEW e \in 1..Len(q)
  PROVE  /\ RemoveAt(q, e) \in Seq(S) /\ DOMAIN RemoveAt(q, e) = 1..Len(q) - 1
         /\ \A i \in 1..Len(q) - 1 : RemoveAt(q, e)[i] = IF i < e THEN q[i] ELSE q[i + 1]
<1>0. PICK n \in Nat : n = Len(q) /\ e \in 1..n
  BY SeqFacts
<1>. DEFINE a == SubSeq(q, 1, e - 1)
            b == SubSeq(q, e + 1, Len(q))
            r == a \o b
<1>1. /\ a \in Seq(S) /\ Len(a) = e - 1 /\ \A i \in 1..e - 1 : a[i] = q[i]
      /\ b \in Seq(S) /\ Len(b) = n - (e + 1) + 1
      /\ \A i \in 1..n - (e + 1) + 1 : b[i] = q[e + 1 + i - 1]
  BY <1>0, Pieces, SMTT(30)
<1>. HIDE DEF a, b
<1>2. /\ r \in Seq(S) /\ Len(r) = Len(a) + Len(b)
      /\ \A i \in 1..Len(a) + Len(b) : r[i] = IF i <= Len(a) THEN a[i] ELSE b[i - Len(a)]
  BY <1>1, ConcatProperties
<1>. HIDE DEF r
<1>3. Len(r) = n - 1
  BY <1>0, <1>1, <1>2
<1>4. ASSUME NEW i \in 1..n - 1
      PROVE  r[i] = IF i < e THEN q[i] ELSE q[i + 1]
  <2>1. r[i] = IF i <= e - 1 THEN a[i] ELSE b[i - (e - 1)]
    BY <1>0, <1>1, <1>2
  <2>2. CASE i < e
    BY <2>1, <2>2, <1>0, <1>1
  <2>3. CASE ~(i < e)
    <3>1. i - (e - 1) \in 1..n - (e + 1) + 1 /\ e + 1 + (i - (e - 1)) - 1 = i + 1
          /\ ~(i <= e - 1)
      BY <2>3, <1>0
    <3>2. QED
      BY <3>1, <2>1, <2>3, <1>1
  <2>4. QED
    BY <2>2, <2>3
<1>5. DOMAIN r = 1..n - 1
  BY <1>2, <1>3, SeqFacts
<1>6. RemoveAt(q, e) = r
  BY DEF RemoveAt, r, a, b
<1>7. QED
  BY <1>0, <1>2, <1>4, <1>5, <1>6

(* grid_list_insert *)
LEMMA Inserted ==
  ASSUME NEW S, NEW q \in Seq(S), NEW k \in 1..Len(q) + 1, NEW e \in S
  PROVE  /\ InsertAt(q, k, e) \in Seq(S) /\ DOMAIN InsertAt(q, k, e) = 1..Len(q) + 1
         /\ \A i \in 1..Len(q) + 1 :
               InsertAt(q, k, e)[i] = IF i < k THEN q[i] ELSE IF i = k THEN e ELSE q[i - 1]
<1>0. PICK n \in Nat : n = Len(q) /\ k \in 1..n + 1
  BY SeqFacts
<1>. DEFINE a == SubSeq(q, 1, k - 1)
            b == SubSeq(q, k, Len(q))
            c == Append(a, e)
            r == c \o b
<1>1. /\ a \in Seq(S) /\ Len(a) = k - 1 /\ \A i \in 1..k - 1 : a[i] = q[i]
      /\ b \in Seq(S) /\ Len(b) = n - k + 1
      /\ \A i \in 1..n - k + 1 : b[i] = q[k + i - 1]
  BY <1>0, Pieces
<1>2. /\ a \o <<e>> = c
  BY <1>1, AppendIsConcat
<1>. HIDE DEF a, b
<1>3. /\ c \in Seq(S) /\ Len(c) = k /\ c[k] = e
      /\ \A i \in 1..k - 1 : c[i] = a[i]
  <2>1. /\ c \in Seq(S) /\ Len(c) = Len(a) + 1
        /\ \A i \in 1..Len(a) : c[i] = a[i]
        /\ c[Len(a) + 1] = e
    BY <1>1, AppendProperties
  <2>2. QED
    BY <2>1, <1>1, <1>0
<1>. HIDE DEF c
<1>4. /\ r \in Seq(S) /\ Len(r) = Len(c) + Len(b)
      /\ \A i \in 1..Len(c) + Len(b) : r[i] = IF i <= Len(c) THEN c[i] ELSE b[i - Len(c)]
  BY <1>1, <1>3, ConcatProperties
<1>. HIDE DEF r
<1>5. Len(r) = n + 1
  BY <1>0, <1>1, <1>3, <1>4
<1>6. ASSUME NEW i \in 1..n + 1
      PROVE  r[i] = IF i < k THEN q[i] ELSE IF i = k THEN e ELSE q[i - 1]
  <2>1. r[i] = IF i <= k THEN c[i] ELSE b[i - k]
    BY <1>0, <1>1, <1>3, <1>4
  <2>2. CASE i < k
    <3>1. i \in 1..k - 1 /\ i <= k
      BY <2>2, <1>0
    <3>2. QED
      BY <3>1, <2>1, <2>2, <1>1, <1>3
  <2>5. CASE i = k
    <3>1. i <= k /\ ~(i < k)
      BY <2>5, <1>0
    <3>2. QED
      BY <3>1, <2>1, <2>5, <1>3
  <2>3. CASE ~(i <= k)
    <3>1. i - k \in 1..n - k + 1 /\ k + (i - k) - 1 = i - 1 /\ ~(i < k) /\ i # k
      BY <2>3, <1>0
    <3>2. QED
      BY <3>1, <2>1, <2>3, <1>1
  <2>4. QED
    BY <2>2, <2>3, <2>5, <1>0
<1>7. DOMAIN r = 1..n + 1
  BY <1>4, <1>5, SeqFacts
<1>8. InsertAt(q, k, e) = r
  BY <1>2 DEF InsertAt, r, a, b, c
<1>9. QED
  BY <1>0, <1>4, <1>6, <1>7, <1>8

LEMMA LeastNat ==
  ASSUME NEW S \in SUBSET Nat, S # {}
  PROVE  \E x \in S : \A y \in S : x <= y
<1>1. PICK x \in S : \A y \in S : ~(<<y, x>> \in OpToRel(<, Nat))
  BY NatLessThanWellFounded, WFMin
<1>2. \A y \in Nat : y < x => <<y, x>> \in OpToRel(<, Nat)
  BY DEF OpToRel
<1>3. \A y \in S : ~(y < x) /\ y \in Nat /\ x \in Nat
  BY <1>1, <1>2
<1>4. QED
  BY <1>3

-----------------------------------------------------------------------------
(* The timer set: what it holds, and in which order.                       *)

Entries == [timer : TimerId, left : Nat]
Entry(t, n) == [timer |-> t, left |-> n]
InSet(ts, t) == \E i \in DOMAIN ts : ts[i].timer = t
Sorted(ts) == \A i, j \in DOMAIN ts :
                 i < j => ts[i].left <= ts[j].left /\ ts[i].timer # ts[j].timer

LEMMA AddSorted ==
  ASSUME NEW ts \in Seq(Entries), Sorted(ts), NEW t \in TimerId, NEW n \in Nat, ~InSet(ts, t)
  PROVE  /\ TimersetAdd(ts, t, n) \in Seq(Entries) /\ Sorted(TimersetAdd(ts, t, n))
         /\ \A u : InSet(TimersetAdd(ts, t, n), u) <=> InSet(ts, u) \/ u = t
         /\ \A i \in DOMAIN TimersetAdd(ts, t, n) :
               \/ TimersetAdd(ts, t, n)[i] = Entry(t, n)
               \/ \E j \in DOMAIN ts : TimersetAdd(ts, t, n)[i] = ts[j]
<1>. DEFINE later == {i \in DOMAIN ts : n < ts[i].left}
            at    == IF later = {} THEN Len(ts) + 1
                     ELSE CHOOSE i \in later : \A j \in later : i <= j
            r     == TimersetAdd(ts, t, n)
<1>0. PICK m \in Nat : m = Len(ts) /\ DOMAIN ts = 1..m /\ \A i \in 1..m : ts[i] \in Entries
  BY SeqFacts
<1>1. /\ at \in 1..m + 1
      /\ at # m + 1 => n < ts[at].left
      /\ \A i \in 1..m : i < at => ts[i].left <= n
  <2>1. CASE later = {}
    BY <2>1, <1>0 DEF Entries
  <2>2. CASE later # {}
    <3>1. later \subseteq Nat
      BY <1>0
    <3>2. \E x \in later : \A y \in later : x <= y
      BY <3>1, <2>2, LeastNat
    <3>3. at \in later /\ \A y \in later : at <= y
      BY <3>2, <2>2
    <3>4. at \in 1..m /\ n < ts[at].left
      BY <3>3, <1>0
    <3>5. ASSUME NEW i \in 1..m, i < at, ~(ts[i].left <= n)
          PROVE  FALSE
      <4>1. i \in later
        BY <3>5, <1>0 DEF Entries
      <4>. HIDE DEF at, later
      <4>2. at <= i /\ at \in Nat /\ i \in Nat
        BY <4>1, <3>3, <3>4
      <4>3. QED
        BY <4>2, <3>5
    <3>. HIDE DEF at, later
    <3>6. QED
      BY <3>4, <3>5
  <2>3. QED
    BY <2>1, <2>2
<1>2. r = InsertAt(ts, at, Entry(t, n))
  BY DEF TimersetAdd, Entry
<1>3. Entry(t, n) \in Entries /\ Entry(t, n).timer = t /\ Entry(t, n).left = n
  BY DEF Entry, Entries
<1>. HIDE DEF at, later, r
<1>4. /\ r \in Seq(Entries) /\ DOMAIN r = 1..m + 1
      /\ \A i \in 1..m + 1 :
            r[i] = IF i < at THEN ts[i] ELSE IF i = at THEN Entry(t, n) ELSE ts[i - 1]
  <2>1. at \in 1..Len(ts) + 1 /\ Entry(t, n) \in Entries
    BY <1>0, <1>1, <1>3
  <2>2. PICK k \in 1..Len(ts) + 1, e \in Entries : k = at /\ e = Entry(t, n)
    BY <2>1, Zenon
  <2>3. /\ InsertAt(ts, k, e) \in Seq(Entries) /\ DOMAIN InsertAt(ts, k, e) = 1..Len(ts) + 1
        /\ \A i \in 1..Len(ts) + 1 :
              InsertAt(ts, k, e)[i] = IF i < k THEN ts[i] ELSE IF i = k THEN e ELSE ts[i - 1]
    BY Inserted, SMTT(30)
  <2>4. r = InsertAt(ts, k, e)
    BY <1>2, <2>2, Zenon
  <2>5. /\ r \in Seq(Entries) /\ DOMAIN r = 1..m + 1
        /\ \A i \in 1..m + 1 : r[i] = IF i < k THEN ts[i] ELSE IF i = k THEN e ELSE ts[i - 1]
    BY <2>3, <2>4, <1>0, Zenon
  <2>6. QED
    BY <2>5, <2>2, Zenon
<1>5. ASSUME NEW i \in 1..m + 1, NEW j \in 1..m + 1, i < j
      PROVE  r[i].left <= r[j].left /\ r[i].timer # r[j].timer
  <2>0. /\ \A x \in 1..m : ts[x].left \in Nat /\ ts[x].timer # t
        /\ \A x, y \in 1..m : x < y => ts[x].left <= ts[y].left /\ ts[x].timer # ts[y].timer
    BY <1>0 DEF Entries, Sorted, InSet
  <2>1. CASE i < at /\ j < at
    <3>1. i \in 1..m /\ j \in 1..m /\ r[i] = ts[i] /\ r[j] = ts[j]
      BY <2>1, <1>0, <1>1, <1>4
    <3>2. QED
      BY <3>1, <2>0, <1>5
  <2>2. CASE i < at /\ j = at
    <3>1. i \in 1..m /\ r[i] = ts[i] /\ r[j] = Entry(t, n)
      BY <2>2, <1>0, <1>1, <1>4
    <3>2. QED
      BY <3>1, <2>0, <2>2, <1>1, <1>3
  <2>3. CASE i < at /\ at < j
    <3>1. /\ i \in 1..m /\ j - 1 \in 1..m /\ i < j - 1
          /\ r[i] = ts[i] /\ r[j] = ts[j - 1]
      BY <2>3, <1>0, <1>1, <1>4
    <3>2. QED
      BY <3>1, <2>0
  <2>4. CASE i = at
    <3>1. /\ at \in 1..m /\ j - 1 \in 1..m /\ (at = j - 1 \/ at < j - 1)
          /\ r[i] = Entry(t, n) /\ r[j] = ts[j - 1]
      BY <2>4, <1>0, <1>1, <1>4, <1>5
    <3>2. n < ts[at].left /\ ts[at].left <= ts[j - 1].left
      BY <3>1, <2>0, <1>0, <1>1
    <3>3. n <= ts[j - 1].left
      BY <3>1, <3>2, <2>0, SMTT(30)
    <3>4. QED
      BY <3>1, <3>3, <2>0, <1>3
  <2>5. CASE at < i
    <3>1. /\ i - 1 \in 1..m /\ j - 1 \in 1..m /\ i - 1 < j - 1
          /\ r[i] = ts[i - 1] /\ r[j] = ts[j - 1]
      BY <2>5, <1>0, <1>1, <1>4, <1>5
    <3>2. QED
      BY <3>1, <2>0
  <2>6. QED
    BY <2>1, <2>2, <2>3, <2>4, <2>5, <1>1, <1>5, <1>0
<1>6. \A i \in 1..m + 1 : r[i] = Entry(t, n) \/ \E j \in 1..m : r[i] = ts[j]
  <2>1. ASSUME NEW i \in 1..m + 1
        PROVE  \/ i = at \/ (i < at /\ i \in 1..m) \/ (at < i /\ i - 1 \in 1..m)
    BY <1>0, <1>1
  <2>2. QED
    BY <2>1, <1>1, <1>4
<1>7. ASSUME NEW j \in 1..m PROVE \E i \in 1..m + 1 : r[i] = ts[j]
  <2>1. CASE j < at
    BY <2>1, <1>0, <1>4
  <2>2. CASE ~(j < at)
    <3>1. /\ j + 1 \in 1..m + 1 /\ ~(j + 1 < at) /\ j + 1 # at /\ j + 1 - 1 = j
      BY <2>2, <1>0, <1>1
    <3>2. r[j + 1] = ts[j]
      BY <3>1, <1>4
    <3>3. QED
      BY <3>1, <3>2
  <2>3. QED
    BY <2>1, <2>2
<1>8. r[at] = Entry(t, n)
  BY <1>0, <1>1, <1>4
<1>9. \A u : InSet(r, u) <=> InSet(ts, u) \/ u = t
  <2>1. ASSUME NEW u, InSet(r, u) PROVE InSet(ts, u) \/ u = t
    BY <2>1, <1>0, <1>3, <1>4, <1>6, ZenonT(60) DEF InSet
  <2>2. ASSUME NEW u, InSet(ts, u) PROVE InSet(r, u)
    BY <2>2, <1>0, <1>4, <1>7 DEF InSet
  <2>3. InSet(r, t)
    BY <1>0, <1>1, <1>3, <1>4, <1>8 DEF InSet
  <2>4. QED
    BY <2>1, <2>2, <2>3
<1>10. Sorted(r)
  BY <1>4, <1>5 DEF Sorted
<1>11. QED
  BY <1>0, <1>4, <1>6, <1>9, <1>10 DEF r

LEMMA RmSorted ==
  ASSUME NEW ts \in Seq(Entries), Sorted(ts), NEW t \in TimerId
  PROVE  /\ TimersetRm(ts, t) \in Seq(Entries) /\ Sorted(TimersetRm(ts, t))
         /\ \A u : InSet(TimersetRm(ts, t), u) <=> InSet(ts, u) /\ u # t
         /\ \A i \in DOMAIN TimersetRm(ts, t) : \E j \in DOMAIN ts : TimersetRm(ts, t)[i] = ts[j]
<1>. DEFINE at == {i \in DOMAIN ts : ts[i].timer = t}
            r  == TimersetRm(ts, t)
<1>0. PICK m \in Nat : m = Len(ts) /\ DOMAIN ts = 1..m /\ \A i \in 1..m : ts[i] \in Entries
  BY SeqFacts
<1>1. CASE at = {}
  <2>1. r = ts
    BY <1>1 DEF TimersetRm
  <2>2. ~InSet(ts, t)
    BY <1>1 DEF InSet
  <2>. HIDE DEF r
  <2>3. QED
    BY <2>1, <2>2 DEF r
<1>2. CASE at # {}
  <2>1. PICK e : e = (CHOOSE i \in at : TRUE)
    OBVIOUS
  <2>2. e \in at /\ r = RemoveAt(ts, e)
    BY <2>1, <1>2 DEF TimersetRm
  <2>3. e \in 1..m /\ ts[e].timer = t
    BY <2>2, <1>0
  <2>. HIDE DEF r, at
  <2>4. /\ r \in Seq(Entries) /\ DOMAIN r = 1..m - 1
        /\ \A i \in 1..m - 1 : r[i] = IF i < e THEN ts[i] ELSE ts[i + 1]
    BY <2>2, <2>3, <1>0, Removed
  <2>5. /\ \A x \in 1..m : ts[x].left \in Nat
        /\ \A x, y \in 1..m : x < y => ts[x].left <= ts[y].left /\ ts[x].timer # ts[y].timer
    BY <1>0 DEF Entries, Sorted
  <2>6. \A x \in 1..m : x # e => ts[x].timer # t
    BY <2>3, <2>5
  <2>7. ASSUME NEW i \in 1..m - 1
        PROVE  \E x \in 1..m : x # e /\ r[i] = ts[x] /\ x = IF i < e THEN i ELSE i + 1
    <3>1. i \in 1..m /\ i + 1 \in 1..m
      BY <1>0
    <3>2. QED
      BY <3>1, <2>3, <2>4
  <2>8. ASSUME NEW i \in 1..m - 1, NEW j \in 1..m - 1, i < j
        PROVE  r[i].left <= r[j].left /\ r[i].timer # r[j].timer
    <3>1. PICK x \in 1..m : r[i] = ts[x] /\ x = IF i < e THEN i ELSE i + 1
      BY <2>7
    <3>2. PICK y \in 1..m : r[j] = ts[y] /\ y = IF j < e THEN j ELSE j + 1
      BY <2>7
    <3>3. x < y
      BY <3>1, <3>2, <2>3, <2>8, <1>0
    <3>4. QED
      BY <3>1, <3>2, <3>3, <2>5
  <2>9. ASSUME NEW j \in 1..m, j # e PROVE \E i \in 1..m - 1 : r[i] = ts[j]
    <3>1. CASE j < e
      <4>1. j \in 1..m - 1
        BY <3>1, <2>3, <1>0
      <4>2. QED
        BY <4>1, <3>1, <2>4
    <3>2. CASE ~(j < e)
      <4>1. j - 1 \in 1..m - 1 /\ ~(j - 1 < e) /\ j - 1 + 1 = j
        BY <3>2, <2>3, <2>9, <1>0
      <4>2. QED
        BY <4>1, <2>4
    <3>3. QED
      BY <3>1, <3>2
  <2>10. \A u : InSet(r, u) <=> InSet(ts, u) /\ u # t
    <3>1. ASSUME NEW u, InSet(r, u) PROVE InSet(ts, u) /\ u # t
      BY <3>1, <2>4, <2>6, <2>7, <1>0 DEF InSet
    <3>2. ASSUME NEW u, InSet(ts, u), u # t PROVE InSet(r, u)
      BY <3>2, <2>3, <2>4, <2>9, <1>0 DEF InSet
    <3>3. QED
      BY <3>1, <3>2
  <2>11. Sorted(r)
    BY <2>4, <2>8 DEF Sorted
  <2>12. \A i \in DOMAIN r : \E j \in DOMAIN ts : r[i] = ts[j]
    BY <2>4, <2>7, <1>0
  <2>13. QED
    BY <2>4, <2>10, <2>11, <2>12 DEF r
<1>3. QED
  BY <1>1, <1>2

LEMMA TailSorted ==
  ASSUME NEW ts \in Seq(Entries), Sorted(ts), ts # << >>
  PROVE  /\ Tail(ts) \in Seq(Entries) /\ Sorted(Tail(ts))
         /\ \A u : InSet(Tail(ts), u) <=> InSet(ts, u) /\ u # Head(ts).timer
         /\ \A i \in DOMAIN Tail(ts) : \E j \in DOMAIN ts : Tail(ts)[i] = ts[j]
         /\ 1 \in DOMAIN ts /\ Head(ts) = ts[1] /\ Head(ts) \in Entries
<1>0. PICK m \in Nat : m = Len(ts) /\ DOMAIN ts = 1..m /\ m > 0
  BY TailFacts
<1>. DEFINE r == Tail(ts)
<1>1. /\ Head(ts) = ts[1] /\ Head(ts) \in Entries
      /\ r \in Seq(Entries) /\ DOMAIN r = 1..m - 1
      /\ \A i \in 1..m - 1 : r[i] = ts[i + 1]
  BY <1>0, TailFacts
<1>2. \A x, y \in 1..m : x < y => ts[x].left <= ts[y].left /\ ts[x].timer # ts[y].timer
  BY <1>0 DEF Sorted
<1>. HIDE DEF r
<1>3. \A i \in 1..m - 1 : i + 1 \in 1..m /\ 1 < i + 1
  BY <1>0
<1>4. \A j \in 1..m : j # 1 => j - 1 \in 1..m - 1 /\ j - 1 + 1 = j
  BY <1>0
<1>5. Sorted(r)
  <2>1. ASSUME NEW i \in 1..m - 1, NEW j \in 1..m - 1, i < j
        PROVE  r[i].left <= r[j].left /\ r[i].timer # r[j].timer
    <3>1. i + 1 < j + 1
      BY <2>1
    <3>2. QED
      BY <3>1, <1>1, <1>2, <1>3, ZenonT(60)
  <2>2. QED
    BY <2>1, <1>1 DEF Sorted
<1>6. \A u : InSet(r, u) <=> InSet(ts, u) /\ u # Head(ts).timer
  <2>0. 1 \in 1..m
    BY <1>0
  <2>1. ASSUME NEW u, InSet(r, u) PROVE InSet(ts, u) /\ u # Head(ts).timer
    <3>1. PICK i \in 1..m - 1 : r[i].timer = u
      BY <2>1, <1>1 DEF InSet
    <3>2. i + 1 \in 1..m /\ 1 < i + 1 /\ ts[i + 1].timer = u
      BY <3>1, <1>1, <1>3
    <3>3. ts[1].timer # ts[i + 1].timer
      BY <3>2, <2>0, <1>2
    <3>4. QED
      BY <3>2, <3>3, <1>0, <1>1 DEF InSet
  <2>2. ASSUME NEW u, InSet(ts, u), u # Head(ts).timer PROVE InSet(r, u)
    <3>1. PICK j \in 1..m : ts[j].timer = u
      BY <2>2, <1>0 DEF InSet
    <3>2. j # 1
      BY <3>1, <2>2, <1>1
    <3>3. j - 1 \in 1..m - 1 /\ r[j - 1].timer = u
      BY <3>1, <3>2, <1>1, <1>4
    <3>4. QED
      BY <3>3, <1>1 DEF InSet
  <2>3. QED
    BY <2>1, <2>2
<1>7. \A i \in DOMAIN r : \E j \in DOMAIN ts : r[i] = ts[j]
  BY <1>0, <1>1, <1>3
<1>8. 1 \in DOMAIN ts
  BY <1>0
<1>9. QED
  BY <1>1, <1>5, <1>6, <1>7, <1>8 DEF r

(* A tick of the clock.                                                    *)
Ticked(ts) == [i \in DOMAIN ts |-> [ts[i] EXCEPT !.left = Less(@)]]

LEMMA LessIs == \A n \in Nat : /\ Less(n) \in Nat
                                /\ \A k \in Nat : k <= n => Less(k) <= Less(n)
BY DEF Less

LEMMA TickSorted ==
  ASSUME NEW ts \in Seq(Entries), Sorted(ts)
  PROVE  /\ Ticked(ts) \in Seq(Entries) /\ Sorted(Ticked(ts)) /\ DOMAIN Ticked(ts) = DOMAIN ts
         /\ \A u : InSet(Ticked(ts), u) <=> InSet(ts, u)
         /\ \A i \in DOMAIN ts : /\ Ticked(ts)[i].timer = ts[i].timer
                                  /\ Ticked(ts)[i].left = Less(ts[i].left)
                                  /\ ts[i].left \in Nat
<1>0. PICK m \in Nat : m = Len(ts) /\ DOMAIN ts = 1..m /\ \A i \in 1..m : ts[i] \in Entries
  BY SeqFacts
<1>1. \A i \in 1..m : /\ ts[i].left \in Nat /\ ts[i].timer \in TimerId
                       /\ Ticked(ts)[i] = [timer |-> ts[i].timer, left |-> Less(ts[i].left)]
  BY <1>0 DEF Ticked, Entries
<1>2. \A i \in 1..m : /\ Ticked(ts)[i] \in Entries /\ Ticked(ts)[i].timer = ts[i].timer
                       /\ Ticked(ts)[i].left = Less(ts[i].left)
  <2>1. \A i \in 1..m : Less(ts[i].left) \in Nat
    BY <1>1, LessIs
  <2>2. ASSUME NEW a \in TimerId, NEW b \in Nat
        PROVE  /\ [timer |-> a, left |-> b] \in Entries
               /\ [timer |-> a, left |-> b].timer = a /\ [timer |-> a, left |-> b].left = b
    BY DEF Entries
  <2>3. ASSUME NEW i \in 1..m
        PROVE  /\ Ticked(ts)[i] \in Entries /\ Ticked(ts)[i].timer = ts[i].timer
               /\ Ticked(ts)[i].left = Less(ts[i].left)
    <3>1. ts[i].timer \in TimerId /\ Less(ts[i].left) \in Nat
      BY <2>1, <1>1
    <3>2. Ticked(ts)[i] = [timer |-> ts[i].timer, left |-> Less(ts[i].left)]
      BY <1>1
    <3>3. QED
      BY <3>1, <3>2, <2>2
  <2>4. QED
    BY <2>3
<1>3. DOMAIN Ticked(ts) = 1..m
  BY <1>0 DEF Ticked
<1>4. Ticked(ts) \in Seq(Entries)
  BY <1>0, <1>2, IsASeq DEF Ticked
<1>5. Sorted(Ticked(ts))
  <2>1. \A i, j \in 1..m : i < j => ts[i].left <= ts[j].left /\ ts[i].timer # ts[j].timer
    BY <1>0 DEF Sorted
  <2>2. ASSUME NEW i \in 1..m, NEW j \in 1..m, i < j
        PROVE  /\ Ticked(ts)[i].left <= Ticked(ts)[j].left
               /\ Ticked(ts)[i].timer # Ticked(ts)[j].timer
    <3>1. ts[i].left \in Nat /\ ts[j].left \in Nat /\ ts[i].left <= ts[j].left
      BY <2>1, <2>2, <1>1
    <3>2. Less(ts[i].left) <= Less(ts[j].left)
      BY <3>1, LessIs
    <3>3. QED
      BY <3>2, <2>1, <2>2, <1>2
  <2>3. QED
    BY <2>2, <1>3 DEF Sorted
<1>6. \A u : InSet(Ticked(ts), u) <=> InSet(ts, u)
  BY <1>0, <1>2, <1>3 DEF InSet
<1>7. QED
  BY <1>0, <1>1, <1>2, <1>3, <1>4, <1>5, <1>6

-----------------------------------------------------------------------------
(* The task queues: what they hold, and in which order.                    *)

(* A task behind one of the same timer is the stop behind its start.       *)
Behind(a, b) == a.timer = b.timer => a.kind = "start" /\ b.kind = "stop"
InOrder(q) == \A i, j \in DOMAIN q : i < j => Behind(q[i], q[j])
Follows(p, q) == \A i \in DOMAIN p, j \in DOMAIN q : Behind(p[i], q[j])

TaskOf(t, k) == [timer |-> t, kind |-> k]

LEMMA TaskFacts ==
  /\ \A t \in TimerId, k \in TaskKinds : /\ TaskOf(t, k) \in Task
                                         /\ TaskOf(t, k).timer = t /\ TaskOf(t, k).kind = k
  /\ \A e \in Task : e.timer \in TimerId /\ e.kind \in TaskKinds /\ e = TaskOf(e.timer, e.kind)
BY DEF TaskOf, Task

(* grid_queue_push                                                         *)
LEMMA PushTask ==
  ASSUME NEW q \in Seq(Task), NEW t \in TimerId, NEW k \in TaskKinds
  PROVE  /\ Append(q, TaskOf(t, k)) \in Seq(Task) /\ Append(q, TaskOf(t, k)) # << >>
         /\ \A u, l : Holds(Append(q, TaskOf(t, k)), u, l)
                        <=> Holds(q, u, l) \/ TaskOf(u, l) = TaskOf(t, k)
         /\ \A p \in Seq(Task) :
               /\ Follows(p, q) /\ (\A i \in DOMAIN p : Behind(p[i], TaskOf(t, k)))
               => Follows(p, Append(q, TaskOf(t, k)))
         /\ InOrder(q) /\ (\A i \in DOMAIN q : Behind(q[i], TaskOf(t, k)))
            => InOrder(Append(q, TaskOf(t, k)))
<1>. DEFINE e == TaskOf(t, k)
            r == Append(q, e)
<1>0. e \in Task
  BY TaskFacts
<1>. HIDE DEF e
<1>1. PICK n \in Nat : n = Len(q)
  BY SeqFacts
<1>2. /\ r \in Seq(Task) /\ DOMAIN r = 1..n + 1 /\ DOMAIN q = 1..n
      /\ \A i \in 1..n : r[i] = q[i]
      /\ r[n + 1] = e
  BY <1>0, <1>1, AppendFacts
<1>. HIDE DEF r
<1>3. r # << >>
  BY <1>2, EmptySeq, SeqFacts
<1>4. \A i \in 1..n + 1 : i \in 1..n \/ i = n + 1
  OBVIOUS
<1>5. ASSUME NEW u, NEW l
      PROVE  Holds(r, u, l) <=> Holds(q, u, l) \/ TaskOf(u, l) = e
  BY <1>2, <1>4 DEF Holds, TaskOf
<1>6. ASSUME NEW p \in Seq(Task), Follows(p, q), \A i \in DOMAIN p : Behind(p[i], e)
      PROVE  Follows(p, r)
  BY <1>2, <1>4, <1>6 DEF Follows
<1>7. ASSUME InOrder(q), \A i \in DOMAIN q : Behind(q[i], e)
      PROVE  InOrder(r)
  <2>1. ASSUME NEW i \in 1..n + 1, NEW j \in 1..n + 1, i < j
        PROVE  Behind(r[i], r[j])
    <3>1. i \in 1..n
      BY <2>1, <1>1
    <3>2. QED
      BY <3>1, <1>2, <1>4, <1>7, <2>1 DEF InOrder
  <2>2. QED
    BY <2>1, <1>2 DEF InOrder
<1>8. QED
  BY <1>2, <1>3, <1>5, <1>6, <1>7 DEF e, r

(* grid_queue_pop *)
LEMMA PopTask ==
  ASSUME NEW q \in Seq(Task), q # << >>, InOrder(q)
  PROVE  /\ Tail(q) \in Seq(Task) /\ InOrder(Tail(q)) /\ Head(q) \in Task
         /\ \A u, l : Holds(Tail(q), u, l) <=> Holds(q, u, l) /\ TaskOf(u, l) # Head(q)
         /\ \A u, l : TaskOf(u, l) = Head(q) => Holds(q, u, l)
         /\ \A p : Follows(q, p) => Follows(Tail(q), p)
         /\ \A p : Follows(q, p) => \A j \in DOMAIN p : Behind(Head(q), p[j])
         /\ \A j \in DOMAIN Tail(q) : Behind(Head(q), Tail(q)[j])
<1>. DEFINE r == Tail(q)
<1>1. PICK n \in Nat : n = Len(q) /\ n > 0
  BY SeqFacts
<1>2. /\ r \in Seq(Task) /\ DOMAIN r = 1..n - 1 /\ DOMAIN q = 1..n
      /\ \A i \in 1..n - 1 : r[i] = q[i + 1]
      /\ Head(q) = q[1] /\ Head(q) \in Task
      /\ \A i \in 1..n : q[i] \in Task
  BY <1>1, TailFacts, SeqFacts
<1>. HIDE DEF r
<1>3. /\ \A i \in 1..n - 1 : i + 1 \in 1..n /\ 1 < i + 1
      /\ \A j \in 1..n : j # 1 => j - 1 \in 1..n - 1 /\ j - 1 + 1 = j
      /\ 1 \in 1..n
  BY <1>1
<1>4. InOrder(r)
  <2>1. ASSUME NEW i \in 1..n - 1, NEW j \in 1..n - 1, i < j
        PROVE  Behind(r[i], r[j])
    <3>1. i + 1 \in 1..n /\ j + 1 \in 1..n /\ i + 1 < j + 1
      BY <2>1, <1>3
    <3>2. Behind(q[i + 1], q[j + 1])
      BY <3>1, <1>2 DEF InOrder
    <3>3. QED
      BY <3>2, <1>2
  <2>2. QED
    BY <2>1, <1>2 DEF InOrder
<1>5. ASSUME NEW j \in 1..n - 1 PROVE Behind(Head(q), r[j])
  BY <1>2, <1>3, SMTT(30) DEF InOrder
<1>6. \A j \in 1..n - 1 : r[j] # Head(q)
  BY <1>2, <1>5 DEF Behind
<1>7. ASSUME NEW u, NEW l
      PROVE  /\ Holds(r, u, l) <=> Holds(q, u, l) /\ TaskOf(u, l) # Head(q)
             /\ TaskOf(u, l) = Head(q) => Holds(q, u, l)
  <2>1. ASSUME Holds(r, u, l) PROVE Holds(q, u, l) /\ TaskOf(u, l) # Head(q)
    BY <2>1, <1>2, <1>3, <1>6, ZenonT(60) DEF Holds, TaskOf
  <2>2. ASSUME Holds(q, u, l), TaskOf(u, l) # Head(q) PROVE Holds(r, u, l)
    <3>1. PICK j \in 1..n : q[j] = TaskOf(u, l)
      BY <2>2, <1>2 DEF Holds, TaskOf
    <3>2. j - 1 \in 1..n - 1 /\ r[j - 1] = TaskOf(u, l)
      BY <3>1, <2>2, <1>2, <1>3
    <3>3. QED
      BY <3>2, <1>2 DEF Holds, TaskOf
  <2>3. TaskOf(u, l) = Head(q) => Holds(q, u, l)
    BY <1>2, <1>3 DEF Holds, TaskOf
  <2>4. QED
    BY <2>1, <2>2, <2>3
<1>8. ASSUME NEW p, Follows(q, p)
      PROVE  Follows(r, p) /\ \A j \in DOMAIN p : Behind(Head(q), p[j])
  BY <1>2, <1>3, <1>8 DEF Follows
<1>9. QED
  BY <1>2, <1>4, <1>5, <1>7, <1>8 DEF r

-----------------------------------------------------------------------------
(* The inductive invariant.                                                *)

QueuesInOrder == InOrder(batch) /\ InOrder(tasks) /\ Follows(batch, tasks)

(* The worker holds a popped timer, or tasks, only where its loop says.    *)
Place == /\ pc = "Fire" <=> firing # None
         /\ batch # << >> => pc = "Tasks"

(* What the state of a timer says of its tasks and of the timer set.       *)
InStep(t) ==
    /\ state[t] = "idle" => /\ ~Pending(t, "start") /\ ~Pending(t, "stop")
                            /\ ~Armed(t) /\ firing # t
    /\ state[t] = "active" => /\ ~Pending(t, "stop")
                              /\ timeout[t] # Unset <=> Pending(t, "start")
    /\ state[t] = "stopping" => Pending(t, "stop")
    /\ Pending(t, "start") => ~Armed(t) /\ firing # t
    /\ firing = t => ~Armed(t)
    /\ state[t] = "active" /\ raised[t] # 0
          => ~Pending(t, "start") /\ ~Armed(t) /\ firing # t

(* The interval asked for is never longer than what the worker waits.      *)
OnTime(t) ==
    state[t] = "active" =>
       /\ Pending(t, "start") => lag[t] <= timeout[t]
       /\ \A i \in DOMAIN timerset : timerset[i].timer = t => lag[t] <= timerset[i].left
       /\ firing = t => lag[t] = 0

IInv == /\ TypeOK /\ Sorted(timerset) /\ NoLostWakeup /\ QueuesInOrder /\ Place
        /\ \A t \in TimerId : InStep(t) /\ OnTime(t)

LEMMA TypeFacts ==
  ASSUME TypeOK
  PROVE  /\ timerset \in Seq(Entries)
         /\ tasks \in Seq(Task) /\ batch \in Seq(Task)
         /\ None \notin TimerId /\ Unset \notin Nat /\ Intervals \subseteq Nat
         /\ \A t \in TimerId : /\ state[t] \in TimerStates /\ lag[t] \in Nat
                               /\ raised[t] \in Nat
                               /\ timeout[t] \in Intervals \cup {Unset}
BY TimersAssumption, IntervalsAssumption DEF TypeOK, Entries, None, Unset

LEMMA ArmedIs == \A t : Armed(t) <=> InSet(timerset, t)
BY DEF Armed, InSet

LEMMA InitHolds == Init => IInv
<1>. SUFFICES ASSUME Init PROVE IInv
  OBVIOUS
<1>1. \A S : << >> \in Seq(S)
  OBVIOUS
<1>2. DOMAIN << >> = {}
  OBVIOUS
<1>3. TypeOK
  BY <1>1 DEF Init, TypeOK, TimerStates, None
<1>4. Sorted(timerset) /\ NoLostWakeup /\ QueuesInOrder /\ Place
  BY <1>2 DEF Init, Sorted, NoLostWakeup, QueuesInOrder, InOrder, Follows, Place
<1>5. ASSUME NEW t \in TimerId PROVE InStep(t) /\ OnTime(t)
  <2>1. ~Pending(t, "start") /\ ~Pending(t, "stop") /\ ~Armed(t)
    BY <1>2 DEF Init, Pending, Holds, Armed
  <2>2. state[t] = "idle" /\ firing # t
    BY TimersAssumption DEF Init, None
  <2>3. QED
    BY <2>1, <2>2 DEF InStep, OnTime
<1>6. QED
  BY <1>3, <1>4, <1>5 DEF IInv

-----------------------------------------------------------------------------
(* Pushing a task: what Execute does to the queue, for a task that is not  *)
(* pending and has no task of its timer to wait for but its start.         *)
LEMMA Pushed ==
  ASSUME IInv, NEW t \in TimerId, NEW k \in TaskKinds, Execute(t, k), UNCHANGED batch,
         ~Pending(t, "stop"), k = "start" => ~Pending(t, "start")
  PROVE  /\ tasks' \in Seq(Task) /\ NoLostWakeup' /\ QueuesInOrder' /\ efd' \in BOOLEAN
         /\ \A u \in TimerId, l \in TaskKinds :
               Pending(u, l)' <=> Pending(u, l) \/ (u = t /\ l = k)
<1>. DEFINE e == TaskOf(t, k)
<1>1. tasks \in Seq(Task) /\ batch \in Seq(Task) /\ QueuesInOrder
  BY TypeFacts DEF IInv
<1>2. tasks' = Append(tasks, e) /\ efd' = TRUE
  BY DEF Execute, TaskOf
<1>3. ASSUME NEW q \in Seq(Task), \A l \in TaskKinds : Holds(q, t, l) => Pending(t, l)
      PROVE  \A i \in DOMAIN q : Behind(q[i], e)
  <2>1. ASSUME NEW i \in DOMAIN q PROVE Behind(q[i], e)
    <3>1. q[i] \in Task
      BY SeqFacts
    <3>2. /\ q[i].timer \in TimerId /\ q[i].kind \in TaskKinds
          /\ q[i] = TaskOf(q[i].timer, q[i].kind)
      BY <3>1, TaskFacts
    <3>3. q[i].timer = t => Pending(t, q[i].kind)
      BY <3>2, <1>3 DEF Holds, TaskOf
    <3>4. q[i].timer = t => q[i].kind = "start" /\ k = "stop"
      BY <3>2, <3>3 DEF TaskKinds
    <3>5. QED
      BY <3>4, TaskFacts DEF Behind
  <2>2. QED
    BY <2>1
<1>4. /\ \A i \in DOMAIN tasks : Behind(tasks[i], e)
      /\ \A i \in DOMAIN batch : Behind(batch[i], e)
  BY <1>1, <1>3 DEF Pending
<1>5. /\ tasks' \in Seq(Task) /\ tasks' # << >>
      /\ \A u, l : Holds(tasks', u, l) <=> Holds(tasks, u, l) \/ TaskOf(u, l) = e
      /\ Follows(batch, tasks') /\ InOrder(tasks')
  BY <1>1, <1>2, <1>4, PushTask DEF QueuesInOrder
<1>6. \A u \in TimerId, l \in TaskKinds : TaskOf(u, l) = e <=> (u = t /\ l = k)
  BY TaskFacts
<1>7. QED
  BY <1>1, <1>2, <1>5, <1>6 DEF NoLostWakeup, QueuesInOrder, Pending

(* Popping the first task of the batch.                                    *)
LEMMA Popped ==
  ASSUME IInv, batch # << >>, batch' = Tail(batch), UNCHANGED <<tasks, efd>>
  PROVE  /\ batch' \in Seq(Task) /\ NoLostWakeup' /\ QueuesInOrder'
         /\ Head(batch).timer \in TimerId /\ Head(batch).kind \in TaskKinds
         /\ Pending(Head(batch).timer, Head(batch).kind)
         /\ \A u \in TimerId, l \in TaskKinds :
               /\ Pending(u, l)' => Pending(u, l)
               /\ Pending(u, l)' <=> Pending(u, l) /\ ~(u = Head(batch).timer /\ l = Head(batch).kind)
               /\ Pending(u, l)' /\ u = Head(batch).timer
                  => Head(batch).kind = "start" /\ l = "stop"
<1>. DEFINE e == Head(batch)
<1>1. tasks \in Seq(Task) /\ batch \in Seq(Task) /\ QueuesInOrder
  BY TypeFacts DEF IInv
<1>2. /\ batch' \in Seq(Task) /\ InOrder(batch') /\ e \in Task
      /\ \A u, l : Holds(batch', u, l) <=> Holds(batch, u, l) /\ TaskOf(u, l) # e
      /\ \A u, l : TaskOf(u, l) = e => Holds(batch, u, l)
      /\ Follows(batch', tasks)
      /\ \A j \in DOMAIN tasks : Behind(e, tasks[j])
      /\ \A j \in DOMAIN batch' : Behind(e, batch'[j])
  BY <1>1, PopTask DEF QueuesInOrder
<1>. HIDE DEF e
<1>3. e.timer \in TimerId /\ e.kind \in TaskKinds /\ e = TaskOf(e.timer, e.kind)
  BY <1>2, TaskFacts
<1>4. \A u \in TimerId, l \in TaskKinds : TaskOf(u, l) = e <=> (u = e.timer /\ l = e.kind)
  BY <1>3, TaskFacts
<1>5. ASSUME NEW q, \A j \in DOMAIN q : Behind(e, q[j]), NEW u \in TimerId, NEW l \in TaskKinds,
             Holds(q, u, l), u = e.timer
      PROVE  e.kind = "start" /\ l = "stop"
  <2>1. PICK j \in DOMAIN q : q[j] = TaskOf(u, l)
    BY <1>5 DEF Holds, TaskOf
  <2>2. Behind(e, TaskOf(u, l))
    BY <2>1, <1>5
  <2>3. QED
    BY <2>2, <1>5, TaskFacts DEF Behind
<1>6. \A u \in TimerId, l \in TaskKinds :
         Pending(u, l)' /\ u = e.timer => e.kind = "start" /\ l = "stop"
  BY <1>2, <1>5 DEF Pending
<1>7. \A u \in TimerId, l \in TaskKinds :
         Pending(u, l)' <=> Pending(u, l) /\ ~(u = e.timer /\ l = e.kind)
  <2>1. ASSUME NEW u \in TimerId, NEW l \in TaskKinds
        PROVE  Pending(u, l)' <=> Pending(u, l) /\ ~(u = e.timer /\ l = e.kind)
    <3>1. Pending(u, l)' => ~(u = e.timer /\ l = e.kind)
      BY <1>6
    <3>2. Pending(u, l)' <=> (Holds(batch, u, l) /\ TaskOf(u, l) # e) \/ Holds(tasks, u, l)
      BY <1>2 DEF Pending
    <3>3. QED
      BY <3>1, <3>2, <1>4 DEF Pending
  <2>2. QED
    BY <2>1
<1>8. Pending(e.timer, e.kind)
  BY <1>2, <1>3 DEF Pending
<1>9. NoLostWakeup' /\ QueuesInOrder'
  BY <1>1, <1>2 DEF IInv, NoLostWakeup, QueuesInOrder
<1>10. QED
  BY <1>2, <1>3, <1>6, <1>7, <1>8, <1>9 DEF e

-----------------------------------------------------------------------------
(* Every step preserves the invariant.                                     *)

LEMMA StartHolds == ASSUME IInv, NEW t \in TimerId, Start(t) PROVE IInv'
<1>0. /\ TypeOK /\ Place /\ Sorted(timerset) /\ state[t] = "idle"
      /\ \A u \in TimerId : InStep(u) /\ OnTime(u)
      /\ UNCHANGED <<batch, timerset, pc, wake, firing>>
  BY DEF IInv, Start
<1>1. PICK ivl \in Intervals : /\ timeout' = [timeout EXCEPT ![t] = ivl]
                               /\ lag' = [lag EXCEPT ![t] = ivl]
  BY DEF Start
<1>2. /\ state' = [state EXCEPT ![t] = "active"]
      /\ raised' = [raised EXCEPT ![t] = 0]
      /\ Execute(t, "start")
  BY DEF Start
<1>3. "start" \in TaskKinds /\ "stop" \in TaskKinds /\ "stop" # "start"
  BY DEF TaskKinds
<1>4. ~Pending(t, "start") /\ ~Pending(t, "stop") /\ ~Armed(t) /\ firing # t
  BY <1>0 DEF InStep
<1>5. /\ tasks' \in Seq(Task) /\ NoLostWakeup' /\ QueuesInOrder' /\ efd' \in BOOLEAN
      /\ \A u \in TimerId, l \in TaskKinds :
            Pending(u, l)' <=> Pending(u, l) \/ (u = t /\ l = "start")
  BY <1>0, <1>2, <1>3, <1>4, Pushed
<1>6. ivl \in Nat /\ ivl # Unset
  BY TypeFacts, <1>0
<1>7. TypeOK'
  <2>1. timeout' \in [TimerId -> Intervals \cup {Unset}]
    BY <1>0, <1>1 DEF TypeOK
  <2>2. lag' \in [TimerId -> Nat]
    BY <1>0, <1>1, <1>6 DEF TypeOK
  <2>3. state' \in [TimerId -> TimerStates] /\ raised' \in [TimerId -> Nat]
    BY <1>0, <1>2 DEF TypeOK, TimerStates
  <2>4. QED
    BY <2>1, <2>2, <2>3, <1>0, <1>5 DEF TypeOK
<1>8. \A u \in TimerId : Armed(u)' <=> Armed(u)
  BY <1>0 DEF Armed
<1>9. /\ state'[t] = "active" /\ timeout'[t] = ivl /\ lag'[t] = ivl /\ raised'[t] = 0
      /\ \A u \in TimerId : u # t => /\ state'[u] = state[u] /\ timeout'[u] = timeout[u]
                                     /\ lag'[u] = lag[u] /\ raised'[u] = raised[u]
  BY <1>0, <1>1, <1>2 DEF TypeOK
<1>10. ASSUME NEW u \in TimerId PROVE InStep(u)' /\ OnTime(u)'
  <2>1. /\ Pending(u, "start")' <=> Pending(u, "start") \/ u = t
        /\ Pending(u, "stop")' <=> Pending(u, "stop")
    BY <1>3, <1>5
  <2>2. CASE u = t
    <3>1. InStep(t)'
      BY <2>1, <2>2, <1>0, <1>4, <1>6, <1>8, <1>9 DEF InStep
    <3>2. OnTime(t)'
      BY <1>0, <1>4, <1>6, <1>9 DEF OnTime, Armed
    <3>3. QED
      BY <3>1, <3>2, <2>2
  <2>3. CASE u # t
    <3>1. InStep(u)'
      BY <2>1, <2>3, <1>0, <1>8, <1>9 DEF InStep
    <3>2. OnTime(u)'
      BY <2>1, <2>3, <1>0, <1>9 DEF OnTime
    <3>3. QED
      BY <3>1, <3>2
  <2>4. QED
    BY <2>2, <2>3
<1>11. Place' /\ Sorted(timerset')
  BY <1>0 DEF Place
<1>12. QED
  BY <1>5, <1>7, <1>10, <1>11 DEF IInv

LEMMA StopHolds == ASSUME IInv, NEW t \in TimerId, Stop(t) PROVE IInv'
<1>0. /\ TypeOK /\ Place /\ Sorted(timerset) /\ state[t] = "active"
      /\ \A u \in TimerId : InStep(u) /\ OnTime(u)
      /\ UNCHANGED <<timeout, batch, timerset, pc, wake, firing, lag, raised>>
      /\ state' = [state EXCEPT ![t] = "stopping"]
      /\ Execute(t, "stop")
  BY DEF IInv, Stop
<1>1. "start" \in TaskKinds /\ "stop" \in TaskKinds /\ "stop" # "start"
  BY DEF TaskKinds
<1>2. ~Pending(t, "stop")
  BY <1>0 DEF InStep
<1>3. /\ tasks' \in Seq(Task) /\ NoLostWakeup' /\ QueuesInOrder' /\ efd' \in BOOLEAN
      /\ \A u \in TimerId, l \in TaskKinds :
            Pending(u, l)' <=> Pending(u, l) \/ (u = t /\ l = "stop")
  BY <1>0, <1>1, <1>2, Pushed
<1>4. TypeOK'
  <2>1. state' \in [TimerId -> TimerStates]
    BY <1>0 DEF TypeOK, TimerStates
  <2>2. QED
    BY <2>1, <1>0, <1>3 DEF TypeOK
<1>5. \A u \in TimerId : Armed(u)' <=> Armed(u)
  BY <1>0 DEF Armed
<1>6. /\ state'[t] = "stopping"
      /\ \A u \in TimerId : u # t => state'[u] = state[u]
  BY <1>0 DEF TypeOK
<1>7. ASSUME NEW u \in TimerId PROVE InStep(u)' /\ OnTime(u)'
  <2>1. /\ Pending(u, "start")' <=> Pending(u, "start")
        /\ Pending(u, "stop")' <=> Pending(u, "stop") \/ u = t
    BY <1>1, <1>3
  <2>2. InStep(u)'
    BY <2>1, <1>0, <1>5, <1>6 DEF InStep
  <2>3. OnTime(u)'
    BY <2>1, <1>0, <1>6 DEF OnTime
  <2>4. QED
    BY <2>2, <2>3
<1>8. Place' /\ Sorted(timerset')
  BY <1>0 DEF Place
<1>9. QED
  BY <1>3, <1>4, <1>7, <1>8 DEF IInv

(* The worker goes on to the next part of its loop: nothing else changes.  *)
LEMMA LoopHolds == ASSUME IInv, PollerWait \/ TimersetEmpty \/ NoEvents \/ TasksDone PROVE IInv'
<1>0. /\ TypeOK /\ Place /\ Sorted(timerset) /\ NoLostWakeup /\ QueuesInOrder
      /\ \A u \in TimerId : InStep(u) /\ OnTime(u)
  BY DEF IInv
<1>1. /\ UNCHANGED <<state, timeout, tasks, efd, batch, timerset, firing, lag, raised>>
      /\ wake' \in {wake, efd} /\ pc' \in {"Timers", "Events", "Wait"}
      /\ pc # "Fire" /\ (pc = "Tasks" => batch = << >>)
  BY DEF PollerWait, TimersetEmpty, NoEvents, TasksDone
<1>2. TypeOK'
  BY <1>0, <1>1 DEF TypeOK
<1>3. \A u \in TimerId : InStep(u)' /\ OnTime(u)'
  BY <1>0, <1>1 DEF InStep, OnTime, Pending, Holds, Armed
<1>4. Place' /\ Sorted(timerset') /\ NoLostWakeup' /\ QueuesInOrder'
  BY <1>0, <1>1 DEF Place, NoLostWakeup, QueuesInOrder
<1>5. QED
  BY <1>2, <1>3, <1>4 DEF IInv

LEMMA TimersetEventHolds == ASSUME IInv, TimersetEvent PROVE IInv'
<1>0. /\ TypeOK /\ Place /\ Sorted(timerset) /\ NoLostWakeup /\ QueuesInOrder
      /\ \A u \in TimerId : InStep(u) /\ OnTime(u)
      /\ timerset \in Seq(Entries)
  BY TypeFacts DEF IInv
<1>1. /\ UNCHANGED <<state, timeout, tasks, efd, batch, wake, lag, raised>>
      /\ pc = "Timers" /\ pc' = "Fire" /\ timerset # << >> /\ Head(timerset).left = 0
      /\ firing' = Head(timerset).timer /\ timerset' = Tail(timerset)
  BY DEF TimersetEvent, Due
<1>2. PICK f \in TimerId : f = Head(timerset).timer
  BY <1>0, <1>1, TailSorted DEF Entries
<1>3. /\ timerset' \in Seq(Entries) /\ Sorted(timerset') /\ Armed(f)
      /\ \A u \in TimerId : Armed(u)' <=> Armed(u) /\ u # f
      /\ \A i \in DOMAIN timerset' : \E j \in DOMAIN timerset : timerset'[i] = timerset[j]
      /\ \E i \in DOMAIN timerset : timerset[i].timer = f /\ timerset[i].left = 0
  <2>1. /\ timerset' \in Seq(Entries) /\ Sorted(timerset')
        /\ \A u : InSet(timerset', u) <=> InSet(timerset, u) /\ u # f
        /\ \A i \in DOMAIN timerset' : \E j \in DOMAIN timerset : timerset'[i] = timerset[j]
        /\ 1 \in DOMAIN timerset /\ Head(timerset) = timerset[1]
    BY <1>0, <1>1, <1>2, TailSorted
  <2>2. timerset[1].timer = f /\ timerset[1].left = 0
    BY <2>1, <1>1, <1>2
  <2>3. \A u : Armed(u)' <=> InSet(timerset', u)
    BY DEF Armed, InSet
  <2>4. InSet(timerset, f)
    BY <2>1, <2>2 DEF InSet
  <2>5. QED
    BY <2>1, <2>2, <2>3, <2>4, ArmedIs
<1>4. firing' = f /\ firing = None /\ f # None
  BY <1>0, <1>1, <1>2, TypeFacts DEF Place
<1>5. TypeOK'
  BY <1>0, <1>1, <1>3, <1>4 DEF TypeOK, Entries
<1>6. \A u, l : Pending(u, l)' <=> Pending(u, l)
  BY <1>1 DEF Pending
<1>7. ASSUME NEW u \in TimerId PROVE InStep(u)' /\ OnTime(u)'
  <2>1. InStep(u)'
    BY <1>0, <1>1, <1>3, <1>4, <1>6 DEF InStep
  <2>2. state[f] = "active" => lag[f] = 0
    <3>1. PICK i \in DOMAIN timerset : timerset[i].timer = f /\ timerset[i].left = 0
      BY <1>3
    <3>2. lag[f] \in Nat
      BY <1>0, TypeFacts
    <3>3. QED
      BY <3>1, <3>2, <1>0 DEF OnTime
  <2>3. OnTime(u)'
    BY <2>2, <1>0, <1>1, <1>3, <1>4, <1>6 DEF OnTime
  <2>4. QED
    BY <2>1, <2>3
<1>8. Place' /\ NoLostWakeup' /\ QueuesInOrder'
  BY <1>0, <1>1, <1>4 DEF Place, NoLostWakeup, QueuesInOrder
<1>9. QED
  BY <1>3, <1>5, <1>7, <1>8 DEF IInv

LEMMA FireHolds == ASSUME IInv, Fire PROVE IInv'
<1>0. /\ TypeOK /\ Place /\ Sorted(timerset) /\ NoLostWakeup /\ QueuesInOrder
      /\ \A u \in TimerId : InStep(u) /\ OnTime(u)
      /\ UNCHANGED <<state, timeout, tasks, efd, batch, timerset, wake, lag>>
      /\ pc = "Fire" /\ pc' = "Timers" /\ firing' = None
      /\ raised' = [raised EXCEPT ![firing] = IF state[firing] = "active" THEN @ + 1 ELSE @]
  BY DEF IInv, Fire
<1>1. TypeOK'
  <2>1. raised' \in [TimerId -> Nat]
    <3>1. raised \in [TimerId -> Nat]
      BY <1>0 DEF TypeOK
    <3>2. \A u \in TimerId : (IF state[u] = "active" THEN raised[u] + 1 ELSE raised[u]) \in Nat
      BY <3>1
    <3>3. CASE firing \in TimerId
      BY <1>0, <3>1, <3>2, <3>3
    <3>4. CASE firing \notin TimerId
      BY <1>0, <3>1, <3>4
    <3>5. QED
      BY <3>3, <3>4
  <2>2. QED
    BY <2>1, <1>0 DEF TypeOK
<1>2. ASSUME NEW u \in TimerId PROVE InStep(u)' /\ OnTime(u)'
  <2>1. firing' # u
    BY <1>0, TypeFacts
  <2>2. /\ \A l : Pending(u, l)' <=> Pending(u, l)
        /\ Armed(u)' <=> Armed(u)
    BY <1>0 DEF Pending, Armed
  <2>3. InStep(u)'
    <3>1. CASE firing = u
      <4>1. ~Pending(u, "start") /\ ~Armed(u)
        BY <3>1, <1>0 DEF InStep
      <4>2. QED
        BY <2>1, <2>2, <4>1, <1>0 DEF InStep
    <3>2. CASE firing # u
      <4>1. raised'[u] = raised[u]
        BY <3>2, <1>0 DEF TypeOK
      <4>2. QED
        BY <2>1, <2>2, <4>1, <1>0 DEF InStep
    <3>3. QED
      BY <3>1, <3>2
  <2>4. OnTime(u)'
    BY <2>1, <2>2, <1>0 DEF OnTime
  <2>5. QED
    BY <2>3, <2>4
<1>3. Place' /\ NoLostWakeup' /\ QueuesInOrder' /\ Sorted(timerset')
  BY <1>0 DEF Place, NoLostWakeup, QueuesInOrder
<1>4. QED
  BY <1>1, <1>2, <1>3 DEF IInv

LEMMA TakeTasksHolds == ASSUME IInv, TakeTasks PROVE IInv'
<1>0. /\ TypeOK /\ Place /\ Sorted(timerset) /\ NoLostWakeup /\ QueuesInOrder
      /\ \A u \in TimerId : InStep(u) /\ OnTime(u)
      /\ UNCHANGED <<state, timeout, timerset, wake, firing, lag, raised>>
      /\ pc = "Events" /\ pc' = "Tasks" /\ efd' = FALSE
      /\ batch' = tasks /\ tasks' = << >>
  BY DEF IInv, TakeTasks
<1>1. batch = << >> /\ << >> \in Seq(Task) /\ DOMAIN << >> = {}
  BY <1>0 DEF Place
<1>2. TypeOK'
  BY <1>0, <1>1 DEF TypeOK
<1>3. \A u, l : Pending(u, l)' <=> Pending(u, l)
  BY <1>0, <1>1 DEF Pending, Holds
<1>4. ASSUME NEW u \in TimerId PROVE InStep(u)' /\ OnTime(u)'
  <2>1. Armed(u)' <=> Armed(u)
    BY <1>0 DEF Armed
  <2>2. InStep(u)' /\ OnTime(u)'
    BY <2>1, <1>0, <1>3 DEF InStep, OnTime
  <2>3. QED
    BY <2>2
<1>5. QueuesInOrder'
  BY <1>0, <1>1 DEF QueuesInOrder, InOrder, Follows
<1>6. Place' /\ NoLostWakeup' /\ Sorted(timerset')
  BY <1>0, <1>1 DEF Place, NoLostWakeup
<1>7. QED
  BY <1>2, <1>4, <1>5, <1>6 DEF IInv

LEMMA RunStartTaskHolds == ASSUME IInv, RunStartTask PROVE IInv'
<1>. PICK t \in TimerId : t = Head(batch).timer
  BY Popped DEF RunStartTask
<1>0. /\ TypeOK /\ Place /\ Sorted(timerset) /\ NoLostWakeup /\ QueuesInOrder
      /\ \A u \in TimerId : InStep(u) /\ OnTime(u)
      /\ timerset \in Seq(Entries)
  BY TypeFacts DEF IInv
<1>1. /\ UNCHANGED <<state, tasks, efd, pc, wake, firing, lag, raised>>
      /\ pc = "Tasks" /\ batch # << >> /\ Head(batch).kind = "start" /\ batch' = Tail(batch)
      /\ IF state[t] = "active"
         THEN /\ timerset' = TimersetAdd(timerset, t, timeout[t])
              /\ timeout' = [timeout EXCEPT ![t] = Unset]
         ELSE UNCHANGED <<timerset, timeout>>
  BY DEF RunStartTask
<1>2. /\ batch' \in Seq(Task) /\ NoLostWakeup' /\ QueuesInOrder' /\ t \in TimerId
      /\ Pending(t, "start") /\ ~Pending(t, "start")'
      /\ \A u \in TimerId :
            /\ Pending(u, "stop")' <=> Pending(u, "stop")
            /\ u # t => (Pending(u, "start")' <=> Pending(u, "start"))
  <2>1. "start" \in TaskKinds /\ "stop" \in TaskKinds /\ "stop" # "start"
    BY DEF TaskKinds
  <2>2. UNCHANGED <<tasks, efd>> /\ Head(batch).kind = "start" /\ batch # << >> /\ batch' = Tail(batch)
    BY <1>1
  <2>3. /\ batch' \in Seq(Task) /\ NoLostWakeup' /\ QueuesInOrder' /\ t \in TimerId
        /\ Pending(t, "start")
        /\ \A u \in TimerId, l \in TaskKinds :
              /\ Pending(u, l)' <=> Pending(u, l) /\ ~(u = t /\ l = "start")
              /\ Pending(u, l)' /\ u = t => "start" = "start" /\ l = "stop"
    BY <2>2, Popped
  <2>4. QED
    BY <2>1, <2>3
<1>3. ~Armed(t) /\ firing # t
  BY <1>0, <1>2 DEF InStep
<1>4. Place'
  BY <1>0, <1>1 DEF Place
<1>5. CASE state[t] = "active"
  <2>1. PICK n \in Nat : n = timeout[t] /\ lag[t] <= n
    <3>1. timeout[t] # Unset /\ lag[t] <= timeout[t]
      BY <1>0, <1>2, <1>5 DEF InStep, OnTime
    <3>2. timeout[t] \in Nat
      BY <3>1, <1>0, <1>2, TypeFacts
    <3>3. QED
      BY <3>1, <3>2
  <2>2. /\ timerset' = TimersetAdd(timerset, t, n)
        /\ timeout' = [timeout EXCEPT ![t] = Unset]
    BY <1>1, <1>5, <2>1
  <2>3. ~InSet(timerset, t)
    BY <1>3, ArmedIs
  <2>4. /\ timerset' \in Seq(Entries) /\ Sorted(timerset')
        /\ \A u : InSet(timerset', u) <=> InSet(timerset, u) \/ u = t
        /\ \A i \in DOMAIN timerset' : \/ timerset'[i] = Entry(t, n)
                                       \/ \E j \in DOMAIN timerset : timerset'[i] = timerset[j]
    BY <1>0, <1>2, <2>2, <2>3, AddSorted, SMTT(30)
  <2>5. \A u : Armed(u)' <=> Armed(u) \/ u = t
    <3>1. \A u : Armed(u)' <=> InSet(timerset', u)
      BY DEF Armed, InSet
    <3>2. QED
      BY <3>1, <2>4, ArmedIs
  <2>6. /\ timeout' \in [TimerId -> Intervals \cup {Unset}] /\ timeout'[t] = Unset
        /\ \A u \in TimerId : u # t => timeout'[u] = timeout[u]
    BY <2>2, <1>0, <1>2 DEF TypeOK
  <2>7. TypeOK'
    BY <2>4, <2>6, <1>0, <1>1, <1>2 DEF TypeOK, Entries
  <2>8. ASSUME NEW u \in TimerId PROVE InStep(u)' /\ OnTime(u)'
    <3>1. InStep(u)'
      <4>1. CASE u = t
        <5>1. ~Pending(t, "stop")'
          BY <1>0, <1>2, <1>5 DEF InStep
        <5>2. raised[t] = 0
          BY <1>0, <1>2, <1>5 DEF InStep
        <5>3. InStep(t)'
          BY <5>1, <5>2, <1>1, <1>2, <1>3, <1>5, <2>6 DEF InStep
        <5>4. QED
          BY <5>3, <4>1
      <4>2. CASE u # t
        BY <4>2, <1>0, <1>1, <1>2, <2>5, <2>6 DEF InStep
      <4>3. QED
        BY <4>1, <4>2
    <3>2. OnTime(u)'
      <4>1. ASSUME NEW i \in DOMAIN timerset', timerset'[i].timer = u, state[u] = "active"
            PROVE  lag[u] <= timerset'[i].left
        <5>1. CASE timerset'[i] = Entry(t, n)
          BY <5>1, <4>1, <2>1 DEF Entry
        <5>2. CASE \E j \in DOMAIN timerset : timerset'[i] = timerset[j]
          BY <5>2, <4>1, <1>0 DEF OnTime
        <5>3. QED
          BY <5>1, <5>2, <2>4
      <4>2. CASE u = t
        <5>1. OnTime(t)'
          BY <4>1, <4>2, <1>1, <1>2, <1>3 DEF OnTime
        <5>2. QED
          BY <5>1, <4>2
      <4>3. CASE u # t
        BY <4>1, <4>3, <1>0, <1>1, <1>2, <2>6 DEF OnTime
      <4>4. QED
        BY <4>2, <4>3
    <3>3. QED
      BY <3>1, <3>2
  <2>9. QED
    BY <2>4, <2>7, <2>8, <1>2, <1>4 DEF IInv
<1>6. CASE state[t] # "active"
  <2>1. UNCHANGED <<timerset, timeout>>
    BY <1>1, <1>6
  <2>2. TypeOK'
    BY <2>1, <1>0, <1>1, <1>2 DEF TypeOK
  <2>3. \A u : Armed(u)' <=> Armed(u)
    BY <2>1 DEF Armed
  <2>4. ASSUME NEW u \in TimerId PROVE InStep(u)' /\ OnTime(u)'
    <3>1. InStep(u)'
      BY <2>1, <2>3, <1>0, <1>1, <1>2, <1>6 DEF InStep
    <3>2. OnTime(u)'
      BY <2>1, <1>0, <1>1, <1>2, <1>6 DEF OnTime
    <3>3. QED
      BY <3>1, <3>2
  <2>5. QED
    BY <2>1, <2>2, <2>4, <1>0, <1>2, <1>4 DEF IInv
<1>7. QED
  BY <1>5, <1>6

LEMMA RunStopTaskHolds == ASSUME IInv, RunStopTask PROVE IInv'
<1>. PICK t \in TimerId : t = Head(batch).timer
  BY Popped DEF RunStopTask
<1>0. /\ TypeOK /\ Place /\ Sorted(timerset) /\ NoLostWakeup /\ QueuesInOrder
      /\ \A u \in TimerId : InStep(u) /\ OnTime(u)
      /\ timerset \in Seq(Entries)
  BY TypeFacts DEF IInv
<1>1. /\ UNCHANGED <<timeout, tasks, efd, pc, wake, firing, lag, raised>>
      /\ pc = "Tasks" /\ batch # << >> /\ Head(batch).kind = "stop" /\ batch' = Tail(batch)
      /\ timerset' = TimersetRm(timerset, t)
      /\ state' = [state EXCEPT ![t] = "idle"]
  BY DEF RunStopTask
<1>2. /\ batch' \in Seq(Task) /\ NoLostWakeup' /\ QueuesInOrder' /\ t \in TimerId
      /\ Pending(t, "stop") /\ ~Pending(t, "start")' /\ ~Pending(t, "stop")'
      /\ \A u \in TimerId : u # t => /\ Pending(u, "start")' <=> Pending(u, "start")
                                     /\ Pending(u, "stop")' <=> Pending(u, "stop")
  <2>1. "start" \in TaskKinds /\ "stop" \in TaskKinds /\ "stop" # "start"
    BY DEF TaskKinds
  <2>2. UNCHANGED <<tasks, efd>> /\ Head(batch).kind = "stop" /\ batch # << >> /\ batch' = Tail(batch)
    BY <1>1
  <2>3. /\ batch' \in Seq(Task) /\ NoLostWakeup' /\ QueuesInOrder' /\ t \in TimerId
        /\ Pending(t, "stop")
        /\ \A u \in TimerId, l \in TaskKinds :
              /\ Pending(u, l)' <=> Pending(u, l) /\ ~(u = t /\ l = "stop")
              /\ Pending(u, l)' /\ u = t => "stop" = "start" /\ l = "stop"
    BY <2>2, Popped
  <2>4. QED
    BY <2>1, <2>3
<1>3. firing = None /\ t # None
  BY <1>0, <1>1, <1>2, TypeFacts DEF Place
<1>4. Place'
  BY <1>0, <1>1 DEF Place
<1>5. /\ timerset' \in Seq(Entries) /\ Sorted(timerset')
      /\ \A u : InSet(timerset', u) <=> InSet(timerset, u) /\ u # t
      /\ \A i \in DOMAIN timerset' : \E j \in DOMAIN timerset : timerset'[i] = timerset[j]
  BY <1>0, <1>1, <1>2, RmSorted
<1>6. \A u : Armed(u)' <=> Armed(u) /\ u # t
  <2>1. \A u : Armed(u)' <=> InSet(timerset', u)
    BY DEF Armed, InSet
  <2>2. QED
    BY <2>1, <1>5, ArmedIs
<1>7. /\ state' \in [TimerId -> TimerStates] /\ state'[t] = "idle"
      /\ \A u \in TimerId : u # t => state'[u] = state[u]
  BY <1>0, <1>1, <1>2 DEF TypeOK, TimerStates
<1>8. TypeOK'
  BY <1>0, <1>1, <1>2, <1>5, <1>7 DEF TypeOK, Entries
<1>9. ASSUME NEW u \in TimerId PROVE InStep(u)' /\ OnTime(u)'
  <2>1. CASE u = t
    <3>1. state'[t] = "idle" /\ firing' # t /\ ~Armed(t)'
      BY <1>1, <1>3, <1>6, <1>7
    <3>2. InStep(t)' /\ OnTime(t)'
      BY <3>1, <1>2 DEF InStep, OnTime
    <3>3. QED
      BY <3>2, <2>1
  <2>2. CASE u # t
    <3>1. InStep(u)'
      BY <2>2, <1>0, <1>1, <1>2, <1>6, <1>7 DEF InStep
    <3>2. OnTime(u)'
      BY <2>2, <1>0, <1>1, <1>2, <1>5, <1>7 DEF OnTime
    <3>3. QED
      BY <3>1, <3>2
  <2>3. QED
    BY <2>1, <2>2
<1>10. QED
  BY <1>2, <1>4, <1>5, <1>8, <1>9 DEF IInv

LEMMA TickHolds == ASSUME IInv, Tick PROVE IInv'
<1>0. /\ TypeOK /\ Place /\ Sorted(timerset) /\ NoLostWakeup /\ QueuesInOrder
      /\ \A u \in TimerId : InStep(u) /\ OnTime(u)
      /\ timerset \in Seq(Entries)
  BY TypeFacts DEF IInv
<1>1. /\ UNCHANGED <<state, timeout, tasks, efd, batch, pc, wake, firing, raised>>
      /\ timerset' = Ticked(timerset) /\ lag' = [t \in TimerId |-> Less(lag[t])]
  BY DEF Tick, Ticked
<1>2. /\ timerset' \in Seq(Entries) /\ Sorted(timerset') /\ DOMAIN timerset' = DOMAIN timerset
      /\ \A u : InSet(timerset', u) <=> InSet(timerset, u)
      /\ \A i \in DOMAIN timerset : /\ timerset'[i].timer = timerset[i].timer
                                    /\ timerset'[i].left = Less(timerset[i].left)
                                    /\ timerset[i].left \in Nat
  BY <1>0, <1>1, TickSorted
<1>3. \A t \in TimerId : lag[t] \in Nat /\ lag'[t] = Less(lag[t]) /\ lag'[t] \in Nat
  BY <1>0, <1>1, TypeFacts, LessIs
<1>4. TypeOK'
  <2>1. lag' \in [TimerId -> Nat]
    BY <1>1, <1>3
  <2>2. QED
    BY <2>1, <1>0, <1>1, <1>2 DEF TypeOK, Entries
<1>5. \A u : Armed(u)' <=> Armed(u)
  <2>1. \A u : Armed(u)' <=> InSet(timerset', u)
    BY DEF Armed, InSet
  <2>2. QED
    BY <2>1, <1>2, ArmedIs
<1>6. \A u, l : Pending(u, l)' <=> Pending(u, l)
  BY <1>1 DEF Pending
<1>7. ASSUME NEW u \in TimerId PROVE InStep(u)' /\ OnTime(u)'
  <2>1. InStep(u)'
    BY <1>0, <1>1, <1>5, <1>6 DEF InStep
  <2>2. ASSUME state[u] = "active" PROVE OnTime(u)'
    <3>1. Pending(u, "start") => lag'[u] <= timeout[u]
      <4>1. ASSUME Pending(u, "start") PROVE lag'[u] <= timeout[u]
        <5>1. timeout[u] # Unset /\ lag[u] <= timeout[u]
          BY <4>1, <2>2, <1>0 DEF InStep, OnTime
        <5>2. PICK n \in Nat : n = timeout[u]
          BY <5>1, <1>0, TypeFacts
        <5>3. Less(lag[u]) <= n
          BY <5>1, <5>2, <1>3 DEF Less
        <5>4. QED
          BY <5>2, <5>3, <1>3
      <4>2. QED
        BY <4>1
    <3>2. ASSUME NEW i \in DOMAIN timerset, timerset[i].timer = u
          PROVE  lag'[u] <= timerset'[i].left
      <4>1. lag[u] <= timerset[i].left
        BY <3>2, <2>2, <1>0 DEF OnTime
      <4>2. QED
        BY <4>1, <1>2, <1>3, LessIs
    <3>3. firing = u => lag'[u] = 0
      <4>1. firing = u => lag[u] = 0
        BY <2>2, <1>0 DEF OnTime
      <4>2. QED
        BY <4>1, <1>3 DEF Less
    <3>4. QED
      BY <3>1, <3>2, <3>3, <1>1, <1>2, <1>6 DEF OnTime
  <2>3. QED
    BY <2>1, <2>2, <1>1 DEF OnTime
<1>8. Place' /\ NoLostWakeup' /\ QueuesInOrder'
  BY <1>0, <1>1 DEF Place, NoLostWakeup, QueuesInOrder
<1>9. QED
  BY <1>2, <1>4, <1>7, <1>8 DEF IInv

LEMMA StutterHolds == ASSUME IInv, UNCHANGED vars PROVE IInv'
BY DEF IInv, vars, TypeOK, Sorted, NoLostWakeup, QueuesInOrder, InOrder, Follows, Place,
       InStep, OnTime, Pending, Holds, Armed

LEMMA NextHolds == IInv /\ [Next]_vars => IInv'
BY StartHolds, StopHolds, LoopHolds, TimersetEventHolds, FireHolds, TakeTasksHolds,
   RunStartTaskHolds, RunStopTaskHolds, TickHolds, StutterHolds DEF Next, WorkerStep

(* The worker's data stay as the invariant says.                           *)
THEOREM Invariant == Spec => []IInv
<1>1. Init => IInv
  BY InitHolds
<1>2. IInv /\ [Next]_vars => IInv'
  BY NextHolds
<1>3. QED
  BY <1>1, <1>2, PTL DEF Spec

LEMMA Sound == IInv => Consistent
<1>. SUFFICES ASSUME IInv PROVE Consistent
  OBVIOUS
<1>1. TypeOK /\ TimersetOrdered /\ NoLostWakeup
  BY DEF IInv, Sorted, TimersetOrdered
<1>2. ASSUME NEW t \in TimerId
      PROVE  /\ state[t] # "stopping" => ~Pending(t, "stop")
             /\ state[t] = "idle" => ~Pending(t, "start")
             /\ state[t] = "active" /\ Pending(t, "start") => timeout[t] >= 0
             /\ state[t] = "active" /\ firing = t => timeout[t] = Unset
  <2>1. InStep(t) /\ state[t] \in TimerStates /\ timeout[t] \in Nat \cup {Unset}
    BY TypeFacts DEF IInv
  <2>2. \A n \in Nat : n >= 0
    OBVIOUS
  <2>3. QED
    BY <2>1, <2>2 DEF InStep, TimerStates
<1>3. QED
  BY <1>1, <1>2 DEF Consistent, AssertionsHold

(* The worker thread, its queue and its timer set are sound: no task is    *)
(* pushed twice, no wakeup is lost, the timer set is in order and no       *)
(* assertion of timer.c or queue.c can fail, for any number of timers.     *)
THEOREM StaysConsistent == Spec => []Consistent
<1>1. IInv => Consistent
  BY Sound
<1>2. QED
  BY <1>1, Invariant, PTL

(* No timer ever expires early, twice, or for a start that was taken back. *)
THEOREM NeverEarly == Spec => TimeoutNotEarly
<1>1. ASSUME IInv, [Next]_vars
      PROVE  [\A t \in TimerId : raised'[t] > raised[t]
                 => raised[t] = 0 /\ state[t] = "active" /\ lag[t] = 0]_vars
  <2>0. raised \in [TimerId -> Nat]
    BY <1>1 DEF IInv, TypeOK
  <2>1. CASE Fire
    <3>1. /\ \A u \in TimerId : InStep(u) /\ OnTime(u)
          /\ raised' = [raised EXCEPT ![firing] = IF state[firing] = "active" THEN @ + 1 ELSE @]
      BY <2>1, <1>1 DEF IInv, Fire
    <3>2. ASSUME NEW t \in TimerId, raised'[t] > raised[t]
          PROVE  raised[t] = 0 /\ state[t] = "active" /\ lag[t] = 0
      <4>1. firing = t /\ state[t] = "active"
        BY <3>1, <3>2, <2>0
      <4>2. QED
        BY <4>1, <3>1 DEF InStep, OnTime
    <3>3. QED
      BY <3>2
  <2>2. CASE \E t \in TimerId : Start(t)
    <3>1. PICK t \in TimerId : raised' = [raised EXCEPT ![t] = 0]
      BY <2>2 DEF Start
    <3>2. \A u \in TimerId : ~(raised'[u] > raised[u])
      BY <3>1, <2>0
    <3>3. QED
      BY <3>2
  <2>3. ASSUME UNCHANGED raised
        PROVE  [\A t \in TimerId : raised'[t] > raised[t]
                   => raised[t] = 0 /\ state[t] = "active" /\ lag[t] = 0]_vars
    <3>1. \A t \in TimerId : ~(raised'[t] > raised[t])
      BY <2>3, <2>0
    <3>2. QED
      BY <3>1
  <2>4. CASE (\E t \in TimerId : Stop(t)) \/ Tick
    BY <2>3, <2>4 DEF Stop, Tick
  <2>5. CASE PollerWait \/ TimersetEvent \/ TimersetEmpty \/ TakeTasks
    BY <2>3, <2>5 DEF PollerWait, TimersetEvent, TimersetEmpty, TakeTasks
  <2>6. CASE NoEvents \/ RunStartTask \/ RunStopTask \/ TasksDone
    BY <2>3, <2>6 DEF NoEvents, RunStartTask, RunStopTask, TasksDone
  <2>7. CASE UNCHANGED vars
    BY <2>3, <2>7 DEF vars
  <2>8. QED
    BY <1>1, <2>1, <2>2, <2>4, <2>5, <2>6, <2>7 DEF Next, WorkerStep
<1>2. QED
  BY <1>1, Invariant, PTL DEF Spec, TimeoutNotEarly

-----------------------------------------------------------------------------
(* Each timer behaves as if the worker were its own.                       *)

Seen(s, o, q, w) == [state |-> s, timeout |-> o, tasks |-> q, wtimer |-> w]
TimeoutSet(t) == timeout[t] # Unset
Where(t) == IF firing = t THEN "fired" ELSE IF Armed(t) THEN "armed" ELSE "off"

LEMMA Concats ==
  /\ << >> \o << >> = << >> /\ <<"start">> \o << >> = <<"start">>
  /\ << >> \o <<"stop">> = <<"stop">> /\ <<"start">> \o <<"stop">> = <<"start", "stop">>
<1>1. /\ << >> \in Seq(TaskKinds) /\ <<"start">> \in Seq(TaskKinds)
      /\ <<"stop">> \in Seq(TaskKinds) /\ "stop" \in TaskKinds
  BY DEF TaskKinds
<1>2. \A q \in Seq(TaskKinds) : q \o << >> = q /\ << >> \o q = q
  BY ConcatEmptySeq
<1>3. \A q \in Seq(TaskKinds) : q \o <<"stop">> = Append(q, "stop")
  BY <1>1, AppendIsConcat
<1>4. /\ << >> \o << >> = << >> /\ <<"start">> \o << >> = <<"start">>
      /\ << >> \o <<"stop">> = <<"stop">>
  BY <1>1, <1>2
<1>5. <<"start">> \o <<"stop">> = <<"start", "stop">>
  BY <1>1, <1>3, StopBehindStart
<1>6. QED
  BY <1>4, <1>5

LEMMA OwnTasksAre ==
  ASSUME NEW t \in TimerId
  PROVE  /\ Pending(t, "start") /\ Pending(t, "stop") => OwnTasks(t) = <<"start", "stop">>
         /\ Pending(t, "start") /\ ~Pending(t, "stop") => OwnTasks(t) = <<"start">>
         /\ ~Pending(t, "start") /\ Pending(t, "stop") => OwnTasks(t) = <<"stop">>
         /\ ~Pending(t, "start") /\ ~Pending(t, "stop") => OwnTasks(t) = << >>
BY Concats DEF OwnTasks

LEMMA OwnTasksAreNext ==
  ASSUME NEW t \in TimerId
  PROVE  /\ Pending(t, "start")' /\ Pending(t, "stop")' => OwnTasks(t)' = <<"start", "stop">>
         /\ Pending(t, "start")' /\ ~Pending(t, "stop")' => OwnTasks(t)' = <<"start">>
         /\ ~Pending(t, "start")' /\ Pending(t, "stop")' => OwnTasks(t)' = <<"stop">>
         /\ ~Pending(t, "start")' /\ ~Pending(t, "stop")' => OwnTasks(t)' = << >>
BY Concats DEF OwnTasks

LEMMA SeenFacts ==
  ASSUME NEW s, NEW o, NEW q, NEW w
  PROVE  /\ Seen(s, o, q, w).state = s /\ Seen(s, o, q, w).timeout = o
         /\ Seen(s, o, q, w).tasks = q /\ Seen(s, o, q, w).wtimer = w
BY DEF Seen

(* One field of the record changed.                                        *)
WithState(r, x)   == [r EXCEPT !.state = x]
WithTimeout(r, x) == [r EXCEPT !.timeout = x]
WithTasks(r, x)   == [r EXCEPT !.tasks = x]
WithWTimer(r, x)  == [r EXCEPT !.wtimer = x]

LEMMA SeenWith ==
  ASSUME NEW s, NEW o, NEW q, NEW w, NEW x
  PROVE  /\ WithState(Seen(s, o, q, w), x) = Seen(x, o, q, w)
         /\ WithTimeout(Seen(s, o, q, w), x) = Seen(s, x, q, w)
         /\ WithTasks(Seen(s, o, q, w), x) = Seen(s, o, x, w)
         /\ WithWTimer(Seen(s, o, q, w), x) = Seen(s, o, q, x)
BY DEF Seen, WithState, WithTimeout, WithTasks, WithWTimer

LEMMA ViewIs ==
  ASSUME NEW t \in TimerId
  PROVE  /\ View(t) = Seen(state[t], TimeoutSet(t), OwnTasks(t), Where(t))
         /\ View(t)' = Seen(state'[t], TimeoutSet(t)', OwnTasks(t)', Where(t)')
BY DEF View, Seen, TimeoutSet, Where

(* A timer that the step does not concern.                                 *)
LEMMA Unseen ==
  ASSUME NEW t \in TimerId,
         state'[t] = state[t], timeout'[t] # Unset <=> timeout[t] # Unset,
         Pending(t, "start")' <=> Pending(t, "start"), Pending(t, "stop")' <=> Pending(t, "stop"),
         firing' = t <=> firing = t, Armed(t)' <=> Armed(t)
  PROVE  UNCHANGED View(t)
BY DEF View, OwnTasks

(* The steps of a timer of its own, by what they do to its record.         *)
LEMMA AloneStart ==
  ASSUME NEW t \in TimerId, NEW o, NEW q, NEW w,
         View(t) = Seen("idle", o, q, w), View(t)' = Seen("active", TRUE, Append(q, "start"), w)
  PROVE  Alone(t)!Next
<1>1. Alone(t)!TimerIsIdle(View(t))
  BY SeenFacts DEF Alone!TimerIsIdle
<1>2. PICK r : r = Seen("idle", o, q, w)
  OBVIOUS
<1>3. Alone(t)!Started(r)
        = WithTasks(WithTimeout(WithState(r, "active"), TRUE), Append(r.tasks, "start"))
  BY Zenon DEF Alone!Started, WithState, WithTimeout, WithTasks
<1>4. Alone(t)!Started(View(t)) = View(t)'
  <2>1. WithState(r, "active") = Seen("active", o, q, w) /\ r.tasks = q
    BY <1>2, SeenFacts, SeenWith
  <2>2. \A b : WithTasks(WithTimeout(Seen("active", o, q, w), b), Append(q, "start"))
                = Seen("active", b, Append(q, "start"), w)
    BY SeenWith
  <2>3. QED
    BY Zenon, <1>2, <1>3, <2>1, <2>2
<1>5. Alone(t)!Start
  BY <1>1, <1>4 DEF Alone!Start
<1>6. QED
  BY <1>5 DEF Alone!Next

LEMMA AloneStop ==
  ASSUME NEW t \in TimerId, NEW o, NEW q, NEW w,
         View(t) = Seen("active", o, q, w), View(t)' = Seen("stopping", o, Append(q, "stop"), w)
  PROVE  Alone(t)!Next
<1>1. View(t).state = "active"
  BY SeenFacts
<1>2. PICK r : r = Seen("active", o, q, w)
  OBVIOUS
<1>3. r.state = "active" /\ r.tasks = q
  BY <1>2, SeenFacts
<1>4. Alone(t)!StopRequested(r) = WithTasks(WithState(r, "stopping"), Append(r.tasks, "stop"))
  BY Zenon, <1>3 DEF Alone!StopRequested, WithState, WithTasks
<1>5. Alone(t)!StopRequested(View(t)) = View(t)'
  BY <1>2, <1>3, <1>4, SeenWith
<1>6. Alone(t)!Stop
  BY <1>1, <1>5 DEF Alone!Stop
<1>7. QED
  BY <1>6 DEF Alone!Next

LEMMA AloneStartTask ==
  ASSUME NEW t \in TimerId, NEW s, NEW o, NEW q, NEW w, w # "fired", q # << >>, Head(q) = "start",
         View(t) = Seen(s, o, q, w),
         View(t)' = IF s = "active" THEN Seen(s, FALSE, Tail(q), "armed") ELSE Seen(s, o, Tail(q), w)
  PROVE  Alone(t)!Next
<1>1. Alone(t)!StartTaskDue(View(t))
  BY SeenFacts DEF Alone!StartTaskDue
<1>2. PICK r : r = Seen(s, o, q, w)
  OBVIOUS
<1>3. r.state = s /\ r.tasks = q
  BY <1>2, SeenFacts
<1>4. Alone(t)!AfterStartTask(r)
        = IF s = "active"
          THEN WithTimeout(WithWTimer(WithTasks(r, Tail(r.tasks)), "armed"), FALSE)
          ELSE WithTasks(r, Tail(r.tasks))
  BY Zenon, <1>3 DEF Alone!AfterStartTask, WithTimeout, WithTasks, WithWTimer
<1>5. Alone(t)!AfterStartTask(View(t)) = View(t)'
  <2>1. /\ WithTasks(r, Tail(q)) = Seen(s, o, Tail(q), w)
        /\ WithWTimer(Seen(s, o, Tail(q), w), "armed") = Seen(s, o, Tail(q), "armed")
    BY <1>2, SeenWith
  <2>2. \A b : WithTimeout(Seen(s, o, Tail(q), "armed"), b) = Seen(s, b, Tail(q), "armed")
    BY SeenWith
  <2>3. CASE s = "active"
    BY Zenon, <1>2, <1>3, <1>4, <2>1, <2>2, <2>3
  <2>4. CASE s # "active"
    BY Zenon, <1>2, <1>3, <1>4, <2>1, <2>4
  <2>5. QED
    BY <2>3, <2>4
<1>6. Alone(t)!StartTask
  BY <1>1, <1>5 DEF Alone!StartTask
<1>7. QED
  BY <1>6 DEF Alone!Next

LEMMA AloneStopTask ==
  ASSUME NEW t \in TimerId, NEW s, NEW o, NEW q, NEW w, w # "fired", q # << >>, Head(q) = "stop",
         View(t) = Seen(s, o, q, w), View(t)' = Seen("idle", o, Tail(q), "off")
  PROVE  Alone(t)!Next
<1>1. Alone(t)!StopTaskDue(View(t))
  BY SeenFacts DEF Alone!StopTaskDue
<1>2. PICK r : r = Seen(s, o, q, w)
  OBVIOUS
<1>3. Alone(t)!AfterStopTask(r) = WithState(WithWTimer(WithTasks(r, Tail(r.tasks)), "off"), "idle")
  BY Zenon DEF Alone!AfterStopTask, WithState, WithTasks, WithWTimer
<1>4. Alone(t)!AfterStopTask(View(t)) = View(t)'
  BY <1>2, <1>3, SeenFacts, SeenWith
<1>5. Alone(t)!StopTask
  BY <1>1, <1>4 DEF Alone!StopTask
<1>6. QED
  BY <1>5 DEF Alone!Next

LEMMA AloneExpire ==
  ASSUME NEW t \in TimerId, NEW s, NEW o, NEW q,
         View(t) = Seen(s, o, q, "armed"), View(t)' = Seen(s, o, q, "fired")
  PROVE  Alone(t)!Next
<1>1. Alone(t)!Expired(View(t)) = WithWTimer(View(t), "fired")
  BY Zenon DEF Alone!Expired, WithWTimer
<1>2. Alone(t)!Expire
  BY <1>1, SeenFacts, SeenWith DEF Alone!Expire
<1>3. QED
  BY <1>2 DEF Alone!Next

LEMMA AloneFire ==
  ASSUME NEW t \in TimerId, NEW s, NEW o, NEW q,
         View(t) = Seen(s, o, q, "fired"), View(t)' = Seen(s, o, q, "off")
  PROVE  Alone(t)!Next
<1>1. Alone(t)!AfterFired(View(t)) = WithWTimer(View(t), "off")
  BY Zenon DEF Alone!AfterFired, WithWTimer
<1>2. Alone(t)!Fire
  BY <1>1, SeenFacts, SeenWith DEF Alone!Fire
<1>3. QED
  BY <1>2 DEF Alone!Next

LEMMA StartSeen ==
  ASSUME IInv, NEW t \in TimerId, Start(t), NEW u \in TimerId
  PROVE  Alone(u)!Next \/ UNCHANGED View(u)
<1>1. PICK ivl \in Intervals : timeout' = [timeout EXCEPT ![t] = ivl]
  BY DEF Start
<1>2. /\ TypeOK /\ InStep(t) /\ state[t] = "idle"
      /\ state' = [state EXCEPT ![t] = "active"]
      /\ Execute(t, "start") /\ UNCHANGED <<batch, timerset, firing>>
  BY DEF IInv, Start
<1>3. ~Pending(t, "start") /\ ~Pending(t, "stop") /\ ~Armed(t) /\ firing # t
  BY <1>2 DEF InStep
<1>4. "start" \in TaskKinds /\ "stop" \in TaskKinds /\ "stop" # "start"
  BY DEF TaskKinds
<1>5. \A l \in TaskKinds : Pending(u, l)' <=> Pending(u, l) \/ (u = t /\ l = "start")
  BY <1>2, <1>3, <1>4, Pushed
<1>6. Armed(u)' <=> Armed(u)
  BY <1>2 DEF Armed
<1>7. CASE u = t
  <2>1. TimeoutSet(t)' = TRUE
    <3>1. timeout'[t] = ivl /\ ivl # Unset
      BY <1>1, <1>2, TypeFacts DEF TypeOK
    <3>2. QED
      BY <3>1 DEF TimeoutSet
  <2>2. state[t] = "idle" /\ state'[t] = "active"
    BY <1>2 DEF TypeOK
  <2>3. OwnTasks(t) = << >> /\ OwnTasks(t)' = <<"start">>
    BY <1>3, <1>4, <1>5, <1>7, OwnTasksAre, OwnTasksAreNext
  <2>4. Where(t)' = Where(t)
    BY <1>2, <1>6, <1>7 DEF Where
  <2>5. /\ View(t) = Seen("idle", TimeoutSet(t), << >>, Where(t))
        /\ View(t)' = Seen("active", TRUE, <<"start">>, Where(t))
    BY Zenon, <2>1, <2>2, <2>3, <2>4, ViewIs
  <2>6. Append(<< >>, "start") = <<"start">>
    BY TaskSteps
  <2>7. Alone(t)!Next
    BY Zenon, <2>5, <2>6, AloneStart
  <2>8. QED
    BY <2>7, <1>7
<1>8. CASE u # t
  <2>1. state'[u] = state[u] /\ timeout'[u] = timeout[u]
    BY <1>1, <1>2, <1>8 DEF TypeOK
  <2>2. Pending(u, "start")' <=> Pending(u, "start")
    BY <1>4, <1>5, <1>8
  <2>3. Pending(u, "stop")' <=> Pending(u, "stop")
    BY <1>4, <1>5, <1>8
  <2>4. QED
    BY <1>2, <1>6, <2>1, <2>2, <2>3, Unseen
<1>9. QED
  BY <1>7, <1>8

LEMMA StopSeen ==
  ASSUME IInv, NEW t \in TimerId, Stop(t), NEW u \in TimerId
  PROVE  Alone(u)!Next \/ UNCHANGED View(u)
<1>1. /\ TypeOK /\ InStep(t) /\ state[t] = "active"
      /\ state' = [state EXCEPT ![t] = "stopping"]
      /\ Execute(t, "stop") /\ UNCHANGED <<timeout, batch, timerset, firing>>
  BY DEF IInv, Stop
<1>2. ~Pending(t, "stop")
  BY <1>1 DEF InStep
<1>3. "start" \in TaskKinds /\ "stop" \in TaskKinds /\ "stop" # "start"
  BY DEF TaskKinds
<1>4. \A l \in TaskKinds : Pending(u, l)' <=> Pending(u, l) \/ (u = t /\ l = "stop")
  BY <1>1, <1>2, <1>3, Pushed
<1>5. Armed(u)' <=> Armed(u)
  BY <1>1 DEF Armed
<1>6. CASE u = t
  <2>1. state'[t] = "stopping"
    BY <1>1 DEF TypeOK
  <2>2. OwnTasks(t)' = Append(OwnTasks(t), "stop")
    <3>1. (Pending(t, "start")' <=> Pending(t, "start")) /\ Pending(t, "stop")'
      BY <1>3, <1>4, <1>6
    <3>2. CASE Pending(t, "start")
      BY <3>1, <3>2, <1>2, OwnTasksAre, OwnTasksAreNext, StopBehindStart
    <3>3. CASE ~Pending(t, "start")
      BY <3>1, <3>3, <1>2, OwnTasksAre, OwnTasksAreNext, TaskSteps
    <3>4. QED
      BY <3>2, <3>3
  <2>3. Where(t)' = Where(t)
    BY <1>1, <1>5, <1>6 DEF Where
  <2>4. TimeoutSet(t)' = TimeoutSet(t)
    BY <1>1 DEF TimeoutSet
  <2>5. /\ View(t) = Seen("active", TimeoutSet(t), OwnTasks(t), Where(t))
        /\ View(t)' = Seen("stopping", TimeoutSet(t), Append(OwnTasks(t), "stop"), Where(t))
    BY Zenon, <1>1, <2>1, <2>2, <2>3, <2>4, ViewIs
  <2>6. Alone(t)!Next
    BY Zenon, <2>5, AloneStop
  <2>7. QED
    BY <2>6, <1>6
<1>7. CASE u # t
  <2>1. state'[u] = state[u]
    BY <1>1, <1>7 DEF TypeOK
  <2>2. Pending(u, "start")' <=> Pending(u, "start")
    BY <1>3, <1>4, <1>7
  <2>3. Pending(u, "stop")' <=> Pending(u, "stop")
    BY <1>3, <1>4, <1>7
  <2>4. QED
    BY <1>1, <1>5, <2>1, <2>2, <2>3, Unseen
<1>8. QED
  BY <1>6, <1>7

(* The steps of the loop, and the clock, that no timer sees.               *)
LEMMA LoopSeen ==
  ASSUME IInv, NEW u \in TimerId,
         PollerWait \/ TimersetEmpty \/ NoEvents \/ TasksDone \/ TakeTasks \/ Tick
  PROVE  UNCHANGED View(u)
<1>1. UNCHANGED <<state, timeout, firing>>
  BY DEF PollerWait, TimersetEmpty, NoEvents, TasksDone, TakeTasks, Tick
<1>2. \A l : Pending(u, l)' <=> Pending(u, l)
  <2>1. CASE TakeTasks
    <3>1. batch = << >> /\ batch' = tasks /\ tasks' = << >> /\ DOMAIN << >> = {}
      BY <2>1 DEF IInv, Place, TakeTasks
    <3>2. QED
      BY <3>1 DEF Pending, Holds
  <2>2. CASE ~TakeTasks
    <3>1. UNCHANGED <<batch, tasks>>
      BY <2>2 DEF PollerWait, TimersetEmpty, NoEvents, TasksDone, Tick
    <3>2. QED
      BY <3>1 DEF Pending
  <2>3. QED
    BY <2>1, <2>2
<1>3. Armed(u)' <=> Armed(u)
  <2>1. CASE Tick
    <3>1. timerset' = Ticked(timerset) /\ timerset \in Seq(Entries) /\ Sorted(timerset)
      BY <2>1, TypeFacts DEF Tick, Ticked, IInv
    <3>2. InSet(timerset', u) <=> InSet(timerset, u)
      BY <3>1, TickSorted
    <3>3. Armed(u)' <=> InSet(timerset', u)
      BY DEF Armed, InSet
    <3>4. QED
      BY <3>2, <3>3, ArmedIs
  <2>2. CASE ~Tick
    <3>1. UNCHANGED timerset
      BY <2>2 DEF PollerWait, TimersetEmpty, NoEvents, TasksDone, TakeTasks
    <3>2. QED
      BY <3>1 DEF Armed
  <2>3. QED
    BY <2>1, <2>2
<1>4. QED
  BY <1>1, <1>2, <1>3, Unseen

LEMMA TimersetEventSeen ==
  ASSUME IInv, TimersetEvent, NEW u \in TimerId
  PROVE  Alone(u)!Next \/ UNCHANGED View(u)
<1>1. /\ UNCHANGED <<state, timeout, tasks, batch>>
      /\ pc = "Timers" /\ timerset # << >>
      /\ firing' = Head(timerset).timer /\ timerset' = Tail(timerset)
  BY DEF TimersetEvent, Due
<1>2. /\ timerset \in Seq(Entries) /\ Sorted(timerset)
      /\ firing = None /\ None \notin TimerId
  BY <1>1, TypeFacts DEF IInv, Place
<1>3. /\ \A x : InSet(timerset', x) <=> InSet(timerset, x) /\ x # Head(timerset).timer
      /\ 1 \in DOMAIN timerset /\ Head(timerset) = timerset[1]
  BY <1>1, <1>2, TailSorted
<1>4. Armed(u)' <=> Armed(u) /\ u # firing'
  <2>1. Armed(u)' <=> InSet(timerset', u)
    BY DEF Armed, InSet
  <2>2. QED
    BY <2>1, <1>1, <1>3, ArmedIs
<1>5. firing' = u => Armed(u)
  BY <1>1, <1>3 DEF Armed
<1>6. \A l : Pending(u, l)' <=> Pending(u, l)
  BY <1>1 DEF Pending
<1>7. CASE firing' = u
  <2>1. Where(u) = "armed" /\ Where(u)' = "fired"
    BY <1>2, <1>5, <1>7 DEF Where
  <2>2. OwnTasks(u)' = OwnTasks(u) /\ TimeoutSet(u)' = TimeoutSet(u) /\ state'[u] = state[u]
    BY <1>1, <1>6 DEF OwnTasks, TimeoutSet
  <2>3. /\ View(u) = Seen(state[u], TimeoutSet(u), OwnTasks(u), "armed")
        /\ View(u)' = Seen(state[u], TimeoutSet(u), OwnTasks(u), "fired")
    BY Zenon, <2>1, <2>2, ViewIs
  <2>4. QED
    BY Zenon, <2>3, AloneExpire
<1>8. CASE firing' # u
  BY <1>1, <1>2, <1>4, <1>6, <1>8, Unseen
<1>9. QED
  BY <1>7, <1>8

LEMMA FireSeen ==
  ASSUME IInv, Fire, NEW u \in TimerId
  PROVE  Alone(u)!Next \/ UNCHANGED View(u)
<1>1. /\ UNCHANGED <<state, timeout, tasks, batch, timerset>>
      /\ firing' = None /\ None \notin TimerId /\ InStep(u)
  BY TypeFacts DEF Fire, IInv
<1>2. Armed(u)' <=> Armed(u)
  BY <1>1 DEF Armed
<1>3. \A l : Pending(u, l)' <=> Pending(u, l)
  BY <1>1 DEF Pending
<1>4. CASE firing = u
  <2>1. Where(u) = "fired" /\ Where(u)' = "off"
    BY <1>1, <1>2, <1>4 DEF Where, InStep
  <2>2. OwnTasks(u)' = OwnTasks(u) /\ TimeoutSet(u)' = TimeoutSet(u) /\ state'[u] = state[u]
    BY <1>1, <1>3 DEF OwnTasks, TimeoutSet
  <2>3. /\ View(u) = Seen(state[u], TimeoutSet(u), OwnTasks(u), "fired")
        /\ View(u)' = Seen(state[u], TimeoutSet(u), OwnTasks(u), "off")
    BY Zenon, <2>1, <2>2, ViewIs
  <2>4. QED
    BY Zenon, <2>3, AloneFire
<1>5. CASE firing # u
  BY <1>1, <1>2, <1>3, <1>5, Unseen
<1>6. QED
  BY <1>4, <1>5

LEMMA RunStartTaskSeen ==
  ASSUME IInv, RunStartTask, NEW u \in TimerId
  PROVE  Alone(u)!Next \/ UNCHANGED View(u)
<1>0. PICK t \in TimerId : t = Head(batch).timer
  BY Popped DEF RunStartTask
<1>1. /\ UNCHANGED <<state, tasks, efd, firing>>
      /\ pc = "Tasks" /\ batch # << >> /\ Head(batch).kind = "start" /\ batch' = Tail(batch)
      /\ IF state[t] = "active"
         THEN /\ timerset' = TimersetAdd(timerset, t, timeout[t])
              /\ timeout' = [timeout EXCEPT ![t] = Unset]
         ELSE UNCHANGED <<timerset, timeout>>
  BY <1>0 DEF RunStartTask
<1>2. /\ TypeOK /\ timerset \in Seq(Entries) /\ Sorted(timerset) /\ InStep(t)
      /\ firing = None /\ None \notin TimerId
  BY <1>1, TypeFacts DEF IInv, Place
<1>3. "start" \in TaskKinds /\ "stop" \in TaskKinds /\ "stop" # "start"
  BY DEF TaskKinds
<1>4. /\ Pending(t, "start")
      /\ \A l \in TaskKinds : Pending(u, l)' <=> Pending(u, l) /\ ~(u = t /\ l = "start")
  BY <1>0, <1>1, Popped
<1>5. ~Armed(t) /\ firing # t /\ firing # u /\ firing' # u
  BY <1>1, <1>2, <1>4 DEF InStep
<1>6. /\ Armed(u)' <=> Armed(u) \/ (u = t /\ state[t] = "active")
      /\ u # t => timeout'[u] = timeout[u]
      /\ u = t /\ state[t] = "active" => timeout'[u] = Unset
      /\ state[t] # "active" => UNCHANGED timeout
  <2>0. Armed(u)' <=> InSet(timerset', u)
    BY DEF Armed, InSet
  <2>1. CASE state[t] = "active"
    <3>1. timeout[t] \in Nat /\ ~InSet(timerset, t)
      BY <2>1, <1>2, <1>4, <1>5, TypeFacts, ArmedIs DEF InStep
    <3>2. InSet(timerset', u) <=> InSet(timerset, u) \/ u = t
      BY <3>1, <2>1, <1>1, <1>2, AddSorted, SMTT(30)
    <3>3. QED
      BY <3>2, <2>0, <2>1, <1>1, <1>2, ArmedIs DEF TypeOK
  <2>2. CASE state[t] # "active"
    BY <2>2, <1>1 DEF Armed
  <2>3. QED
    BY <2>1, <2>2
<1>7. CASE u = t
  <2>1. Where(t) = "off" /\ Where(t)' = IF state[t] = "active" THEN "armed" ELSE "off"
    BY <1>5, <1>6, <1>7 DEF Where
  <2>2. (Pending(t, "stop")' <=> Pending(t, "stop")) /\ ~Pending(t, "start")'
    BY <1>3, <1>4, <1>7
  <2>3. OwnTasks(t) # << >> /\ Head(OwnTasks(t)) = "start" /\ OwnTasks(t)' = Tail(OwnTasks(t))
    <3>1. CASE Pending(t, "stop")
      <4>1. OwnTasks(t) = <<"start", "stop">>
        BY <3>1, <1>4, OwnTasksAre
      <4>2. OwnTasks(t)' = <<"stop">>
        BY <3>1, <2>2, OwnTasksAreNext
      <4>3. <<"start", "stop">> # << >>
        OBVIOUS
      <4>4. QED
        BY <4>1, <4>2, <4>3, TaskSteps
    <3>2. CASE ~Pending(t, "stop")
      <4>1. OwnTasks(t) = <<"start">>
        BY <3>2, <1>4, OwnTasksAre
      <4>2. OwnTasks(t)' = << >>
        BY <3>2, <2>2, OwnTasksAreNext
      <4>3. <<"start">> # << >>
        OBVIOUS
      <4>4. QED
        BY <4>1, <4>2, <4>3, TaskSteps
    <3>3. QED
      BY <3>1, <3>2
  <2>4. state'[t] = state[t]
    BY <1>1
  <2>5. CASE state[t] = "active"
    <3>1. TimeoutSet(t)' = FALSE
      BY <2>5, <1>6, <1>7 DEF TimeoutSet
    <3>2. Where(t)' = "armed"
      BY <2>1, <2>5
    <3>3. View(t)' = Seen(state[t], FALSE, Tail(OwnTasks(t)), "armed")
      BY Zenon, <2>3, <2>4, <3>1, <3>2, ViewIs
    <3>4. Alone(t)!Next
      BY Zenon, <2>1, <2>3, <2>5, <3>3, ViewIs, AloneStartTask
    <3>5. QED
      BY <3>4, <1>7
  <2>6. CASE state[t] # "active"
    <3>1. TimeoutSet(t)' = TimeoutSet(t)
      BY <2>6, <1>6 DEF TimeoutSet
    <3>2. Where(t)' = Where(t)
      BY <2>1, <2>6
    <3>3. View(t)' = Seen(state[t], TimeoutSet(t), Tail(OwnTasks(t)), Where(t))
      BY Zenon, <2>3, <2>4, <3>1, <3>2, ViewIs
    <3>4. Alone(t)!Next
      BY Zenon, <2>1, <2>3, <2>6, <3>3, ViewIs, AloneStartTask
    <3>5. QED
      BY <3>4, <1>7
  <2>7. QED
    BY <2>5, <2>6
<1>8. CASE u # t
  <2>1. Pending(u, "start")' <=> Pending(u, "start")
    BY <1>3, <1>4, <1>8
  <2>2. Pending(u, "stop")' <=> Pending(u, "stop")
    BY <1>3, <1>4, <1>8
  <2>3. QED
    BY <1>1, <1>5, <1>6, <1>8, <2>1, <2>2, Unseen
<1>9. QED
  BY <1>7, <1>8

LEMMA RunStopTaskSeen ==
  ASSUME IInv, RunStopTask, NEW u \in TimerId
  PROVE  Alone(u)!Next \/ UNCHANGED View(u)
<1>0. PICK t \in TimerId : t = Head(batch).timer
  BY Popped DEF RunStopTask
<1>1. /\ UNCHANGED <<timeout, tasks, efd, firing>>
      /\ pc = "Tasks" /\ batch # << >> /\ Head(batch).kind = "stop" /\ batch' = Tail(batch)
      /\ timerset' = TimersetRm(timerset, t)
      /\ state' = [state EXCEPT ![t] = "idle"]
  BY <1>0 DEF RunStopTask
<1>2. /\ TypeOK /\ timerset \in Seq(Entries) /\ Sorted(timerset)
      /\ firing = None /\ None \notin TimerId
  BY <1>1, TypeFacts DEF IInv, Place
<1>3. "start" \in TaskKinds /\ "stop" \in TaskKinds /\ "stop" # "start"
  BY DEF TaskKinds
<1>4. /\ Pending(t, "stop")
      /\ \A l \in TaskKinds :
            /\ Pending(u, l)' <=> Pending(u, l) /\ ~(u = t /\ l = "stop")
            /\ Pending(u, l)' => ~(u = t)
  BY <1>0, <1>1, <1>3, Popped
<1>5. Armed(u)' <=> Armed(u) /\ u # t
  <2>1. Armed(u)' <=> InSet(timerset', u)
    BY DEF Armed, InSet
  <2>2. QED
    BY <2>1, <1>1, <1>2, RmSorted, ArmedIs
<1>6. firing # u /\ firing' # u
  BY <1>1, <1>2
<1>7. CASE u = t
  <2>1. Where(t) # "fired" /\ Where(t)' = "off" /\ state'[t] = "idle"
    BY <1>1, <1>2, <1>5, <1>6, <1>7 DEF Where, TypeOK
  <2>2. ~Pending(t, "start") /\ ~Pending(t, "start")' /\ ~Pending(t, "stop")'
    BY <1>3, <1>4, <1>7
  <2>3. OwnTasks(t) = <<"stop">> /\ OwnTasks(t)' = Tail(<<"stop">>) /\ Head(<<"stop">>) = "stop"
    BY <2>2, <1>4, OwnTasksAre, OwnTasksAreNext, TaskSteps
  <2>4. OwnTasks(t) # << >>
    BY <2>3
  <2>5. TimeoutSet(t)' = TimeoutSet(t)
    BY <1>1 DEF TimeoutSet
  <2>6. View(t)' = Seen("idle", TimeoutSet(t), Tail(OwnTasks(t)), "off")
    BY Zenon, <2>1, <2>3, <2>5, ViewIs
  <2>7. Alone(t)!Next
    BY Zenon, <2>1, <2>3, <2>4, <2>6, ViewIs, AloneStopTask
  <2>8. QED
    BY <2>7, <1>7
<1>8. CASE u # t
  <2>1. Pending(u, "start")' <=> Pending(u, "start")
    BY <1>3, <1>4, <1>8
  <2>2. Pending(u, "stop")' <=> Pending(u, "stop")
    BY <1>3, <1>4, <1>8
  <2>3. state'[u] = state[u]
    BY <1>1, <1>2, <1>8 DEF TypeOK
  <2>4. QED
    BY <1>1, <1>5, <1>6, <1>8, <2>1, <2>2, <2>3, Unseen
<1>9. QED
  BY <1>7, <1>8

LEMMA InitSeen == ASSUME Init, NEW t \in TimerId PROVE Alone(t)!Init
<1>1. DOMAIN << >> = {}
  OBVIOUS
<1>2. ~Pending(t, "start") /\ ~Pending(t, "stop") /\ ~Armed(t)
  BY <1>1 DEF Init, Pending, Holds, Armed
<1>3. TimeoutSet(t) = FALSE /\ OwnTasks(t) = << >> /\ Where(t) = "off" /\ state[t] = "idle"
  BY <1>2, OwnTasksAre, TimersAssumption DEF Init, TimeoutSet, Where, None
<1>4. View(t) = Seen("idle", FALSE, << >>, "off")
  BY Zenon, <1>3, ViewIs
<1>5. QED
  BY Zenon, <1>4 DEF Alone!Init, Alone!IdleTimer, Seen

(* Each timer of the shared worker behaves as one with a worker of its     *)
(* own: the queue, its batches and the other timers cannot be told.        *)
THEOREM ActsAlone == Spec => TimerAlone
<1>1. Init => \A t \in TimerId : Alone(t)!Init
  BY InitSeen
<1>2. IInv /\ [Next]_vars => [\A t \in TimerId : Alone(t)!Next \/ UNCHANGED View(t)]_vars
  <2>1. ASSUME IInv, Next, NEW u \in TimerId
        PROVE  Alone(u)!Next \/ UNCHANGED View(u)
    BY <2>1, StartSeen, StopSeen, LoopSeen, TimersetEventSeen, FireSeen, RunStartTaskSeen,
       RunStopTaskSeen DEF Next, WorkerStep
  <2>2. QED
    BY <2>1
<1>3. QED
  BY <1>1, <1>2, Invariant, PTL DEF Spec, TimerAlone

-----------------------------------------------------------------------------
(* The timer of timer.c and its share of the worker never drift apart.     *)

(* The instance has operators of its own, the same as those of TimerOps.   *)
LEMMA AloneOps ==
  ASSUME NEW t \in TimerId, NEW x
  PROVE  /\ Alone(t)!TimerIsIdle(x) <=> TimerIsIdle(x)
         /\ Alone(t)!StartTaskDue(x) <=> StartTaskDue(x)
         /\ Alone(t)!StopTaskDue(x) <=> StopTaskDue(x)
         /\ Alone(t)!Started(x) = Started(x) /\ Alone(t)!StopRequested(x) = StopRequested(x)
         /\ Alone(t)!AfterStartTask(x) = AfterStartTask(x)
         /\ Alone(t)!AfterStopTask(x) = AfterStopTask(x)
         /\ Alone(t)!Expired(x) = Expired(x) /\ Alone(t)!AfterFired(x) = AfterFired(x)
         /\ Alone(t)!IdleTimer = IdleTimer
         /\ Alone(t)!TimerConsistent(x) <=> TimerConsistent(x)
<1>1. /\ Alone(t)!TimerIsIdle(x) <=> TimerIsIdle(x)
      /\ Alone(t)!StartTaskDue(x) <=> StartTaskDue(x)
      /\ Alone(t)!StopTaskDue(x) <=> StopTaskDue(x)
  BY DEF Alone!TimerIsIdle, TimerIsIdle, Alone!StartTaskDue, StartTaskDue,
         Alone!StopTaskDue, StopTaskDue
<1>2. Alone(t)!Started(x) = Started(x) /\ Alone(t)!StopRequested(x) = StopRequested(x)
  BY Zenon DEF Alone!Started, Started, Alone!StopRequested, StopRequested
<1>3. /\ Alone(t)!AfterStartTask(x) = AfterStartTask(x)
      /\ Alone(t)!AfterStopTask(x) = AfterStopTask(x)
  BY Zenon DEF Alone!AfterStartTask, AfterStartTask, Alone!AfterStopTask, AfterStopTask
<1>4. Alone(t)!Expired(x) = Expired(x) /\ Alone(t)!AfterFired(x) = AfterFired(x)
  BY Zenon DEF Alone!Expired, Expired, Alone!AfterFired, AfterFired
<1>5. Alone(t)!IdleTimer = IdleTimer
  BY Zenon DEF Alone!IdleTimer, IdleTimer
<1>6. Alone(t)!TimerConsistent(x) <=> TimerConsistent(x)
  BY Zenon DEF Alone!TimerConsistent, TimerConsistent, Alone!Timers, Timers, Alone!TimerStates,
         TimerStates, Alone!TaskQueues, TaskQueues, Alone!WTimer, WTimer
<1>7. QED
  BY <1>1, <1>2, <1>3, <1>4, <1>5, <1>6

(* Stopping before the start task ran, an expiry popped but not delivered, *)
(* and a restart right after STOPPED are the cases timer.c has to get right.*)
LEMMA AloneKeeps ==
  ASSUME NEW t \in TimerId, TimerConsistent(View(t)), Alone(t)!Next
  PROVE  TimerConsistent(View(t)')
<1>1. CASE Alone(t)!Start
  BY <1>1, AloneOps, StartConsistent DEF Alone!Start, TimerIsIdle
<1>2. CASE Alone(t)!Stop
  BY <1>2, AloneOps, StopConsistent DEF Alone!Stop
<1>3. CASE Alone(t)!StartTask
  BY <1>3, AloneOps, StartTaskConsistent DEF Alone!StartTask
<1>4. CASE Alone(t)!StopTask
  BY <1>4, AloneOps, StopTaskConsistent DEF Alone!StopTask
<1>5. CASE Alone(t)!Expire
  BY <1>5, AloneOps, ExpiryConsistent DEF Alone!Expire
<1>6. CASE Alone(t)!Fire
  BY <1>6, AloneOps, ExpiryConsistent DEF Alone!Fire
<1>7. QED
  BY <1>1, <1>2, <1>3, <1>4, <1>5, <1>6 DEF Alone!Next

(* An idle timer has nothing queued and nothing armed, an armed timer has  *)
(* consumed its start task, and a stop task is queued exactly while the    *)
(* timer is stopping (timer.c:76-110): of any timer with a worker of its   *)
(* own ...                                                                 *)
THEOREM TimerIsConsistent ==
  ASSUME NEW t \in TimerId
  PROVE  Alone(t)!Spec => []Alone(t)!TimerInv
<1>1. Alone(t)!Init => Alone(t)!TimerInv
  BY AloneOps, IdleConsistent DEF Alone!Init, Alone!TimerInv
<1>2. Alone(t)!TimerInv /\ [Alone(t)!Next]_(View(t)) => Alone(t)!TimerInv'
  <2>1. ASSUME Alone(t)!TimerInv, Alone(t)!Next PROVE Alone(t)!TimerInv'
    BY <2>1, AloneOps, AloneKeeps DEF Alone!TimerInv
  <2>2. ASSUME Alone(t)!TimerInv, UNCHANGED View(t) PROVE Alone(t)!TimerInv'
    BY <2>2, AloneOps DEF Alone!TimerInv
  <2>3. QED
    BY <2>1, <2>2
<1>3. QED
  BY <1>1, <1>2, PTL DEF Alone!Spec

(* ... and hence of every timer that shares the worker.                    *)
THEOREM TimersAreConsistent == Spec => [](\A t \in TimerId : TimerConsistent(View(t)))
<1>. DEFINE K == \A t \in TimerId : TimerConsistent(View(t))
<1>1. Init => K
  BY InitSeen, AloneOps, IdleConsistent DEF Alone!Init
<1>2. K /\ [\A t \in TimerId : Alone(t)!Next \/ UNCHANGED View(t)]_vars => K'
  <2>1. ASSUME K, NEW u \in TimerId, Alone(u)!Next \/ UNCHANGED View(u)
        PROVE  TimerConsistent(View(u))'
    BY <2>1, AloneKeeps
  <2>2. ASSUME K, UNCHANGED vars, NEW u \in TimerId PROVE TimerConsistent(View(u))'
    <3>1. UNCHANGED View(u)
      BY <2>2 DEF vars, View, OwnTasks, Pending, Holds, Armed
    <3>2. QED
      BY <3>1, <2>2
  <2>3. QED
    BY <2>1, <2>2
<1>3. QED
  BY <1>1, <1>2, ActsAlone, PTL DEF Spec, TimerAlone
=============================================================================
