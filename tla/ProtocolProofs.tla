--------------------------- MODULE ProtocolProofs ---------------------------
(***************************************************************************)
(* The prioritised list of pipes and the sockets built on it, for any set  *)
(* of pipes and any number of priorities: the list is consistent, messages *)
(* go round robin within a priority, the load balancer and the fair queue  *)
(* implement Scheduler, and the sockets of Patterns count their chunks and *)
(* know the pipes that can be used.                                        *)
(*                                                                         *)
(* Lemmas on one slot, a sequence with its cursor, come first: what the    *)
(* erasure of a pipe, a new pipe at the end and the advance of the cursor  *)
(* do to the order in which the pipes come up next.  Lemmas on the whole   *)
(* list follow, one for each operation of priolist.c.                      *)
(*                                                                         *)
(* The SURVEYOR socket comes last.  SurveyConsistent is inductive as it    *)
(* stands: the timer is known in every state, so that each handler has a   *)
(* case for each of its events, for any respondents, deadlines and number  *)
(* of surveys.  With it every step is one of SurveyClient or is not seen   *)
(* by the user.                                                            *)
(***************************************************************************)
EXTENDS Balancer, Patterns, Surveyor, TimerLemmas, FiniteSetTheorems,
        SequenceTheorems, WellFoundedInduction, TLAPS

-----------------------------------------------------------------------------
(* One slot.                                                               *)

(* From the cursor at c onwards, and over the end of the list, index i     *)
(* comes before index j.                                                   *)
InOrder(c, i, j) == IF i >= c THEN j < c \/ i < j ELSE j < c /\ i < j
Precedes(seq, cur, q, p) ==
    \E c, i, j \in DOMAIN seq : seq[c] = cur /\ seq[i] = q /\ seq[j] = p /\ InOrder(c, i, j)

(* The slot holds the pipes of a set, each once, and points to one.        *)
SlotHolds(seq, cur, set) ==
    /\ seq \in Seq(Pipes) /\ IsInjective(seq) /\ ToSet(seq) = set
    /\ IF seq = << >> THEN cur = None ELSE Contains(seq, cur)

LEMMA SeqFacts ==
  ASSUME NEW seq \in Seq(Pipes)
  PROVE  /\ Len(seq) \in Nat /\ DOMAIN seq = 1..Len(seq)
         /\ \A i \in 1..Len(seq) : seq[i] \in Pipes
         /\ seq = << >> <=> Len(seq) = 0
BY LenProperties, EmptySeq

LEMMA SlotIndices ==
  ASSUME NEW seq, NEW cur, NEW set, SlotHolds(seq, cur, set)
  PROVE  /\ seq \in Seq(Pipes) /\ Len(seq) \in Nat /\ DOMAIN seq = 1..Len(seq)
         /\ set \subseteq Pipes
         /\ \A i, j \in 1..Len(seq) : seq[i] = seq[j] => i = j
         /\ set = {seq[i] : i \in 1..Len(seq)}
         /\ \A i \in 1..Len(seq) : seq[i] \in Pipes /\ At(seq, seq[i]) = i
         /\ seq = << >> <=> Len(seq) = 0
         /\ Len(seq) > 0 => \E c \in 1..Len(seq) : seq[c] = cur
<1>1. seq \in Seq(Pipes) /\ IsInjective(seq) /\ ToSet(seq) = set
  BY DEF SlotHolds
<1>2. /\ Len(seq) \in Nat /\ DOMAIN seq = 1..Len(seq)
      /\ \A i \in 1..Len(seq) : seq[i] \in Pipes
      /\ seq = << >> <=> Len(seq) = 0
  BY <1>1, SeqFacts
<1>3. \A i, j \in 1..Len(seq) : seq[i] = seq[j] => i = j
  BY <1>1, <1>2 DEF IsInjective
<1>4. \A i \in 1..Len(seq) : At(seq, seq[i]) = i
  BY <1>2, <1>3 DEF At
<1>5. set = {seq[i] : i \in 1..Len(seq)}
  BY <1>1, <1>2 DEF ToSet
<1>6. Len(seq) > 0 => \E c \in 1..Len(seq) : seq[c] = cur
  BY <1>2 DEF SlotHolds, Contains
<1>7. QED
  BY <1>1, <1>2, <1>3, <1>4, <1>5, <1>6

(* The converse, to establish it.                                          *)
LEMMA SlotByIndices ==
  ASSUME NEW seq \in Seq(Pipes), NEW cur, NEW set,
         \A i, j \in 1..Len(seq) : seq[i] = seq[j] => i = j,
         \A p : p \in set <=> \E i \in 1..Len(seq) : seq[i] = p,
         Len(seq) = 0 => cur = None,
         Len(seq) > 0 => \E c \in 1..Len(seq) : seq[c] = cur
  PROVE  SlotHolds(seq, cur, set)
<1>1. /\ Len(seq) \in Nat /\ DOMAIN seq = 1..Len(seq)
      /\ seq = << >> <=> Len(seq) = 0
  BY SeqFacts
<1>2. IsInjective(seq)
  BY <1>1 DEF IsInjective
<1>3. ToSet(seq) = set
  BY <1>1 DEF ToSet
<1>4. QED
  BY <1>1, <1>2, <1>3 DEF SlotHolds, Contains

(* The order after an element is erased at e, the cursor moving on to the  *)
(* next if it was there, and after the cursor moves on.                    *)
To(e, i) == IF i < e THEN i ELSE i - 1
ErasedCursor(n, e, c) == IF c # e THEN To(e, c) ELSE IF e = n THEN 1 ELSE e
NextCursor(n, c) == IF c = n THEN 1 ELSE c + 1

LEMMA OrderKept ==
  ASSUME NEW n \in Nat, NEW c \in 1..n, NEW i \in 1..n, NEW j \in 1..n
  PROVE  /\ ~InOrder(c, i, c)
         /\ \A e \in 1..n : InOrder(c, i, j) /\ i # e /\ j # e
               => InOrder(ErasedCursor(n, e, c), To(e, i), To(e, j))
         /\ InOrder(c, i, j) /\ i # c => InOrder(NextCursor(n, c), i, j)
         /\ i # c => InOrder(NextCursor(n, c), i, c)
BY DEF InOrder, ErasedCursor, NextCursor, To

(* The next pipe does not precede the cursor, in any slot.                 *)
LEMMA CursorFirst ==
  ASSUME NEW seq, NEW cur, NEW set, SlotHolds(seq, cur, set), NEW q
  PROVE  ~Precedes(seq, cur, q, cur)
<1>1. DOMAIN seq = 1..Len(seq) /\ Len(seq) \in Nat
      /\ \A i, j \in 1..Len(seq) : seq[i] = seq[j] => i = j
  BY SlotIndices
<1>2. \A c, i \in 1..Len(seq) : ~InOrder(c, i, c)
  BY <1>1, OrderKept
<1>3. QED
  BY <1>1, <1>2 DEF Precedes

(* RemoveAt by its elements.                                               *)
LEMMA Removed ==
  ASSUME NEW seq \in Seq(Pipes), NEW e \in 1..Len(seq)
  PROVE  /\ RemoveAt(seq, e) \in Seq(Pipes)
         /\ Len(RemoveAt(seq, e)) = Len(seq) - 1
         /\ \A i \in 1..Len(seq) - 1 :
               RemoveAt(seq, e)[i] = IF i < e THEN seq[i] ELSE seq[i + 1]
<1>. DEFINE a == SubSeq(seq, 1, e - 1)
            b == SubSeq(seq, e + 1, Len(seq))
<1>0. Len(seq) \in Nat /\ \A i \in 1..Len(seq) : seq[i] \in Pipes
  BY SeqFacts
<1>1. /\ a \in Seq(Pipes) /\ Len(a) = e - 1 /\ \A i \in 1..e - 1 : a[i] = seq[i]
  <2>1. 1 \in Int /\ e - 1 \in Int /\ \A i \in 1..e - 1 : seq[i] \in Pipes
    BY <1>0
  <2>2. /\ a \in Seq(Pipes) /\ Len(a) = IF 1 <= e - 1 THEN e - 1 - 1 + 1 ELSE 0
        /\ \A i \in 1..e - 1 - 1 + 1 : a[i] = seq[1 + i - 1]
    BY <2>1, SubSeqProperties
  <2>3. QED
    BY <1>0, <2>2
<1>2. /\ b \in Seq(Pipes) /\ Len(b) = Len(seq) - e
      /\ \A i \in 1..Len(seq) - e : b[i] = seq[e + i]
  <2>1. e + 1 \in Int /\ Len(seq) \in Int /\ \A i \in e + 1..Len(seq) : seq[i] \in Pipes
    BY <1>0
  <2>2. /\ b \in Seq(Pipes)
        /\ Len(b) = IF e + 1 <= Len(seq) THEN Len(seq) - (e + 1) + 1 ELSE 0
        /\ \A i \in 1..Len(seq) - (e + 1) + 1 : b[i] = seq[e + 1 + i - 1]
    BY <2>1, SubSeqProperties
  <2>3. QED
    BY <1>0, <2>2
<1>. HIDE DEF a, b
<1>3. /\ a \o b \in Seq(Pipes) /\ Len(a \o b) = Len(a) + Len(b)
      /\ \A i \in 1..Len(a) + Len(b) :
            (a \o b)[i] = IF i <= Len(a) THEN a[i] ELSE b[i - Len(a)]
  BY <1>1, <1>2, ConcatProperties
<1>. DEFINE r == a \o b
<1>. HIDE DEF r
<1>4. /\ r \in Seq(Pipes) /\ Len(r) = Len(seq) - 1
      /\ \A i \in 1..Len(seq) - 1 : r[i] = IF i < e THEN seq[i] ELSE seq[i + 1]
  <2>1. PICK n \in Nat : n = Len(seq) /\ e \in 1..n
    BY <1>0
  <2>2. /\ r \in Seq(Pipes) /\ Len(r) = e - 1 + (n - e)
        /\ \A i \in 1..e - 1 + (n - e) :
              r[i] = IF i <= e - 1 THEN a[i] ELSE b[i - (e - 1)]
    BY <1>1, <1>2, <1>3, <2>1 DEF r
  <2>3. e - 1 + (n - e) = n - 1
    BY <2>1
  <2>4. ASSUME NEW i \in 1..n - 1
        PROVE  r[i] = IF i < e THEN seq[i] ELSE seq[i + 1]
    <3>1. r[i] = IF i <= e - 1 THEN a[i] ELSE b[i - (e - 1)]
      BY <2>2, <2>3
    <3>2. CASE i < e
      <4>1. i \in 1..e - 1 /\ i <= e - 1
        BY <2>1, <3>2
      <4>2. QED
        BY <1>1, <3>1, <3>2, <4>1
    <3>3. CASE ~(i < e)
      <4>1. PICK m \in 1..n - e : m = i - (e - 1) /\ e + m = i + 1 /\ ~(i <= e - 1)
        BY <2>1, <3>3
      <4>2. b[m] = seq[e + m]
        BY <1>2, <2>1
      <4>3. QED
        BY <3>1, <3>3, <4>1, <4>2
    <3>4. QED
      BY <3>2, <3>3
  <2>5. QED
    BY <2>1, <2>2, <2>3, <2>4
<1>5. QED
  BY <1>4 DEF RemoveAt, r, a, b

(* A new pipe is appended: it comes before nobody who was there, and the   *)
(* others keep their order.                                                *)
LEMMA AppendSlot ==
  ASSUME NEW seq, NEW cur, NEW set, SlotHolds(seq, cur, set), NEW x \in Pipes \ set
  PROVE  /\ SlotHolds(Append(seq, x), IF seq = << >> THEN x ELSE cur, set \cup {x})
         /\ \A q, p : Precedes(seq, cur, q, p) =>
               Precedes(Append(seq, x), IF seq = << >> THEN x ELSE cur, q, p)
<1>. DEFINE new == Append(seq, x)
            c1  == IF seq = << >> THEN x ELSE cur
<1>1. /\ seq \in Seq(Pipes) /\ Len(seq) \in Nat /\ DOMAIN seq = 1..Len(seq)
      /\ \A i, j \in 1..Len(seq) : seq[i] = seq[j] => i = j
      /\ set = {seq[i] : i \in 1..Len(seq)}
      /\ seq = << >> <=> Len(seq) = 0
      /\ Len(seq) > 0 => \E c \in 1..Len(seq) : seq[c] = cur
  BY SlotIndices
<1>2. /\ new \in Seq(Pipes) /\ Len(new) = Len(seq) + 1
      /\ \A i \in 1..Len(seq) : new[i] = seq[i]
      /\ new[Len(seq) + 1] = x
  BY <1>1, AppendProperties
<1>3. DOMAIN new = 1..Len(seq) + 1
  BY <1>2, SeqFacts
<1>. HIDE DEF new
<1>4. SlotHolds(new, c1, set \cup {x})
  <2>1. \A i, j \in 1..Len(new) : new[i] = new[j] => i = j
    BY <1>1, <1>2
  <2>2. \A p : p \in set \cup {x} <=> \E i \in 1..Len(new) : new[i] = p
    BY <1>1, <1>2
  <2>3. \E c \in 1..Len(new) : new[c] = c1
    BY <1>1, <1>2
  <2>4. QED
    BY <1>1, <1>2, <2>1, <2>2, <2>3, SlotByIndices
<1>5. ASSUME NEW q, NEW p, Precedes(seq, cur, q, p)
      PROVE  Precedes(new, c1, q, p)
  <2>1. PICK c \in DOMAIN seq, i \in DOMAIN seq, j \in DOMAIN seq :
                seq[c] = cur /\ seq[i] = q /\ seq[j] = p /\ InOrder(c, i, j)
    BY <1>5 DEF Precedes
  <2>2. c \in DOMAIN new /\ i \in DOMAIN new /\ j \in DOMAIN new /\ seq # << >>
    BY <1>1, <1>3, <2>1
  <2>3. new[c] = c1 /\ new[i] = q /\ new[j] = p
    BY <1>1, <1>2, <2>1, <2>2
  <2>4. QED
    BY <2>1, <2>2, <2>3 DEF Precedes
<1>6. QED
  BY <1>4, <1>5 DEF new

(* A pipe is erased, the cursor moving on if it was on that pipe: the      *)
(* others keep their order.                                                *)
LEMMA EraseSlot ==
  ASSUME NEW seq, NEW cur, NEW set, SlotHolds(seq, cur, set), NEW x \in set,
         NEW next, next = IF cur = x THEN AfterErase(seq, x) ELSE cur
  PROVE  /\ SlotHolds(Erase(seq, x), next, set \ {x})
         /\ \A q, p : Precedes(seq, cur, q, p) /\ q # x /\ p # x =>
               Precedes(Erase(seq, x), next, q, p)
<1>1. /\ seq \in Seq(Pipes) /\ Len(seq) \in Nat /\ DOMAIN seq = 1..Len(seq)
      /\ \A i, j \in 1..Len(seq) : seq[i] = seq[j] => i = j
      /\ set = {seq[i] : i \in 1..Len(seq)}
      /\ \A i \in 1..Len(seq) : At(seq, seq[i]) = i
      /\ seq = << >> <=> Len(seq) = 0
      /\ Len(seq) > 0 => \E c \in 1..Len(seq) : seq[c] = cur
  BY SlotIndices
<1>2. PICK e \in 1..Len(seq) : seq[e] = x
  BY <1>1
<1>3. PICK c \in 1..Len(seq) : seq[c] = cur
  BY <1>1, <1>2
<1>4. At(seq, x) = e /\ Contains(seq, x)
  BY <1>1, <1>2 DEF Contains
<1>. DEFINE new == Erase(seq, x)
<1>5. /\ new \in Seq(Pipes) /\ Len(new) = Len(seq) - 1
      /\ \A i \in 1..Len(seq) - 1 : new[i] = IF i < e THEN seq[i] ELSE seq[i + 1]
  <2>1. new = RemoveAt(seq, e)
    BY <1>4 DEF Erase
  <2>. HIDE DEF new
  <2>2. seq \in Seq(Pipes) /\ e \in 1..Len(seq)
    BY <1>1
  <2>3. QED
    BY <2>1, <2>2, Removed
<1>6. DOMAIN new = 1..Len(seq) - 1
  BY <1>5, SeqFacts
<1>. HIDE DEF new
(* Where an element of the old list is in the new one.                     *)
<1>. DEFINE n == Len(seq)
            d == ErasedCursor(n, e, c)
<1>n. n \in Nat /\ e \in 1..n /\ c \in 1..n
  BY <1>1
<1>7. \A i \in 1..n : i # e => To(e, i) \in 1..n - 1 /\ new[To(e, i)] = seq[i]
  <2>. HIDE DEF n
  <2>. TAKE i \in 1..n
  <2>1. CASE i < e
    BY <1>5, <1>n, <2>1 DEF To, n
  <2>2. CASE i > e
    <3>1. i - 1 \in 1..n - 1 /\ ~(i - 1 < e) /\ i - 1 + 1 = i
      BY <1>n, <2>2
    <3>2. new[i - 1] = seq[i]
      BY <1>5, <3>1 DEF n
    <3>3. QED
      BY <1>n, <2>2, <3>1, <3>2 DEF To
  <2>3. QED
    BY <1>n, <2>1, <2>2
<1>8. IF n = 1 THEN next = None ELSE d \in 1..n - 1 /\ new[d] = next
  <2>1. CASE c # e
    <3>1. next = seq[c] /\ n # 1
      BY <1>1, <1>2, <1>3, <2>1
    <3>2. QED
      BY <1>7, <2>1, <3>1 DEF ErasedCursor
  <2>2. CASE c = e /\ e = n
    <3>1. cur = x /\ After(seq, x) = seq[1] /\ seq # << >>
      BY <1>1, <1>2, <1>3, <1>4, <2>2 DEF After, First
    <3>2. next = IF seq[1] = x THEN None ELSE seq[1]
      BY <3>1 DEF AfterErase
    <3>3. seq[1] = x <=> n = 1
      BY <1>1, <1>2, <2>2
    <3>4. n # 1 => d = 1 /\ 1 \in 1..n - 1 /\ 1 < e
      BY <1>n, <2>2 DEF ErasedCursor
    <3>5. QED
      BY <1>1, <1>5, <2>2, <3>2, <3>3, <3>4
  <2>3. CASE c = e /\ e # n
    <3>1. cur = x /\ After(seq, x) = seq[e + 1]
      BY <1>2, <1>3, <1>4, <2>3 DEF After
    <3>2. e + 1 \in 1..n /\ e + 1 # e /\ e \in 1..n - 1 /\ ~(e < e) /\ n # 1
      <4>. HIDE DEF n
      <4>1. QED
        BY <1>n, <2>3
    <3>3. seq[e + 1] # x
      BY <1>1, <1>2, <3>2
    <3>4. next = seq[e + 1]
      BY <3>1, <3>3 DEF AfterErase
    <3>5. new[e] = seq[e + 1]
      BY <1>5, <3>2
    <3>6. d = e
      BY <2>3 DEF ErasedCursor
    <3>7. QED
      BY <3>2, <3>4, <3>5, <3>6
  <2>4. QED
    BY <2>1, <2>2, <2>3
<1>9. SlotHolds(new, next, set \ {x})
  <2>1. \A i, j \in 1..Len(new) : new[i] = new[j] => i = j
    BY <1>1, <1>5
  <2>2. \A p : p \in set \ {x} <=> \E i \in 1..Len(new) : new[i] = p
    <3>1. ASSUME NEW p \in set \ {x} PROVE \E i \in 1..Len(new) : new[i] = p
      <4>1. PICK i \in 1..n : seq[i] = p /\ i # e
        BY <1>1, <1>2
      <4>2. QED
        BY <1>5, <1>7, <4>1
    <3>2. ASSUME NEW i \in 1..Len(new) PROVE new[i] \in set \ {x}
      BY <1>1, <1>2, <1>5
    <3>3. QED
      BY <3>1, <3>2
  <2>3. Len(new) = 0 => next = None
    <3>1. Len(new) = 0 => n = 1
      BY <1>5, <1>n
    <3>2. QED
      BY <1>8, <3>1
  <2>4. Len(new) > 0 => \E i \in 1..Len(new) : new[i] = next
    <3>1. Len(new) > 0 => n # 1
      BY <1>5, <1>n
    <3>2. QED
      BY <1>5, <1>8, <3>1
  <2>5. QED
    BY <1>5, <2>1, <2>2, <2>3, <2>4, SlotByIndices
<1>10. ASSUME NEW q, NEW p, Precedes(seq, cur, q, p), q # x, p # x
       PROVE  Precedes(new, next, q, p)
  <2>1. PICK b \in 1..n, i \in 1..n, j \in 1..n :
                seq[b] = cur /\ seq[i] = q /\ seq[j] = p /\ InOrder(b, i, j)
    BY <1>1, <1>10 DEF Precedes
  <2>2. b = c /\ i # e /\ j # e
    BY <1>1, <1>2, <1>3, <1>10, <2>1
  <2>3. n # 1
    BY <1>2, <2>1, <2>2
  <2>4. d \in 1..n - 1 /\ new[d] = next
    BY <1>8, <2>3
  <2>5. To(e, i) \in 1..n - 1 /\ new[To(e, i)] = q
        /\ To(e, j) \in 1..n - 1 /\ new[To(e, j)] = p
    BY <1>7, <2>1, <2>2
  <2>6. InOrder(d, To(e, i), To(e, j))
    BY <1>n, <2>1, <2>2, OrderKept
  <2>. HIDE DEF d
  <2>7. QED
    BY <1>6, <2>4, <2>5, <2>6 DEF Precedes
<1>11. QED
  BY <1>9, <1>10 DEF new

(* The cursor moves on: the pipe that was next becomes the last.           *)
LEMMA AdvanceSlot ==
  ASSUME NEW seq, NEW cur, NEW set, SlotHolds(seq, cur, set), seq # << >>
  PROVE  /\ SlotHolds(seq, After(seq, cur), set)
         /\ \A q, p : Precedes(seq, cur, q, p) /\ q # cur =>
               Precedes(seq, After(seq, cur), q, p)
         /\ \A q \in set \ {cur} : Precedes(seq, After(seq, cur), q, cur)
<1>1. /\ seq \in Seq(Pipes) /\ Len(seq) \in Nat /\ DOMAIN seq = 1..Len(seq)
      /\ \A i, j \in 1..Len(seq) : seq[i] = seq[j] => i = j
      /\ set = {seq[i] : i \in 1..Len(seq)}
      /\ \A i \in 1..Len(seq) : At(seq, seq[i]) = i
      /\ seq = << >> <=> Len(seq) = 0
      /\ Len(seq) > 0 => \E c \in 1..Len(seq) : seq[c] = cur
  BY SlotIndices
<1>2. PICK c \in 1..Len(seq) : seq[c] = cur
  BY <1>1
<1>. DEFINE d == NextCursor(Len(seq), c)
            next == After(seq, cur)
<1>3. d \in 1..Len(seq) /\ seq[d] = next
  <2>1. next = IF c = Len(seq) THEN seq[1] ELSE seq[c + 1]
    <3>1. At(seq, cur) = c
      BY <1>1, <1>2
    <3>2. First(seq) = seq[1]
      BY DEF First
    <3>3. QED
      BY <3>1, <3>2 DEF After, next
  <2>2. d \in 1..Len(seq) /\ d = IF c = Len(seq) THEN 1 ELSE c + 1
    <3>1. PICK n \in Nat : n = Len(seq) /\ c \in 1..n
      BY <1>1
    <3>2. QED
      BY <3>1, SMTT(30) DEF NextCursor
  <2>3. QED
    BY <2>1, <2>2
<1>. HIDE DEF next
<1>4. SlotHolds(seq, next, set)
  <2>1. \A p : p \in set <=> \E i \in 1..Len(seq) : seq[i] = p
    BY <1>1
  <2>2. Len(seq) > 0
    BY <1>1
  <2>3. QED
    BY <1>1, <1>3, <2>1, <2>2, SlotByIndices
<1>5. ASSUME NEW q, NEW p, Precedes(seq, cur, q, p), q # cur
      PROVE  Precedes(seq, next, q, p)
  <2>1. PICK b \in 1..Len(seq), i \in 1..Len(seq), j \in 1..Len(seq) :
                seq[b] = cur /\ seq[i] = q /\ seq[j] = p /\ InOrder(b, i, j)
    BY <1>1, <1>5 DEF Precedes
  <2>2. b = c /\ i # c
    BY <1>1, <1>2, <1>5, <2>1
  <2>3. InOrder(d, i, j)
    BY <1>1, <2>1, <2>2, OrderKept
  <2>. HIDE DEF d
  <2>4. QED
    BY <1>1, <1>3, <2>1, <2>3 DEF Precedes
<1>6. ASSUME NEW q \in set \ {cur}
      PROVE  Precedes(seq, next, q, cur)
  <2>1. PICK i \in 1..Len(seq) : seq[i] = q /\ i # c
    BY <1>1, <1>2
  <2>2. InOrder(d, i, c)
    BY <1>1, <2>1, OrderKept
  <2>. HIDE DEF d
  <2>3. QED
    BY <1>1, <1>2, <1>3, <2>1, <2>2 DEF Precedes
<1>7. QED
  BY <1>4, <1>5, <1>6 DEF next

-----------------------------------------------------------------------------
(* The slot to be used.                                                    *)

LEMMA MinOfNats ==
  ASSUME NEW S \in SUBSET Nat, S # {}
  PROVE  Min(S) \in S /\ \A y \in S : Min(S) <= y
<1>1. PICK x \in S : \A y \in S : ~(<<y, x>> \in OpToRel(<, Nat))
  BY NatLessThanWellFounded, WFMin
<1>2. \A y \in S : x <= y
  <2>1. \A y \in Nat : y < x => <<y, x>> \in OpToRel(<, Nat)
    BY DEF OpToRel
  <2>2. \A y \in S : ~(y < x) /\ y \in Nat /\ x \in Nat
    BY <1>1, <2>1
  <2>3. QED
    BY <2>2
<1>3. QED
  BY <1>2 DEF Min

(* The first slot from s on that is not empty, or -1.                      *)
FirstFull(pipes, s, c) ==
    \/ c = -1 /\ \A k \in s..Slots : pipes[k] = << >>
    \/ /\ c \in s..Slots /\ pipes[c] # << >>
       /\ \A k \in s..Slots : pipes[k] # << >> => c <= k

LEMMA NonEmptyFromIs ==
  ASSUME NEW pipes, NEW s \in Priorities
  PROVE  /\ FirstFull(pipes, s, NonEmptyFrom(pipes, s))
         /\ \A c : FirstFull(pipes, s, c) => c = NonEmptyFrom(pipes, s)
<1>. DEFINE S == {k \in s..Slots : pipes[k] # << >>}
<1>1. S \in SUBSET Nat /\ Slots \in Nat /\ s \in Nat
  BY SlotsAssumption DEF Priorities
<1>2. NonEmptyFrom(pipes, s) = IF S = {} THEN -1 ELSE Min(S)
  BY DEF NonEmptyFrom
<1>3. CASE S = {}
  BY <1>1, <1>2, <1>3 DEF FirstFull
<1>4. CASE S # {}
  <2>1. Min(S) \in S /\ \A y \in S : Min(S) <= y
    BY <1>1, <1>4, MinOfNats
  <2>2. FirstFull(pipes, s, Min(S))
    BY <1>1, <2>1 DEF FirstFull
  <2>3. ASSUME NEW c, FirstFull(pipes, s, c) PROVE c = Min(S)
    <3>1. c \in S /\ \A k \in S : c <= k
      BY <1>4, <2>3 DEF FirstFull
    <3>2. c <= Min(S) /\ Min(S) <= c /\ c \in Nat /\ Min(S) \in Nat
      BY <1>1, <2>1, <3>1
    <3>3. QED
      BY <3>2
  <2>4. QED
    BY <1>2, <1>4, <2>2, <2>3
<1>5. QED
  BY <1>3, <1>4

-----------------------------------------------------------------------------
(* The list.                                                               *)

InSlot(S, d, s) == {p \in S : d[p] = s}

(* The list holds the pipes of S and no other, each in the slot of its     *)
(* priority d, and its current slot is the first that is in use.           *)
Holds(l, S, d) ==
    /\ l \in [pipes : [Priorities -> Seq(Pipes)], cursor : [Priorities -> Pipes \cup {None}],
              current : Priorities \cup {-1}]
    /\ S \subseteq Pipes /\ \A p \in S : d[p] \in Priorities
    /\ \A s \in Priorities : SlotHolds(l.pipes[s], l.cursor[s], InSlot(S, d, s))
    /\ FirstFull(l.pipes, 1, l.current)

(* q comes up before p, in the slot of both.                               *)
Before(l, q, p) == \E s \in Priorities : Precedes(l.pipes[s], l.cursor[s], q, p)

LEMMA ListFields ==
  ASSUME NEW l, NEW S, NEW d, Holds(l, S, d)
  PROVE  /\ l.pipes \in [Priorities -> Seq(Pipes)]
         /\ l.cursor \in [Priorities -> Pipes \cup {None}]
         /\ l.current \in Priorities \cup {-1}
         /\ l = [pipes |-> l.pipes, cursor |-> l.cursor, current |-> l.current]
BY DEF Holds

(* A pipe is in a slot exactly when it is held and has that priority.      *)
LEMMA HeldInSlot ==
  ASSUME NEW l, NEW S, NEW d, Holds(l, S, d), NEW p, NEW s \in Priorities
  PROVE  Contains(l.pipes[s], p) <=> p \in S /\ d[p] = s
<1>1. SlotHolds(l.pipes[s], l.cursor[s], InSlot(S, d, s))
  BY DEF Holds
<1>2. InSlot(S, d, s) = {l.pipes[s][i] : i \in 1..Len(l.pipes[s])}
  BY <1>1, SlotIndices
<1>3. Contains(l.pipes[s], p) <=> p \in InSlot(S, d, s)
  BY <1>2 DEF Contains
<1>4. QED
  BY <1>3 DEF InSlot

LEMMA EmptyHolds ==
  ASSUME NEW d
  PROVE  Holds(EmptyList, {}, d)
<1>1. Slots \in Nat /\ << >> \in Seq(Pipes) /\ Len(<< >>) = 0
  BY SlotsAssumption, EmptySeq
<1>2. /\ EmptyList.pipes = [s \in Priorities |-> << >>]
      /\ EmptyList.cursor = [s \in Priorities |-> None] /\ EmptyList.current = -1
  BY DEF EmptyList
<1>3. \A s \in Priorities : SlotHolds(EmptyList.pipes[s], EmptyList.cursor[s], InSlot({}, d, s))
  <2>. TAKE s \in Priorities
  <2>1. PICK e \in Seq(Pipes) : e = << >>
    BY <1>1
  <2>2. Len(e) = 0
    BY <2>1, SeqFacts
  <2>3. SlotHolds(e, None, {})
    <3>1. DOMAIN e = {}
      BY <2>2, SeqFacts
    <3>2. IsInjective(e) /\ ToSet(e) = {}
      BY <3>1 DEF IsInjective, ToSet
    <3>3. QED
      BY <2>1, <3>2 DEF SlotHolds
  <2>4. QED
    BY <1>2, <2>1, <2>3 DEF InSlot
<1>4. FirstFull(EmptyList.pipes, 1, EmptyList.current)
  BY <1>1, <1>2 DEF FirstFull, Priorities
<1>5. EmptyList \in [pipes : [Priorities -> Seq(Pipes)], cursor : [Priorities -> Pipes \cup {None}],
                     current : Priorities \cup {-1}]
  BY <1>1 DEF EmptyList
<1>6. QED
  BY <1>3, <1>4, <1>5 DEF Holds

(* The priorities of other pipes do not matter.                            *)
LEMMA HoldsSame ==
  ASSUME NEW l, NEW S, NEW d, Holds(l, S, d), NEW e, \A p \in S : e[p] = d[p]
  PROVE  Holds(l, S, e)
<1>1. \A s \in Priorities : InSlot(S, e, s) = InSlot(S, d, s)
  BY DEF InSlot
<1>2. QED
  BY <1>1 DEF Holds

(* One slot s of the list is changed.                                      *)
LEMMA SlotStep ==
  ASSUME NEW l, NEW S, NEW d, Holds(l, S, d), NEW s \in Priorities,
         NEW seq, NEW cur, NEW c, NEW m,
         m = [pipes   |-> [l.pipes EXCEPT ![s] = seq],
              cursor  |-> [l.cursor EXCEPT ![s] = cur],
              current |-> c],
         FirstFull([l.pipes EXCEPT ![s] = seq], 1, c),
         NEW T \in SUBSET Pipes, NEW e, \A p \in T : e[p] \in Priorities,
         SlotHolds(seq, cur, InSlot(T, e, s)),
         \A t \in Priorities \ {s} : InSlot(T, e, t) = InSlot(S, d, t)
  PROVE  /\ Holds(m, T, e)
         /\ \A q, p : Precedes(seq, cur, q, p) => Before(m, q, p)
         /\ \A q, p : /\ Before(l, q, p)
                      /\ Precedes(l.pipes[s], l.cursor[s], q, p) => Precedes(seq, cur, q, p)
                      => Before(m, q, p)
<1>1. /\ l.pipes \in [Priorities -> Seq(Pipes)]
      /\ l.cursor \in [Priorities -> Pipes \cup {None}]
  BY ListFields
<1>2. /\ m.pipes = [l.pipes EXCEPT ![s] = seq]
      /\ m.cursor = [l.cursor EXCEPT ![s] = cur] /\ m.current = c
      /\ m = [pipes |-> m.pipes, cursor |-> m.cursor, current |-> m.current]
  OBVIOUS
<1>3. /\ m.pipes[s] = seq /\ m.cursor[s] = cur
      /\ \A t \in Priorities \ {s} : m.pipes[t] = l.pipes[t] /\ m.cursor[t] = l.cursor[t]
  BY <1>1, <1>2
<1>4. FirstFull(m.pipes, 1, m.current)
  BY <1>2
<1>5. seq \in Seq(Pipes) /\ cur \in Pipes \cup {None}
  <2>1. /\ seq \in Seq(Pipes)
        /\ seq = << >> <=> Len(seq) = 0
        /\ Len(seq) \in Nat
        /\ Len(seq) > 0 => \E i \in 1..Len(seq) : seq[i] = cur
        /\ \A i \in 1..Len(seq) : seq[i] \in Pipes
    BY SlotIndices
  <2>2. seq = << >> => cur = None
    BY DEF SlotHolds
  <2>3. CASE Len(seq) = 0
    BY <2>1, <2>2, <2>3
  <2>4. CASE Len(seq) > 0
    <3>1. PICK i \in 1..Len(seq) : seq[i] = cur
      BY <2>1, <2>4
    <3>2. QED
      BY <2>1, <3>1
  <2>5. QED
    BY <2>1, <2>3, <2>4
<1>6. m \in [pipes : [Priorities -> Seq(Pipes)], cursor : [Priorities -> Pipes \cup {None}],
             current : Priorities \cup {-1}]
  <2>1. m.pipes \in [Priorities -> Seq(Pipes)]
    BY <1>1, <1>2, <1>5
  <2>2. m.cursor \in [Priorities -> Pipes \cup {None}]
    BY <1>1, <1>2, <1>5
  <2>3. m.current \in Priorities \cup {-1}
    BY <1>4 DEF FirstFull, Priorities
  <2>4. QED
    BY <1>2, <2>1, <2>2, <2>3
<1>7. \A t \in Priorities : SlotHolds(m.pipes[t], m.cursor[t], InSlot(T, e, t))
  BY <1>3 DEF Holds
<1>8. ASSUME NEW q, NEW p, Before(l, q, p),
             Precedes(l.pipes[s], l.cursor[s], q, p) => Precedes(seq, cur, q, p)
      PROVE  Before(m, q, p)
  <2>1. PICK t \in Priorities : Precedes(l.pipes[t], l.cursor[t], q, p)
    BY <1>8 DEF Before
  <2>2. Precedes(m.pipes[t], m.cursor[t], q, p)
    <3>1. CASE t = s
      BY <1>3, <1>8, <2>1, <3>1
    <3>2. CASE t # s
      BY <1>3, <2>1, <3>2
    <3>3. QED
      BY <3>1, <3>2
  <2>3. QED
    BY <2>2 DEF Before
<1>9. ASSUME NEW q, NEW p, Precedes(seq, cur, q, p)
      PROVE  Before(m, q, p)
  BY <1>3, <1>9 DEF Before
<1>10. Holds(m, T, e)
  BY <1>4, <1>6, <1>7 DEF Holds
<1>11. QED
  BY <1>8, <1>9, <1>10

(* grid_priolist_activate of a pipe that is not in the list.               *)
LEMMA ActivateHolds ==
  ASSUME NEW l, NEW S, NEW d, Holds(l, S, d), NEW p \in Pipes \ S, NEW k \in Priorities,
         NEW e, e[p] = k, \A q \in S : e[q] = d[q]
  PROVE  /\ Holds(PrioListActivate(l, p, k), S \cup {p}, e)
         /\ \A q, r : Before(l, q, r) => Before(PrioListActivate(l, p, k), q, r)
<1>. DEFINE m   == PrioListActivate(l, p, k)
            seq == Append(l.pipes[k], p)
            cur == IF l.pipes[k] = << >> THEN p ELSE l.cursor[k]
            c   == IF l.pipes[k] # << >> THEN l.current
                   ELSE IF l.current = -1 \/ l.current > k THEN k ELSE l.current
<1>0. /\ l.pipes \in [Priorities -> Seq(Pipes)]
      /\ l.cursor \in [Priorities -> Pipes \cup {None}]
      /\ l.current \in Priorities \cup {-1}
      /\ l = [pipes |-> l.pipes, cursor |-> l.cursor, current |-> l.current]
  BY ListFields
<1>1. m = [pipes   |-> [l.pipes EXCEPT ![k] = seq],
           cursor  |-> [l.cursor EXCEPT ![k] = cur],
           current |-> c]
  <2>1. CASE l.pipes[k] # << >>
    <3>1. m = [l EXCEPT !.pipes = [l.pipes EXCEPT ![k] = seq]]
      BY <2>1 DEF PrioListActivate
    <3>2. [l.cursor EXCEPT ![k] = cur] = l.cursor
      BY <1>0, <2>1
    <3>. HIDE DEF seq, cur, m
    <3>3. QED
      BY <1>0, <2>1, <3>1, <3>2
  <2>2. CASE l.pipes[k] = << >>
    BY <2>2 DEF PrioListActivate
  <2>3. QED
    BY <2>1, <2>2
<1>2. /\ InSlot(S \cup {p}, e, k) = InSlot(S, d, k) \cup {p}
      /\ \A t \in Priorities \ {k} : InSlot(S \cup {p}, e, t) = InSlot(S, d, t)
  BY DEF InSlot
<1>3. /\ SlotHolds(seq, cur, InSlot(S, d, k) \cup {p})
      /\ \A q, r : Precedes(l.pipes[k], l.cursor[k], q, r) => Precedes(seq, cur, q, r)
  <2>1. SlotHolds(l.pipes[k], l.cursor[k], InSlot(S, d, k)) /\ p \in Pipes \ InSlot(S, d, k)
    BY DEF Holds, InSlot
  <2>2. QED
    BY <2>1, AppendSlot
<1>4. FirstFull([l.pipes EXCEPT ![k] = seq], 1, c)
  <2>1. FirstFull(l.pipes, 1, l.current) /\ Slots \in Nat
    BY SlotsAssumption DEF Holds
  <2>2. seq # << >>
    BY <1>0, AppendProperties
  <2>3. \A s \in Priorities : [l.pipes EXCEPT ![k] = seq][s] = IF s = k THEN seq ELSE l.pipes[s]
    BY <1>0
  <2>. DEFINE new == [l.pipes EXCEPT ![k] = seq]
  <2>. HIDE DEF seq, new
  <2>4. \A t \in 1..Slots : new[t] = << >> <=> t # k /\ l.pipes[t] = << >>
    BY <2>2, <2>3 DEF Priorities, new
  <2>5. k \in 1..Slots
    BY DEF Priorities
  <2>6. CASE l.pipes[k] # << >>
    BY <2>1, <2>4, <2>5, <2>6 DEF FirstFull, new
  <2>7. CASE l.pipes[k] = << >> /\ (l.current = -1 \/ l.current > k)
    <3>1. \A t \in 1..Slots : new[t] # << >> => k <= t
      BY <2>1, <2>4, <2>5, <2>7 DEF FirstFull
    <3>2. QED
      BY <2>4, <2>5, <2>7, <3>1 DEF FirstFull, new
  <2>8. CASE l.pipes[k] = << >> /\ ~(l.current = -1 \/ l.current > k)
    <3>1. /\ l.current \in 1..Slots /\ l.current <= k
          /\ \A t \in 1..Slots : l.pipes[t] # << >> => l.current <= t
          /\ l.pipes[l.current] # << >>
      BY <1>0, <2>1, <2>5, <2>8 DEF FirstFull
    <3>2. /\ new[l.current] # << >>
          /\ \A t \in 1..Slots : new[t] # << >> => l.current <= t
      BY <2>4, <3>1
    <3>3. c = l.current
      BY <2>8
    <3>4. QED
      BY <3>1, <3>2, <3>3 DEF FirstFull, new
  <2>9. QED
    BY <2>6, <2>7, <2>8
<1>5. S \cup {p} \in SUBSET Pipes /\ \A q \in S \cup {p} : e[q] \in Priorities
  BY DEF Holds
<1>. DEFINE T == S \cup {p}
<1>6. SlotHolds(seq, cur, InSlot(T, e, k))
  BY <1>2, <1>3
<1>. HIDE DEF seq, cur, c, m, T
<1>7. /\ Holds(m, T, e)
      /\ \A q, r : Precedes(seq, cur, q, r) => Before(m, q, r)
      /\ \A q, r : /\ Before(l, q, r)
                   /\ Precedes(l.pipes[k], l.cursor[k], q, r) => Precedes(seq, cur, q, r)
                   => Before(m, q, r)
  <2>1. T \in SUBSET Pipes /\ \A q \in T : e[q] \in Priorities
    BY <1>5 DEF T
  <2>2. \A t \in Priorities \ {k} : InSlot(T, e, t) = InSlot(S, d, t)
    BY <1>2 DEF T
  <2>3. QED
    BY <1>1, <1>4, <1>6, <2>1, <2>2, SlotStep
<1>8. QED
  BY <1>3, <1>7 DEF m, T

(* The slot that is used next when slot s changes to seq.                  *)
LEMMA CurrentFirst ==
  ASSUME NEW l, NEW S, NEW d, Holds(l, S, d), NEW s \in Priorities, NEW seq, NEW c,
         \/ seq # << >> /\ l.pipes[s] # << >> /\ c = l.current
         \/ l.current # s /\ l.pipes[s] # << >> /\ c = l.current
         \/ l.current = s /\ c = NonEmptyFrom([l.pipes EXCEPT ![s] = seq], s)
  PROVE  FirstFull([l.pipes EXCEPT ![s] = seq], 1, c)
<1>. DEFINE new == [l.pipes EXCEPT ![s] = seq]
<1>1. FirstFull(l.pipes, 1, l.current) /\ Slots \in Nat \ {0} /\ s \in 1..Slots
  BY SlotsAssumption DEF Holds, Priorities
<1>2. \A t \in 1..Slots : new[t] = IF t = s THEN seq ELSE l.pipes[t]
  BY ListFields DEF Priorities
<1>3. FirstFull(new, s, NonEmptyFrom(new, s))
  BY NonEmptyFromIs
<1>. HIDE DEF new
<1>4. CASE seq # << >> /\ l.pipes[s] # << >> /\ c = l.current
  BY <1>1, <1>2, <1>4 DEF FirstFull
<1>5. CASE l.current # s /\ l.pipes[s] # << >> /\ c = l.current
  BY <1>1, <1>2, <1>5 DEF FirstFull
<1>6. CASE l.current = s /\ c = NonEmptyFrom(new, s)
  <2>1. \A t \in 1..Slots : t < s => new[t] = << >>
    BY <1>1, <1>2, <1>6 DEF FirstFull
  <2>2. \A t \in 1..Slots : new[t] # << >> => t \in s..Slots
    BY <1>1, <2>1
  <2>3. s..Slots \subseteq 1..Slots
    BY <1>1
  <2>4. CASE c = -1 /\ \A k \in s..Slots : new[k] = << >>
    BY <2>2, <2>4 DEF FirstFull, new
  <2>5. CASE /\ c \in s..Slots /\ new[c] # << >>
             /\ \A k \in s..Slots : new[k] # << >> => c <= k
    <3>1. \A t \in 1..Slots : new[t] # << >> => c <= t
      BY <2>2, <2>5
    <3>2. QED
      BY <2>3, <2>5, <3>1 DEF FirstFull, new
  <2>6. QED
    BY <1>3, <1>6, <2>4, <2>5 DEF FirstFull
<1>7. QED
  BY <1>4, <1>5, <1>6 DEF new

(* A pipe of the list is erased from its slot.                             *)
LEMMA EraseHolds ==
  ASSUME NEW l, NEW S, NEW d, Holds(l, S, d), NEW p \in S, NEW s, s = d[p], NEW c, NEW m,
         m = [pipes   |-> [l.pipes EXCEPT ![s] = Erase(@, p)],
              cursor  |-> [l.cursor EXCEPT ![s] =
                             IF @ = p THEN AfterErase(l.pipes[s], p) ELSE @],
              current |-> c],
         FirstFull([l.pipes EXCEPT ![s] = Erase(@, p)], 1, c)
  PROVE  /\ Holds(m, S \ {p}, d)
         /\ \A q, r : Before(l, q, r) /\ q # p /\ r # p => Before(m, q, r)
<1>. DEFINE seq == Erase(l.pipes[s], p)
            cur == IF l.cursor[s] = p THEN AfterErase(l.pipes[s], p) ELSE l.cursor[s]
            T   == S \ {p}
<1>0. s \in Priorities /\ T \in SUBSET Pipes /\ \A q \in T : d[q] \in Priorities
  BY DEF Holds
<1>1. p \in InSlot(S, d, s) /\ SlotHolds(l.pipes[s], l.cursor[s], InSlot(S, d, s))
  BY <1>0 DEF InSlot, Holds
<1>2. /\ SlotHolds(seq, cur, InSlot(S, d, s) \ {p})
      /\ \A q, r : Precedes(l.pipes[s], l.cursor[s], q, r) /\ q # p /\ r # p =>
            Precedes(seq, cur, q, r)
  BY <1>1, EraseSlot
<1>3. /\ InSlot(T, d, s) = InSlot(S, d, s) \ {p}
      /\ \A t \in Priorities \ {s} : InSlot(T, d, t) = InSlot(S, d, t)
  BY DEF InSlot
<1>4. m = [pipes   |-> [l.pipes EXCEPT ![s] = seq],
           cursor  |-> [l.cursor EXCEPT ![s] = cur],
           current |-> c]
  OBVIOUS
<1>5. FirstFull([l.pipes EXCEPT ![s] = seq], 1, c)
  OBVIOUS
<1>6. SlotHolds(seq, cur, InSlot(T, d, s))
  BY <1>2, <1>3
<1>. HIDE DEF seq, cur, T
<1>7. /\ Holds(m, T, d)
      /\ \A q, r : /\ Before(l, q, r)
                   /\ Precedes(l.pipes[s], l.cursor[s], q, r) => Precedes(seq, cur, q, r)
                   => Before(m, q, r)
  BY <1>0, <1>3, <1>4, <1>5, <1>6, SlotStep
<1>8. QED
  BY <1>2, <1>7 DEF T

(* grid_priolist_rm of a pipe that is in the list or is not.               *)
LEMMA RmHolds ==
  ASSUME NEW l, NEW S, NEW d, Holds(l, S, d), NEW p \in Pipes, d[p] \in Priorities
  PROVE  /\ Holds(PrioListRm(l, p, d[p]), S \ {p}, d)
         /\ \A q, r : Before(l, q, r) /\ q # p /\ r # p => Before(PrioListRm(l, p, d[p]), q, r)
<1>. DEFINE s == d[p]
            m == PrioListRm(l, p, s)
<1>0. s \in Priorities /\ SlotHolds(l.pipes[s], l.cursor[s], InSlot(S, d, s))
  BY DEF Holds
<1>1. CASE p \notin S
  <2>1. ~Contains(l.pipes[s], p)
    BY <1>0, <1>1, HeldInSlot
  <2>2. Erase(l.pipes[s], p) = l.pipes[s] /\ l.cursor[s] # p
    BY <2>1, <1>0, PipesAssumption DEF Erase, SlotHolds
  <2>3. m = [l EXCEPT !.pipes = [l.pipes EXCEPT ![s] = l.pipes[s]]]
    BY <2>2 DEF PrioListRm
  <2>4. [l.pipes EXCEPT ![s] = l.pipes[s]] = l.pipes
    BY ListFields
  <2>5. m = l
    BY <2>3, <2>4, ListFields
  <2>6. S \ {p} = S
    BY <1>1
  <2>7. QED
    BY <2>5, <2>6
<1>2. CASE p \in S
  <2>. DEFINE pipes == [l.pipes EXCEPT ![s] = Erase(@, p)]
              c == IF l.cursor[s] = p /\ l.current = s THEN NonEmptyFrom(pipes, s)
                   ELSE l.current
  <2>1. m = [pipes   |-> pipes,
             cursor  |-> [l.cursor EXCEPT ![s] =
                            IF @ = p THEN AfterErase(l.pipes[s], p) ELSE @],
             current |-> c]
    <3>1. CASE l.cursor[s] = p
      BY <3>1 DEF PrioListRm
    <3>2. CASE l.cursor[s] # p
      <4>1. m = [l EXCEPT !.pipes = pipes]
        BY <3>2 DEF PrioListRm
      <4>2. l.cursor = [l.cursor EXCEPT ![s] =
                          IF @ = p THEN AfterErase(l.pipes[s], p) ELSE @]
        BY <3>2, ListFields
      <4>3. l.current = c
        BY <3>2
      <4>. HIDE DEF pipes, m, c, s
      <4>4. m = [pipes |-> pipes, cursor |-> l.cursor, current |-> l.current]
        BY <4>1, ListFields
      <4>5. QED
        BY <4>2, <4>3, <4>4
    <3>3. QED
      BY <3>1, <3>2
  <2>2. l.pipes[s] # << >>
    <3>1. Contains(l.pipes[s], p)
      BY <1>0, <1>2, HeldInSlot
    <3>2. QED
      BY <1>0, <3>1, SlotIndices DEF Contains
  <2>3. l.cursor[s] # p => Erase(l.pipes[s], p) # << >>
    <3>1. p \in InSlot(S, d, s)
      BY <1>2 DEF InSlot
    <3>2. ASSUME l.cursor[s] # p
          PROVE  SlotHolds(Erase(l.pipes[s], p), l.cursor[s], InSlot(S, d, s) \ {p})
      BY <1>0, <3>1, <3>2, EraseSlot
    <3>3. l.cursor[s] # None
      BY <1>0, <2>2, ListFields, SlotIndices, PipesAssumption
    <3>4. QED
      BY <3>2, <3>3 DEF SlotHolds
  <2>4. FirstFull(pipes, 1, c)
    BY <1>0, <2>2, <2>3, CurrentFirst
  <2>. HIDE DEF c, m
  <2>5. /\ Holds(m, S \ {p}, d)
        /\ \A q, r : Before(l, q, r) /\ q # p /\ r # p => Before(m, q, r)
    BY <1>2, <2>1, <2>4, EraseHolds
  <2>6. QED
    BY <2>5 DEF m
<1>3. QED
  BY <1>1, <1>2

(* grid_priolist_is_active, grid_priolist_getpipe: a pipe of the most      *)
(* urgent slot in use, which no pipe comes up before.                      *)
LEMMA GetPipeHeld ==
  ASSUME NEW l, NEW S, NEW d, Holds(l, S, d)
  PROVE  /\ PrioListIsActive(l) <=> S # {}
         /\ PrioListIsActive(l) =>
               /\ l.current \in Priorities /\ l.pipes[l.current] # << >>
               /\ PrioListGetPipe(l) \in S /\ d[PrioListGetPipe(l)] = l.current
               /\ \A q \in S : l.current <= d[q]
               /\ \A q : ~Before(l, q, PrioListGetPipe(l))
<1>. DEFINE s == l.current
            p == l.cursor[s]
<1>1. FirstFull(l.pipes, 1, s)
  BY DEF Holds
<1>2. ASSUME NEW q \in S PROVE /\ d[q] \in Priorities /\ l.pipes[d[q]] # << >>
  <2>1. d[q] \in Priorities
    BY DEF Holds
  <2>2. Contains(l.pipes[d[q]], q) /\ l.pipes[d[q]] \in Seq(Pipes)
    BY <2>1, HeldInSlot, ListFields
  <2>3. QED
    BY <2>1, <2>2, SeqFacts DEF Contains
<1>3. S # {} => s # -1
  BY <1>1, <1>2 DEF FirstFull, Priorities
<1>4. ASSUME s # -1
      PROVE  /\ s \in Priorities /\ l.pipes[s] # << >>
             /\ p \in S /\ d[p] = s
             /\ \A q \in S : s <= d[q]
             /\ \A q : ~Before(l, q, p)
  <2>1. s \in Priorities /\ l.pipes[s] # << >>
    BY <1>1, <1>4 DEF FirstFull, Priorities
  <2>2. SlotHolds(l.pipes[s], p, InSlot(S, d, s))
    BY <2>1 DEF Holds
  <2>3. Contains(l.pipes[s], p)
    BY <2>1, <2>2 DEF SlotHolds
  <2>4. p \in S /\ d[p] = s
    BY <2>1, <2>3, HeldInSlot
  <2>5. \A q \in S : s <= d[q]
    BY <1>1, <1>2, <1>4 DEF FirstFull, Priorities
  <2>6. ASSUME NEW q, Before(l, q, p) PROVE FALSE
    <3>1. PICK t \in Priorities : Precedes(l.pipes[t], l.cursor[t], q, p)
      BY <2>6 DEF Before
    <3>2. Contains(l.pipes[t], p)
      <4>1. \E j \in DOMAIN l.pipes[t] : l.pipes[t][j] = p
        BY <3>1 DEF Precedes
      <4>2. DOMAIN l.pipes[t] = 1..Len(l.pipes[t])
        BY ListFields, SeqFacts
      <4>3. QED
        BY <4>1, <4>2 DEF Contains
    <3>3. t = s
      BY <2>4, <3>2, HeldInSlot
    <3>4. QED
      BY <2>2, <3>1, <3>3, CursorFirst
  <2>. HIDE DEF p, s
  <2>7. QED
    BY <2>1, <2>4, <2>5, <2>6
<1>. HIDE DEF p, s
<1>5. QED
  BY <1>3, <1>4 DEF PrioListIsActive, PrioListGetPipe, p, s

(* grid_priolist_advance.                                                  *)
LEMMA AdvanceHolds ==
  ASSUME NEW l, NEW S, NEW d, Holds(l, S, d), PrioListIsActive(l),
         NEW release \in BOOLEAN, NEW p, p = PrioListGetPipe(l)
  PROVE  /\ Holds(PrioListAdvance(l, release), IF release THEN S \ {p} ELSE S, d)
         /\ \A q, r : Before(l, q, r) /\ q # p /\ r # p =>
               Before(PrioListAdvance(l, release), q, r)
         /\ ~release => \A q \in S \ {p} : d[q] = d[p] =>
               Before(PrioListAdvance(l, release), q, p)
<1>. DEFINE s == l.current
            m == PrioListAdvance(l, release)
            seq == l.pipes[s]
<1>1. /\ s \in Priorities /\ seq # << >> /\ p \in S /\ d[p] = s /\ p = l.cursor[s]
  BY GetPipeHeld DEF PrioListGetPipe
<1>2. SlotHolds(seq, p, InSlot(S, d, s))
  BY <1>1 DEF Holds
<1>3. CASE release
  <2>. DEFINE pipes == [l.pipes EXCEPT ![s] = Erase(@, p)]
  <2>1. m = [pipes   |-> pipes,
             cursor  |-> [l.cursor EXCEPT ![s] = AfterErase(seq, p)],
             current |-> NonEmptyFrom(pipes, s)]
    BY <1>1, <1>3 DEF PrioListAdvance
  <2>2. [l.cursor EXCEPT ![s] = AfterErase(seq, p)] =
           [l.cursor EXCEPT ![s] = IF @ = p THEN AfterErase(seq, p) ELSE @]
    BY <1>1, ListFields
  <2>3. FirstFull(pipes, 1, NonEmptyFrom(pipes, s))
    BY <1>1, CurrentFirst
  <2>. HIDE DEF m
  <2>4. /\ Holds(m, S \ {p}, d)
        /\ \A q, r : Before(l, q, r) /\ q # p /\ r # p => Before(m, q, r)
    BY <1>1, <2>1, <2>2, <2>3, EraseHolds
  <2>5. QED
    BY <1>3, <2>4 DEF m
<1>4. CASE ~release
  <2>. DEFINE cur == After(seq, p)
              c == NonEmptyFrom(l.pipes, s)
  <2>1. [l.pipes EXCEPT ![s] = seq] = l.pipes
    BY ListFields
  <2>2. m = [pipes   |-> [l.pipes EXCEPT ![s] = seq],
             cursor  |-> [l.cursor EXCEPT ![s] = cur],
             current |-> c]
    BY <1>1, <1>4, <2>1 DEF PrioListAdvance
  <2>3. FirstFull([l.pipes EXCEPT ![s] = seq], 1, c)
    <3>1. FirstFull([l.pipes EXCEPT ![s] = seq], 1,
                    NonEmptyFrom([l.pipes EXCEPT ![s] = seq], s))
      BY <1>1, CurrentFirst
    <3>2. QED
      BY <2>1, <3>1
  <2>4. /\ SlotHolds(seq, cur, InSlot(S, d, s))
        /\ \A q, r : Precedes(seq, p, q, r) /\ q # p => Precedes(seq, cur, q, r)
        /\ \A q \in InSlot(S, d, s) \ {p} : Precedes(seq, cur, q, p)
    BY <1>1, <1>2, AdvanceSlot
  <2>5. S \in SUBSET Pipes /\ \A q \in S : d[q] \in Priorities
    BY DEF Holds
  <2>. HIDE DEF cur, c, m
  <2>6. /\ Holds(m, S, d)
        /\ \A q, r : Precedes(seq, cur, q, r) => Before(m, q, r)
        /\ \A q, r : /\ Before(l, q, r)
                     /\ Precedes(seq, p, q, r) => Precedes(seq, cur, q, r)
                     => Before(m, q, r)
    <3>. HIDE DEF s, seq
    <3>1. seq = l.pipes[s] /\ p = l.cursor[s] /\ s \in Priorities
      BY <1>1 DEF seq
    <3>2. \A t \in Priorities \ {s} : InSlot(S, d, t) = InSlot(S, d, t)
      OBVIOUS
    <3>3. QED
      BY <3>1, <3>2, <2>2, <2>3, <2>4, <2>5, SlotStep
  <2>7. \A q \in S \ {p} : d[q] = d[p] => Before(m, q, p)
    BY <1>1, <2>4, <2>6 DEF InSlot
  <2>8. \A q, r : Before(l, q, r) /\ q # p /\ r # p => Before(m, q, r)
    BY <2>4, <2>6
  <2>9. QED
    BY <1>4, <2>6, <2>7, <2>8 DEF m
<1>5. QED
  BY <1>3, <1>4

-----------------------------------------------------------------------------
(* The load balancer and the fair queue: the inductive invariant.          *)

(* A pipe has a state exactly when it is attached.                         *)
Attached == \A p \in Pipes : prio[p] = 0 <=> pstate[p] = "deactivated"

(* Whoever is to be served before p comes up before it.                    *)
Owing == \A p \in Pipes : \A q \in owed[p] : Before(list, q, p)

BalancerInv ==
    BalancerTypeOK /\ NeverAborts /\ Attached /\ Holds(list, ReadyPipes, prio) /\ Owing

PipesTyped == /\ prio' \in [Pipes -> 0..Slots]
              /\ pstate' \in [Pipes -> {"deactivated", "idle", "async"}]
              /\ aborted' = None /\ served' \in Pipes \cup {None}
              /\ owed' \in [Pipes -> SUBSET Pipes]

LEMMA BalancerInitInv == BalancerInit => BalancerInv
<1>. SUFFICES ASSUME BalancerInit PROVE BalancerInv
  OBVIOUS
<1>1. ReadyPipes = {} /\ list = EmptyList
  BY DEF BalancerInit, ReadyPipes
<1>2. Holds(list, ReadyPipes, prio)
  BY <1>1, EmptyHolds
<1>3. BalancerTypeOK
  <2>1. 0 \in 0..Slots
    BY SlotsAssumption
  <2>2. list \in [pipes : [Priorities -> Seq(Pipes)], cursor : [Priorities -> Pipes \cup {None}],
                  current : Priorities \cup {-1}]
    BY <1>2 DEF Holds
  <2>3. QED
    BY <2>1, <2>2 DEF BalancerInit, BalancerTypeOK
<1>4. QED
  BY <1>2, <1>3 DEF BalancerInv, BalancerInit, NeverAborts, Attached, Owing

(* The list is sound, and so are the other variables.                      *)
LEMMA InvByParts ==
  ASSUME Holds(list, ReadyPipes, prio)', PipesTyped, Attached', Owing'
  PROVE  BalancerInv'
<1>1. list' \in [pipes : [Priorities -> Seq(Pipes)], cursor : [Priorities -> Pipes \cup {None}],
                 current : Priorities \cup {-1}]
  BY DEF Holds
<1>2. QED
  BY <1>1 DEF BalancerInv, BalancerTypeOK, NeverAborts, PipesTyped

-----------------------------------------------------------------------------
(* Their steps.                                                            *)

(* A pipe becomes active.                                                  *)
LEMMA ActivateStep ==
  ASSUME BalancerInv, NEW p \in Pipes, p \notin ReadyPipes, NEW k \in Priorities, Activate(p, k),
         pstate' = [pstate EXCEPT ![p] = "idle"], prio' = [prio EXCEPT ![p] = k],
         UNCHANGED <<served, owed>>
  PROVE  BalancerInv' /\ ReadyPipes' = ReadyPipes \cup {p}
<1>0. /\ pstate \in [Pipes -> {"deactivated", "idle", "async"}] /\ prio \in [Pipes -> 0..Slots]
      /\ aborted = None /\ Holds(list, ReadyPipes, prio)
  BY DEF BalancerInv, BalancerTypeOK, NeverAborts
<1>1. \A s \in Priorities : ~Contains(list.pipes[s], p)
  BY <1>0, HeldInSlot
<1>2. list' = PrioListActivate(list, p, k) /\ aborted' = None
  BY <1>0, <1>1 DEF Activate
<1>3. ReadyPipes' = ReadyPipes \cup {p}
  BY <1>0 DEF ReadyPipes
<1>4. /\ prio'[p] = k /\ k # 0 /\ pstate'[p] = "idle"
      /\ \A q \in Pipes \ {p} : prio'[q] = prio[q] /\ pstate'[q] = pstate[q]
  BY <1>0, SlotsAssumption DEF Priorities
<1>5. \A q \in ReadyPipes : prio'[q] = prio[q]
  BY <1>4 DEF ReadyPipes
<1>6. /\ Holds(list', ReadyPipes', prio')
      /\ \A q, r : Before(list, q, r) => Before(list', q, r)
  <2>1. p \in Pipes \ ReadyPipes /\ prio'[p] = k
    BY <1>4
  <2>2. /\ Holds(PrioListActivate(list, p, k), ReadyPipes \cup {p}, prio')
        /\ \A q, r : Before(list, q, r) => Before(PrioListActivate(list, p, k), q, r)
    <3>. DEFINE S == ReadyPipes
                e == prio'
    <3>1. /\ Holds(list, S, prio) /\ p \in Pipes \ S /\ k \in Priorities
          /\ e[p] = k /\ \A q \in S : e[q] = prio[q]
      BY <1>0, <1>5, <2>1
    <3>. HIDE DEF S, e
    <3>2. /\ Holds(PrioListActivate(list, p, k), S \cup {p}, e)
          /\ \A q, r : Before(list, q, r) => Before(PrioListActivate(list, p, k), q, r)
      BY <3>1, ActivateHolds
    <3>3. QED
      BY <3>2 DEF S, e
  <2>3. QED
    BY <1>2, <1>3, <2>2
<1>7. PipesTyped
  <2>1. prio' \in [Pipes -> 0..Slots]
    BY <1>0, SlotsAssumption DEF Priorities
  <2>2. pstate' \in [Pipes -> {"deactivated", "idle", "async"}]
    BY <1>0
  <2>3. QED
    BY <1>2, <2>1, <2>2 DEF PipesTyped, BalancerInv, BalancerTypeOK
<1>8. Attached'
  BY <1>4 DEF BalancerInv, Attached
<1>9. Owing'
  BY <1>6 DEF BalancerInv, Owing
<1>10. QED
  BY <1>3, <1>6, <1>7, <1>8, <1>9, InvByParts

(* A pipe is added to the load balancer; the fair queue takes note of it.  *)
LEMMA AddStep ==
  ASSUME BalancerInv, NEW p \in Pipes, NEW k \in Priorities, Add(p, k)
  PROVE  BalancerInv' /\ Policy!Attach(p, k)
<1>0. /\ prio[p] = 0 /\ pstate[p] = "deactivated" /\ p \notin ReadyPipes
      /\ pstate \in [Pipes -> {"deactivated", "idle", "async"}] /\ prio \in [Pipes -> 0..Slots]
      /\ aborted = None /\ prio' = [prio EXCEPT ![p] = k] /\ UNCHANGED <<served, owed>>
  BY DEF Add, BalancerInv, BalancerTypeOK, Attached, ReadyPipes, NeverAborts
<1>1. CASE StartsReady
  <2>1. pstate' = [pstate EXCEPT ![p] = "idle"] /\ Activate(p, k)
    BY <1>1 DEF Add
  <2>2. BalancerInv' /\ ReadyPipes' = ReadyPipes \cup {p}
    BY <1>0, <2>1, ActivateStep
  <2>3. QED
    BY <1>0, <2>2 DEF Policy!Attach
<1>2. CASE ~StartsReady
  <2>1. pstate' = [pstate EXCEPT ![p] = "async"] /\ UNCHANGED <<list, aborted>>
    BY <1>2 DEF Add
  <2>2. /\ pstate' \in [Pipes -> {"deactivated", "idle", "async"}]
        /\ prio' \in [Pipes -> 0..Slots] /\ prio'[p] # 0 /\ pstate'[p] = "async"
        /\ \A q \in Pipes \ {p} : prio'[q] = prio[q] /\ pstate'[q] = pstate[q]
    BY <1>0, <2>1, SlotsAssumption DEF Priorities
  <2>3. ReadyPipes' = ReadyPipes
    BY <1>0, <2>2 DEF ReadyPipes
  <2>4. Holds(list', ReadyPipes', prio')
    <3>1. \A q \in ReadyPipes : prio'[q] = prio[q]
      BY <1>0, <2>2 DEF ReadyPipes
    <3>2. QED
      BY <2>1, <2>3, <3>1, HoldsSame DEF BalancerInv
  <2>5. PipesTyped /\ Attached' /\ Owing'
    BY <1>0, <2>1, <2>2 DEF PipesTyped, Attached, Owing, BalancerInv, BalancerTypeOK
  <2>6. QED
    BY <1>0, <2>3, <2>4, <2>5, InvByParts DEF Policy!Attach
<1>3. QED
  BY <1>1, <1>2

(* A transfer ends: the pipe becomes active again.                         *)
LEMMA CompletedStep ==
  ASSUME BalancerInv, NEW p \in Pipes, Completed(p)
  PROVE  BalancerInv' /\ Policy!GetReady(p)
<1>1. /\ pstate[p] = "async" /\ prio[p] \in Priorities /\ p \notin ReadyPipes
      /\ prio[p] # 0 /\ prio' = [prio EXCEPT ![p] = prio[p]]
      /\ UNCHANGED <<prio, served>>
  BY SlotsAssumption
     DEF Completed, BalancerInv, BalancerTypeOK, Attached, ReadyPipes, Priorities
<1>2. BalancerInv' /\ ReadyPipes' = ReadyPipes \cup {p}
  BY <1>1, ActivateStep DEF Completed
<1>3. QED
  BY <1>1, <1>2 DEF Policy!GetReady

(* What is owed once p was used or has gone.                               *)
LEMMA ForgivenOwed ==
  ASSUME BalancerInv, NEW p
  PROVE  /\ Forgiven(p) \in [Pipes -> SUBSET Pipes]
         /\ \A r \in Pipes : \A q \in Forgiven(p)[r] : q \in owed[r] /\ q # p /\ r # p
BY DEF Forgiven, BalancerInv, BalancerTypeOK

(* A pipe is removed, active or not.                                       *)
LEMMA RmStep ==
  ASSUME BalancerInv, NEW p \in Pipes, Rm(p)
  PROVE  BalancerInv' /\ Policy!Detach(p)
<1>0. /\ prio[p] \in Priorities /\ Holds(list, ReadyPipes, prio)
      /\ pstate \in [Pipes -> {"deactivated", "idle", "async"}] /\ prio \in [Pipes -> 0..Slots]
      /\ aborted = None /\ served \in Pipes \cup {None}
      /\ prio' = [prio EXCEPT ![p] = 0] /\ pstate' = [pstate EXCEPT ![p] = "deactivated"]
      /\ owed' = Forgiven(p) /\ UNCHANGED <<aborted, served>>
      /\ list' = PrioListRm(list, p, prio[p])
  BY SlotsAssumption DEF Rm, BalancerInv, BalancerTypeOK, NeverAborts, Priorities
<1>1. /\ prio'[p] = 0 /\ pstate'[p] = "deactivated"
      /\ \A q \in Pipes \ {p} : prio'[q] = prio[q] /\ pstate'[q] = pstate[q]
  BY <1>0
<1>2. ReadyPipes' = ReadyPipes \ {p}
  BY <1>0, <1>1 DEF ReadyPipes
<1>3. /\ Holds(list', ReadyPipes \ {p}, prio)
      /\ \A q, r : Before(list, q, r) /\ q # p /\ r # p => Before(list', q, r)
  BY <1>0, RmHolds
<1>4. Holds(list', ReadyPipes', prio')
  <2>1. \A q \in ReadyPipes \ {p} : prio'[q] = prio[q]
    BY <1>1 DEF ReadyPipes
  <2>2. QED
    BY <1>2, <1>3, <2>1, HoldsSame
<1>5. PipesTyped
  <2>1. prio' \in [Pipes -> 0..Slots]
    BY <1>0, SlotsAssumption
  <2>2. pstate' \in [Pipes -> {"deactivated", "idle", "async"}]
    BY <1>0
  <2>3. QED
    BY <1>0, <2>1, <2>2, ForgivenOwed DEF PipesTyped
<1>6. Attached'
  BY <1>1 DEF Attached, BalancerInv
<1>7. Owing'
  BY <1>0, <1>3, ForgivenOwed DEF Owing, BalancerInv
<1>8. Policy!Detach(p)
  BY <1>0, <1>2, SlotsAssumption DEF Policy!Detach, Priorities
<1>9. QED
  BY <1>4, <1>5, <1>6, <1>7, <1>8, InvByParts

(* A message goes through the pipe the list gives, or the assertion on its *)
(* state would fail.                                                       *)
LEMMA UseStep ==
  ASSUME BalancerInv, NEW release \in BOOLEAN, Use(release)
  PROVE  BalancerInv' /\ \E p \in Pipes : Policy!Serve(p)
<1>. DEFINE p == PrioListGetPipe(list)
<1>0. /\ Holds(list, ReadyPipes, prio) /\ PrioListIsActive(list)
      /\ pstate \in [Pipes -> {"deactivated", "idle", "async"}] /\ prio \in [Pipes -> 0..Slots]
      /\ aborted = None /\ owed \in [Pipes -> SUBSET Pipes] /\ prio' = prio
  BY DEF Use, BalancerInv, BalancerTypeOK, NeverAborts
<1>1. /\ p \in ReadyPipes /\ \A q \in ReadyPipes : prio[p] <= prio[q]
  <2>1. /\ p \in ReadyPipes /\ prio[p] = list.current
        /\ \A q \in ReadyPipes : list.current <= prio[q]
    BY <1>0, GetPipeHeld
  <2>2. QED
    BY <2>1
<1>2. p \in Pipes /\ pstate[p] = "idle" /\ p # None
  BY <1>1, PipesAssumption DEF ReadyPipes
<1>3. /\ list' = PrioListAdvance(list, release)
      /\ pstate' = [pstate EXCEPT ![p] = IF release THEN "async" ELSE "idle"]
      /\ served' = p /\ aborted' = aborted
      /\ owed' = IF release THEN Forgiven(p)
                 ELSE [Forgiven(p) EXCEPT ![p] =
                         {q \in ReadyPipes : q # p /\ prio[q] = prio[p]}]
  BY <1>2 DEF Use
<1>4. ReadyPipes' = IF release THEN ReadyPipes \ {p} ELSE ReadyPipes
  BY <1>0, <1>2, <1>3 DEF ReadyPipes
<1>. HIDE DEF p
<1>5. Policy!Serve(p)
  BY <1>0, <1>1, <1>3, <1>4 DEF Policy!Serve
<1>6. /\ Holds(list', ReadyPipes', prio')
      /\ \A q, r : Before(list, q, r) /\ q # p /\ r # p => Before(list', q, r)
      /\ ~release => \A q \in ReadyPipes \ {p} : prio[q] = prio[p] => Before(list', q, p)
  BY <1>0, <1>3, <1>4, AdvanceHolds DEF p
<1>7. Attached'
  <2>1. \A q \in Pipes : pstate'[q] = "deactivated" <=> pstate[q] = "deactivated"
    BY <1>0, <1>2, <1>3
  <2>2. QED
    BY <1>0, <2>1 DEF Attached, BalancerInv
<1>8. /\ owed' \in [Pipes -> SUBSET Pipes]
      /\ \A r \in Pipes : \A q \in owed'[r] :
            \/ q \in owed[r] /\ q # p /\ r # p
            \/ ~release /\ r = p /\ q \in ReadyPipes \ {p} /\ prio[q] = prio[p]
  BY <1>3, ForgivenOwed DEF ReadyPipes
<1>9. Owing'
  BY <1>6, <1>8 DEF Owing, BalancerInv
<1>10. PipesTyped
  <2>1. pstate' \in [Pipes -> {"deactivated", "idle", "async"}]
    BY <1>0, <1>3
  <2>2. QED
    BY <1>0, <1>2, <1>3, <1>8, <2>1 DEF PipesTyped
<1>11. QED
  BY <1>2, <1>5, <1>6, <1>7, <1>9, <1>10, InvByParts

LEMMA BalancerStep ==
  ASSUME BalancerInv, [BalancerNext]_balancerVars
  PROVE  BalancerInv' /\ [Policy!Next]_(Policy!vars)
<1>1. CASE UNCHANGED balancerVars
  <2>1. ReadyPipes' = ReadyPipes
    BY <1>1 DEF balancerVars, ReadyPipes
  <2>2. PipesTyped /\ Attached' /\ Owing' /\ Holds(list', ReadyPipes', prio')
    BY <1>1, <2>1 DEF balancerVars, PipesTyped, Attached, Owing, BalancerInv, BalancerTypeOK,
                      NeverAborts
  <2>3. QED
    BY <1>1, <2>1, <2>2, InvByParts DEF balancerVars, Policy!vars
<1>2. ASSUME NEW p \in Pipes, NEW k \in Priorities, Add(p, k)
      PROVE  BalancerInv' /\ [Policy!Next]_(Policy!vars)
  BY <1>2, AddStep DEF Policy!Next, Priorities
<1>3. ASSUME NEW p \in Pipes, Completed(p) \/ Rm(p)
      PROVE  BalancerInv' /\ [Policy!Next]_(Policy!vars)
  BY <1>3, CompletedStep, RmStep DEF Policy!Next
<1>4. CASE Transfer
  BY <1>4, UseStep DEF Transfer, Policy!Next
<1>5. QED
  BY <1>1, <1>2, <1>3, <1>4 DEF BalancerNext

-----------------------------------------------------------------------------
(* Their theorems.                                                         *)

THEOREM BalancerInvariant == BalancerSpec => []BalancerInv
<1>1. BalancerInv /\ [BalancerNext]_balancerVars => BalancerInv'
  BY BalancerStep
<1>2. QED
  BY <1>1, BalancerInitInv, PTL DEF BalancerSpec

LEMMA InvConsistent == BalancerInv => Consistent
<1>. SUFFICES ASSUME BalancerInv PROVE Consistent
  OBVIOUS
<1>1. 1 \in Priorities /\ Holds(list, ReadyPipes, prio)
  BY SlotsAssumption DEF Priorities, BalancerInv
<1>2. list.current = NonEmptyFrom(list.pipes, 1)
  BY <1>1, NonEmptyFromIs DEF Holds
<1>3. ListConsistent
  BY <1>1, <1>2 DEF ListConsistent, Holds, SlotHolds, InSlot
<1>4. RoundRobin
  BY <1>1, GetPipeHeld DEF RoundRobin, BalancerInv, BalancerTypeOK, Owing, ReadyPipes
<1>5. QED
  BY <1>3, <1>4 DEF Consistent, BalancerInv

(* For any set of pipes and any number of priorities, whatever is added,   *)
(* removed, sent and completed in which order: no assertion of list.c,     *)
(* pipe.c or priolist.c fails, the slots hold what is ready and the        *)
(* current slot is the most urgent one, and every pipe has its turn before *)
(* one that stayed ready is used again.                                    *)
THEOREM StaysConsistent == BalancerSpec => []Consistent
<1>1. QED
  BY InvConsistent, BalancerInvariant, PTL

(* A message goes through the most urgent pipe that is ready: grid_lb_send *)
(* and grid_fq_recv implement Scheduler.                                   *)
THEOREM ListIsScheduler == BalancerSpec => ImplementsScheduler
<1>1. BalancerInit => Policy!Init
  BY PipesAssumption DEF BalancerInit, Policy!Init, ReadyPipes
<1>2. BalancerInv /\ [BalancerNext]_balancerVars => [Policy!Next]_(Policy!vars)
  BY BalancerStep
<1>3. QED
  BY <1>1, <1>2, BalancerInvariant, PTL DEF BalancerSpec, ImplementsScheduler, Policy!Spec

-----------------------------------------------------------------------------
(* The sockets: the inductive invariant.                                   *)

(* The pipes each list is to hold.                                         *)
FqPipes   == {p \in Ready(instate) : proto \in FairQueues}
LbPipes   == {p \in Ready(outstate) : proto \in Balancers}
DistPipes == {p \in Ready(outstate) : proto \in Distributors}

PipesTypeOK ==
    /\ proto \in Protos
    /\ up \in [Pipes -> {"IDLE", "ACTIVE", "FAILED"}]
    /\ instate \in [Pipes -> {"DEACTIVATED", "IDLE", "ASYNC"}]
    /\ outstate \in [Pipes -> {"DEACTIVATED", "IDLE", "ASYNC"}]
    /\ data \in [Pipes -> 0..Slots]
    /\ offered \in [Pipes -> Chunks \cup {None}]
    /\ wire \in [Pipes -> Chunks \cup {None}]

(* What the state of a pipe says of the messages it has.                   *)
PipeSound(p) ==
    /\ up[p] = "IDLE" => instate[p] = "DEACTIVATED" /\ outstate[p] = "DEACTIVATED"
    /\ up[p] # "ACTIVE" => offered[p] = None /\ wire[p] = None
    /\ up[p] = "FAILED" => proto = "PAIR"
    /\ up[p] = "ACTIVE" => /\ instate[p] # "DEACTIVATED" /\ outstate[p] # "DEACTIVATED"
                           /\ offered[p] = None <=> instate[p] = "ASYNC"
                           /\ wire[p] = None <=> outstate[p] = "IDLE"
                           /\ proto # "PAIR" => data[p] \in Priorities

DistSound == dist = DistPipes /\ count = Cardinality(dist)

(* A PAIR socket has one pipe at most.                                     *)
ExclSound ==
    /\ excl \in [pipe : Pipes \cup {None}, inpipe : Pipes \cup {None}, outpipe : Pipes \cup {None}]
    /\ proto # "PAIR" => excl = NoPipe
    /\ proto = "PAIR" => /\ {p \in Pipes : up[p] = "ACTIVE"} = {excl.pipe} \ {None}
                         /\ Ready(instate) = {excl.inpipe} \ {None}
                         /\ Ready(outstate) = {excl.outpipe} \ {None}

ListsSound ==
    /\ NoAbort
    /\ Holds(fq, FqPipes, data) /\ Holds(lb, LbPipes, data)
    /\ DistSound /\ ExclSound

PipesInv == PipesTypeOK /\ (\A p \in Pipes : PipeSound(p)) /\ ListsSound

(* Who has a chunk: of the messages in U, the pipes that offer f[p], the   *)
(* pipes that send f[p].  A message that is being resized is the user's.   *)
Owned        == user \cup resizing
ChunksOf(U)  == {m.chunk : m \in U}
OfferedOf(f) == {f[p] : p \in Pipes} \ {None}
On(f, c)     == {p \in Pipes : f[p] = c}
In(c, S)     == IF c \in S THEN 1 ELSE 0

ChunksTypeOK ==
    /\ refs \in [Chunks -> Int]
    /\ leaked \subseteq Chunks
    /\ elsewhere \subseteq Chunks
    /\ Owned \subseteq [chunk : Chunks, header : Headers]

Held(c) == In(c, ChunksOf(Owned)) + Cardinality(On(wire, c))
               + In(c, OfferedOf(offered)) + In(c, elsewhere)
Counted == \A c \in Chunks : refs[c] = Held(c)

(* No two messages of the user and no two offers are one chunk, and only   *)
(* pipes that send it share a chunk with one another.                      *)
OneMessage(U) == \A m, n \in U : m.chunk = n.chunk => m = n
OneOffer(f)   == \A p, q \in Pipes : f[p] = f[q] /\ f[p] # None => p = q
Apart == \A c \in Chunks :
    /\ c \in ChunksOf(Owned) => c \notin OfferedOf(offered) /\ On(wire, c) = {}
    /\ c \in OfferedOf(offered) => On(wire, c) = {}

(* Nobody has a chunk that was leaked.                                     *)
Gone == \A c \in leaked : refs[c] = 0

ChunksInv == /\ ChunksTypeOK /\ Counted /\ OneMessage(Owned) /\ OneOffer(offered) /\ Apart
             /\ user \cap resizing = {} /\ Gone

PatternsInv == PipesInv /\ ChunksInv
-----------------------------------------------------------------------------
(* The handlers of the socket types, by what they use.                     *)

LEMMA Kinds ==
  /\ Receivers = FairQueues \cup {"PAIR"} /\ "PAIR" \notin FairQueues
  /\ Senders = Balancers \cup Distributors \cup {"PAIR"}
  /\ "PAIR" \notin Balancers /\ "PAIR" \notin Distributors
  /\ Balancers \cap Distributors = {}
  /\ Protos = Senders \cup {"PULL"} /\ "PULL" \notin Senders /\ "PULL" \in FairQueues
BY DEF Receivers, FairQueues, Senders, Balancers, Distributors, Protos

LEMMA ProtoInIs ==
  ASSUME NEW p, ProtoIn(p)
  PROVE  \/ /\ proto \in FairQueues
            /\ fq' = PrioListActivate(fq, p, data[p])
            /\ UNCHANGED <<lb, dist, count, excl, failed>>
         \/ proto = "PAIR" /\ ExclIn(p) /\ UNCHANGED <<fq, lb, dist, count>>
BY DEF ProtoIn, XReqIn, XSurveyorIn, XPullIn, XBusIn, XPairIn, FairQueues, Bus

LEMMA ProtoOutIs ==
  ASSUME NEW p, NEW q, ProtoOut(p, q)
  PROVE  \/ /\ proto \in Balancers
            /\ lb' = PrioListActivate(lb, p, q)
            /\ UNCHANGED <<fq, dist, count, excl, failed>>
         \/ proto \in Distributors /\ DistOut(p) /\ UNCHANGED <<fq, lb, excl, failed>>
         \/ proto = "PULL" /\ UNCHANGED <<fq, lb, dist, count, excl, failed>>
         \/ proto = "PAIR" /\ ExclOut(p) /\ UNCHANGED <<fq, lb, dist, count>>
BY DEF ProtoOut, XReqOut, XSurveyorOut, XPushOut, XPubOut, XBusOut, XPairOut, XPullOut,
       Balancers, Distributors, Bus, lists

LEMMA ProtoAddIs ==
  ASSUME NEW p \in Pipes, ProtoAdd(p)
  PROVE  \/ /\ proto # "PAIR"
            /\ \E q \in Priorities : data' = [data EXCEPT ![p] = q] /\ ProtoOut(p, q)
         \/ proto = "PAIR" /\ XPairAdd(p)
<1>1. Prio[p] \in Priorities /\ 1 \in Priorities
  BY PrioAssumption, SlotsAssumption DEF Priorities
<1>2. QED
  BY <1>1 DEF ProtoAdd, XReqAdd, XSurveyorAdd, XPushAdd, XPullAdd, XPubAdd, XBusAdd, DataSet,
              ProtoOut, Bus

LEMMA ProtoRmIs ==
  ASSUME NEW p, ProtoRm(p)
  PROVE  /\ data' = [data EXCEPT ![p] = 0]
         /\ fq' = IF proto \in FairQueues THEN PrioListRm(fq, p, data[p]) ELSE fq
         /\ lb' = IF proto \in Balancers THEN PrioListRm(lb, p, data[p]) ELSE lb
         /\ IF proto \in Distributors THEN DistRm(p) ELSE UNCHANGED <<dist, count>>
         /\ IF proto = "PAIR" THEN ExclRm(p) ELSE UNCHANGED <<excl, failed>>
         /\ proto \in Protos
BY DEF ProtoRm, XReqRm, XSurveyorRm, XPushRm, XPullRm, XPubRm, XBusRm, XPairRm, DataSet,
       FairQueues, Balancers, Distributors, Bus, Protos, Receivers, Senders

-----------------------------------------------------------------------------
(* What the handlers do to the lists.                                      *)

LEMMA ReadyFinite ==
  ASSUME NEW dir
  PROVE  IsFiniteSet(Ready(dir)) /\ Ready(dir) \subseteq Pipes
<1>1. Ready(dir) \in SUBSET Pipes
  BY DEF Ready
<1>2. QED
  BY <1>1, FiniteAssumption, FS_Subset

(* A message arrived at pipe p.                                            *)
LEMMA InLists ==
  ASSUME PipesInv, NEW p \in Pipes, up[p] = "ACTIVE", instate[p] = "ASYNC", ProtoIn(p),
         instate' = [instate EXCEPT ![p] = "IDLE"], UNCHANGED <<proto, up, outstate, data>>
  PROVE  ListsSound'
<1>0. /\ p \notin Ready(instate)
      /\ instate \in [Pipes -> {"DEACTIVATED", "IDLE", "ASYNC"}] /\ PipeSound(p)
  BY DEF PipesInv, PipesTypeOK, Ready
<1>1. /\ Ready(instate)' = Ready(instate) \cup {p}
      /\ Ready(outstate)' = Ready(outstate)
  BY <1>0 DEF Ready
<1>2. LbPipes' = LbPipes /\ DistPipes' = DistPipes
  BY <1>1 DEF LbPipes, DistPipes
<1>3. Holds(fq, FqPipes, data) /\ Holds(lb, LbPipes, data) /\ DistSound /\ ExclSound /\ NoAbort
  BY DEF PipesInv, ListsSound
<1>4. CASE /\ proto \in FairQueues
           /\ fq' = PrioListActivate(fq, p, data[p])
           /\ UNCHANGED <<lb, dist, count, excl, failed>>
  <2>1. FqPipes' = FqPipes \cup {p} /\ p \in Pipes \ FqPipes /\ data[p] \in Priorities
    BY <1>0, <1>1, <1>4, Kinds DEF FqPipes, PipeSound
  <2>2. Holds(PrioListActivate(fq, p, data[p]), FqPipes \cup {p}, data)
    BY <1>3, <2>1, ActivateHolds
  <2>3. Holds(fq', FqPipes', data')
    BY <1>4, <2>1, <2>2
  <2>4. Holds(lb', LbPipes', data')
    BY <1>2, <1>3, <1>4
  <2>5. DistSound'
    BY <1>2, <1>3, <1>4 DEF DistSound
  <2>6. NoAbort' /\ ExclSound'
    BY <1>3, <1>4, Kinds DEF NoAbort, ExclSound
  <2>7. QED
    BY <2>3, <2>4, <2>5, <2>6 DEF ListsSound
<1>5. CASE proto = "PAIR" /\ ExclIn(p) /\ UNCHANGED <<fq, lb, dist, count>>
  <2>1. FqPipes' = FqPipes
    BY <1>5, Kinds DEF FqPipes
  <2>2. Holds(fq', FqPipes', data') /\ Holds(lb', LbPipes', data') /\ DistSound'
    BY <1>2, <1>3, <1>5, <2>1 DEF DistSound
  <2>3. p \in {q \in Pipes : up[q] = "ACTIVE"}
    OBVIOUS
  <2>4. p = excl.pipe /\ p # None
    BY <1>3, <1>5, <2>3 DEF ExclSound
  <2>5. excl.inpipe = None
    <3>1. excl.inpipe # None => excl.inpipe \in {q \in Pipes : up[q] = "ACTIVE"}
      BY <1>3, <1>5 DEF ExclSound, Ready
    <3>2. QED
      BY <1>0, <1>3, <1>5, <2>4, <3>1 DEF ExclSound
  <2>6. excl' = [excl EXCEPT !.inpipe = p] /\ failed' = failed
    BY <1>5, <2>4, <2>5 DEF ExclIn
  <2>7. /\ excl'.inpipe = p /\ excl'.pipe = excl.pipe /\ excl'.outpipe = excl.outpipe
        /\ excl' \in [pipe : Pipes \cup {None}, inpipe : Pipes \cup {None},
                      outpipe : Pipes \cup {None}]
    BY <1>3, <2>6 DEF ExclSound
  <2>8. Ready(instate)' = {p}
    BY <1>1, <1>3, <1>5, <2>5 DEF ExclSound
  <2>9. ExclSound'
    BY <1>1, <1>3, <1>5, <2>4, <2>7, <2>8 DEF ExclSound
  <2>10. QED
    BY <1>3, <2>2, <2>6, <2>9 DEF ListsSound, NoAbort
<1>6. QED
  BY <1>4, <1>5, ProtoInIs

(* Pipe p can be sent to, again or for the first time.                     *)
LEMMA OutLists ==
  ASSUME PipesInv, NEW p \in Pipes, p \notin Ready(outstate), NEW q, ProtoOut(p, q),
         Ready(outstate)' = Ready(outstate) \cup {p}, Ready(instate)' = Ready(instate),
         proto' = proto, proto # "PAIR" => q \in Priorities,
         data'[p] = q \/ proto = "PAIR", \A r \in Pipes \ {p} : data'[r] = data[r],
         p \notin Ready(instate) \/ data' = data,
         proto = "PAIR" => up[p] = "ACTIVE" /\ up' = up
  PROVE  ListsSound'
<1>1. Holds(fq, FqPipes, data) /\ Holds(lb, LbPipes, data) /\ DistSound /\ ExclSound /\ NoAbort
  BY DEF PipesInv, ListsSound
<1>2. FqPipes' = FqPipes
  BY DEF FqPipes
<1>3. Holds(fq, FqPipes', data')
  <2>1. \A r \in FqPipes : data'[r] = data[r]
    BY DEF FqPipes, Ready
  <2>2. QED
    BY <1>1, <1>2, <2>1, HoldsSame
<1>4. \A r \in LbPipes : data'[r] = data[r]
  BY DEF LbPipes, Ready
<1>5. CASE /\ proto \in Balancers
           /\ lb' = PrioListActivate(lb, p, q)
           /\ UNCHANGED <<fq, dist, count, excl, failed>>
  <2>1. LbPipes' = LbPipes \cup {p} /\ p \in Pipes \ LbPipes /\ proto # "PAIR"
    BY <1>5, Kinds DEF LbPipes
  <2>2. DistPipes' = DistPipes
    BY <1>5, Kinds DEF DistPipes
  <2>3. Holds(PrioListActivate(lb, p, q), LbPipes \cup {p}, data')
    <3>. DEFINE S == LbPipes
                e == data'
    <3>1. /\ Holds(lb, S, data) /\ p \in Pipes \ S /\ q \in Priorities
          /\ e[p] = q /\ \A r \in S : e[r] = data[r]
      BY <1>1, <1>4, <2>1
    <3>. HIDE DEF S, e
    <3>2. Holds(PrioListActivate(lb, p, q), S \cup {p}, e)
      BY <3>1, ActivateHolds
    <3>3. QED
      BY <3>2 DEF S, e
  <2>4. Holds(lb', LbPipes', data')
    BY <1>5, <2>1, <2>3
  <2>5. Holds(fq', FqPipes', data') /\ DistSound' /\ NoAbort'
    BY <1>1, <1>3, <1>5, <2>2 DEF DistSound, NoAbort
  <2>6. ExclSound'
    BY <1>1, <1>5, <2>1 DEF ExclSound
  <2>7. QED
    BY <2>4, <2>5, <2>6 DEF ListsSound
<1>6. CASE proto \in Distributors /\ DistOut(p) /\ UNCHANGED <<fq, lb, excl, failed>>
  <2>1. DistPipes' = DistPipes \cup {p} /\ p \notin DistPipes /\ proto # "PAIR"
    BY <1>6, Kinds DEF DistPipes
  <2>2. LbPipes' = LbPipes
    BY <1>6, Kinds DEF LbPipes
  <2>3. Holds(lb', LbPipes', data')
    BY <1>1, <1>4, <1>6, <2>2, HoldsSame
  <2>4. dist' = DistPipes' /\ p \notin dist /\ count' = count + 1 /\ dist' = dist \cup {p}
    BY <1>1, <1>6, <2>1 DEF DistSound, DistOut
  <2>5. IsFiniteSet(dist)
    BY <1>1, <1>6, ReadyFinite DEF DistSound, DistPipes
  <2>6. DistSound'
    <3>1. Cardinality(dist \cup {p}) = Cardinality(dist) + 1
      BY <2>4, <2>5, FS_AddElement
    <3>2. QED
      BY <1>1, <2>4, <3>1 DEF DistSound
  <2>7. Holds(fq', FqPipes', data') /\ NoAbort'
    BY <1>1, <1>3, <1>6 DEF NoAbort
  <2>8. ExclSound'
    BY <1>1, <1>6, <2>1 DEF ExclSound
  <2>9. QED
    BY <2>3, <2>6, <2>7, <2>8 DEF ListsSound
<1>7. ASSUME proto = "PULL" \/ proto = "PAIR"
      PROVE  LbPipes' = {} /\ LbPipes = {} /\ DistPipes' = {} /\ DistPipes = {}
  BY <1>7, Kinds DEF LbPipes, DistPipes
<1>8. CASE proto = "PULL" /\ UNCHANGED <<fq, lb, dist, count, excl, failed>>
  <2>1. Holds(lb', LbPipes', data')
    BY <1>1, <1>4, <1>7, <1>8, HoldsSame
  <2>2. QED
    BY <1>1, <1>3, <1>7, <1>8, <2>1 DEF ListsSound, NoAbort, DistSound, ExclSound
<1>9. CASE proto = "PAIR" /\ ExclOut(p) /\ UNCHANGED <<fq, lb, dist, count>>
  <2>1. Holds(lb', LbPipes', data')
    BY <1>1, <1>4, <1>7, <1>9, HoldsSame
  <2>2. p \in {r \in Pipes : up[r] = "ACTIVE"}
    BY <1>9
  <2>3. p = excl.pipe /\ p # None
    BY <1>1, <1>9, <2>2 DEF ExclSound
  <2>4. excl.outpipe = None
    <3>1. excl.outpipe # None => excl.outpipe \in {r \in Pipes : up[r] = "ACTIVE"}
      BY <1>1, <1>9 DEF ExclSound, Ready
    <3>2. QED
      BY <1>1, <1>9, <2>3, <3>1 DEF ExclSound
  <2>5. excl' = [excl EXCEPT !.outpipe = p] /\ failed' = failed
    BY <1>9, <2>3, <2>4 DEF ExclOut
  <2>6. /\ excl'.outpipe = p /\ excl'.pipe = excl.pipe /\ excl'.inpipe = excl.inpipe
        /\ excl' \in [pipe : Pipes \cup {None}, inpipe : Pipes \cup {None},
                      outpipe : Pipes \cup {None}]
    BY <1>1, <2>5 DEF ExclSound
  <2>7. Ready(outstate)' = {p}
    BY <1>1, <1>9, <2>4 DEF ExclSound
  <2>8. ExclSound'
    BY <1>1, <1>9, <2>3, <2>6, <2>7 DEF ExclSound
  <2>9. QED
    BY <1>1, <1>3, <1>7, <1>9, <2>1, <2>5, <2>8 DEF ListsSound, NoAbort, DistSound
<1>10. QED
  BY <1>5, <1>6, <1>8, <1>9, ProtoOutIs

(* Pipe p, which was active, is removed.                                   *)
LEMMA RmLists ==
  ASSUME PipesInv, NEW p \in Pipes, up[p] = "ACTIVE", ProtoRm(p), proto' = proto,
         up' = [up EXCEPT ![p] = "IDLE"],
         Ready(instate)' = Ready(instate) \ {p}, Ready(outstate)' = Ready(outstate) \ {p}
  PROVE  ListsSound'
<1>1. /\ Holds(fq, FqPipes, data) /\ Holds(lb, LbPipes, data) /\ DistSound /\ ExclSound /\ NoAbort
      /\ data \in [Pipes -> 0..Slots] /\ PipeSound(p) /\ up \in [Pipes -> {"IDLE", "ACTIVE", "FAILED"}]
  BY DEF PipesInv, PipesTypeOK, ListsSound
<1>2. /\ data' = [data EXCEPT ![p] = 0]
      /\ fq' = IF proto \in FairQueues THEN PrioListRm(fq, p, data[p]) ELSE fq
      /\ lb' = IF proto \in Balancers THEN PrioListRm(lb, p, data[p]) ELSE lb
      /\ IF proto \in Distributors THEN DistRm(p) ELSE UNCHANGED <<dist, count>>
      /\ IF proto = "PAIR" THEN ExclRm(p) ELSE UNCHANGED <<excl, failed>>
  BY ProtoRmIs
<1>3. proto # "PAIR" => data[p] \in Priorities
  BY <1>1 DEF PipeSound
<1>4. /\ FqPipes' = FqPipes \ {p} /\ LbPipes' = LbPipes \ {p} /\ DistPipes' = DistPipes \ {p}
  BY DEF FqPipes, LbPipes, DistPipes
<1>5. \A r \in Pipes \ {p} : data'[r] = data[r]
  BY <1>1, <1>2
<1>6. Holds(fq', FqPipes', data')
  <2>1. Holds(fq', FqPipes \ {p}, data)
    <3>1. CASE proto \in FairQueues
      BY <1>1, <1>2, <1>3, <3>1, RmHolds, Kinds
    <3>2. CASE proto \notin FairQueues
      BY <1>1, <1>2, <3>2 DEF FqPipes
    <3>3. QED
      BY <3>1, <3>2
  <2>2. \A r \in FqPipes \ {p} : data'[r] = data[r]
    BY <1>5 DEF FqPipes, Ready
  <2>3. QED
    BY <1>4, <2>1, <2>2, HoldsSame
<1>7. Holds(lb', LbPipes', data')
  <2>1. Holds(lb', LbPipes \ {p}, data)
    <3>1. CASE proto \in Balancers
      BY <1>1, <1>2, <1>3, <3>1, RmHolds, Kinds
    <3>2. CASE proto \notin Balancers
      BY <1>1, <1>2, <3>2 DEF LbPipes
    <3>3. QED
      BY <3>1, <3>2
  <2>2. \A r \in LbPipes \ {p} : data'[r] = data[r]
    BY <1>5 DEF LbPipes, Ready
  <2>3. QED
    BY <1>4, <2>1, <2>2, HoldsSame
<1>8. DistSound'
  <2>1. CASE proto \in Distributors
    <3>1. IsFiniteSet(dist)
      BY <1>1, <2>1, ReadyFinite DEF DistSound, DistPipes
    <3>2. /\ dist' = dist \ {p} /\ count' = IF p \in dist THEN count - 1 ELSE count
      BY <1>2, <2>1 DEF DistRm
    <3>3. Cardinality(dist \ {p}) = IF p \in dist THEN Cardinality(dist) - 1 ELSE Cardinality(dist)
      BY <3>1, FS_RemoveElement
    <3>4. QED
      BY <1>1, <1>4, <3>2, <3>3 DEF DistSound
  <2>2. CASE proto \notin Distributors
    BY <1>1, <1>2, <1>4, <2>2 DEF DistSound, DistPipes
  <2>3. QED
    BY <2>1, <2>2
<1>9. NoAbort' /\ ExclSound'
  <2>1. CASE proto = "PAIR"
    <3>1. p \in {r \in Pipes : up[r] = "ACTIVE"}
      OBVIOUS
    <3>2. p = excl.pipe /\ p # None /\ {r \in Pipes : up[r] = "ACTIVE"} = {p}
      BY <1>1, <2>1, <3>1 DEF ExclSound
    <3>3. excl' = NoPipe /\ failed' = failed
      BY <1>2, <2>1, <3>2 DEF ExclRm
    <3>4. /\ {r \in Pipes : up'[r] = "ACTIVE"} = {}
          /\ Ready(instate) \subseteq {p} /\ Ready(outstate) \subseteq {p}
      BY <1>1, <3>2 DEF Ready
    <3>5. Ready(instate)' = {} /\ Ready(outstate)' = {}
      BY <3>4
    <3>6. /\ NoPipe.pipe = None /\ NoPipe.inpipe = None /\ NoPipe.outpipe = None
          /\ NoPipe \in [pipe : Pipes \cup {None}, inpipe : Pipes \cup {None},
                         outpipe : Pipes \cup {None}]
      BY DEF NoPipe
    <3>7. ExclSound'
      BY <2>1, <3>3, <3>4, <3>5, <3>6 DEF ExclSound
    <3>8. QED
      BY <1>1, <3>3, <3>7 DEF NoAbort
  <2>2. CASE proto # "PAIR"
    BY <1>1, <1>2, <2>2 DEF NoAbort, ExclSound
  <2>3. QED
    BY <2>1, <2>2
<1>10. QED
  BY <1>6, <1>7, <1>8, <1>9 DEF ListsSound

-----------------------------------------------------------------------------
(* The steps of a pipe.                                                    *)

(* grid_pipebase_start, of a pipe the socket takes or refuses.             *)
LEMMA StartPipes ==
  ASSUME PipesInv, NEW p \in Pipes, Start(p)
  PROVE  PipesInv'
<1>0. /\ PipesTypeOK /\ ListsSound /\ up[p] = "IDLE" /\ \A r \in Pipes : PipeSound(r)
      /\ instate' = [instate EXCEPT ![p] = "ASYNC"] /\ outstate' = [outstate EXCEPT ![p] = "IDLE"]
      /\ UNCHANGED <<proto, offered, wire>> /\ p # None
  BY PipesAssumption DEF PipesInv, Start
<1>1. /\ instate'[p] = "ASYNC" /\ outstate'[p] = "IDLE"
      /\ \A r \in Pipes \ {p} : instate'[r] = instate[r] /\ outstate'[r] = outstate[r]
      /\ offered[p] = None /\ wire[p] = None
      /\ p \notin Ready(instate) /\ p \notin Ready(outstate)
  BY <1>0 DEF PipesTypeOK, PipeSound, Ready
<1>2. CASE /\ proto = "PAIR" /\ ExclRefuses
           /\ up' = [up EXCEPT ![p] = "FAILED"] /\ UNCHANGED <<data, lists, failed>>
  <2>1. up'[p] = "FAILED" /\ \A r \in Pipes \ {p} : up'[r] = up[r]
    BY <1>0, <1>2 DEF PipesTypeOK
  <2>2. PipesTypeOK'
    BY <1>0, <1>2 DEF PipesTypeOK
  <2>3. \A r \in Pipes : PipeSound(r)'
    BY <1>0, <1>1, <1>2, <2>1 DEF PipeSound
  <2>4. Ready(instate)' = Ready(instate) /\ Ready(outstate)' = Ready(outstate)
    BY <1>1, <2>1 DEF Ready
  <2>5. FqPipes' = FqPipes /\ LbPipes' = LbPipes /\ DistPipes' = DistPipes
    BY <1>0, <2>4 DEF FqPipes, LbPipes, DistPipes
  <2>6. {r \in Pipes : up'[r] = "ACTIVE"} = {r \in Pipes : up[r] = "ACTIVE"}
    BY <1>0, <2>1
  <2>7. ExclSound'
    BY <1>0, <1>2, <2>4, <2>6 DEF ListsSound, ExclSound, lists
  <2>8. ListsSound'
    BY <1>0, <1>2, <2>5, <2>7 DEF ListsSound, DistSound, NoAbort, lists
  <2>9. QED
    BY <2>2, <2>3, <2>8 DEF PipesInv
<1>3. CASE up' = [up EXCEPT ![p] = "ACTIVE"] /\ ProtoAdd(p)
  <2>1. up'[p] = "ACTIVE" /\ \A r \in Pipes \ {p} : up'[r] = up[r]
    BY <1>0, <1>3 DEF PipesTypeOK
  <2>2. Ready(instate)' = Ready(instate) /\ Ready(outstate)' = Ready(outstate) \cup {p}
    BY <1>1, <2>1 DEF Ready
  <2>3. CASE proto = "PAIR" /\ XPairAdd(p)
    <3>1. /\ excl.pipe = None /\ excl' = [excl EXCEPT !.pipe = p, !.outpipe = p]
          /\ UNCHANGED <<data, fq, lb, dist, count, failed>>
      BY <2>3 DEF XPairAdd, ExclRefuses
    <3>2. /\ {r \in Pipes : up[r] = "ACTIVE"} = {}
          /\ excl \in [pipe : Pipes \cup {None}, inpipe : Pipes \cup {None},
                       outpipe : Pipes \cup {None}]
          /\ Ready(instate) = {excl.inpipe} \ {None}
      BY <1>0, <2>3, <3>1 DEF ListsSound, ExclSound
    <3>3. Ready(instate) = {} /\ Ready(outstate) = {}
      BY <3>2 DEF Ready
    <3>4. /\ excl'.pipe = p /\ excl'.outpipe = p /\ excl'.inpipe = excl.inpipe
          /\ excl' \in [pipe : Pipes \cup {None}, inpipe : Pipes \cup {None},
                        outpipe : Pipes \cup {None}]
      BY <3>1, <3>2
    <3>5. {r \in Pipes : up'[r] = "ACTIVE"} = {p}
      BY <2>1, <3>2
    <3>6. ExclSound'
      BY <1>0, <2>2, <2>3, <3>2, <3>3, <3>4, <3>5 DEF ExclSound
    <3>7. FqPipes' = FqPipes /\ LbPipes' = LbPipes /\ DistPipes' = DistPipes
      BY <1>0, <2>3, Kinds DEF FqPipes, LbPipes, DistPipes
    <3>8. ListsSound'
      BY <1>0, <3>1, <3>6, <3>7 DEF ListsSound, DistSound, NoAbort
    <3>9. PipesTypeOK'
      BY <1>0, <1>3, <3>1 DEF PipesTypeOK
    <3>10. \A r \in Pipes : PipeSound(r)'
      BY <1>0, <1>1, <2>1, <2>3, <3>1 DEF PipeSound
    <3>11. QED
      BY <3>8, <3>9, <3>10 DEF PipesInv
  <2>4. ASSUME proto # "PAIR", NEW q \in Priorities, data' = [data EXCEPT ![p] = q], ProtoOut(p, q)
        PROVE  PipesInv'
    <3>1. data'[p] = q /\ \A r \in Pipes \ {p} : data'[r] = data[r]
      BY <1>0, <2>4 DEF PipesTypeOK
    <3>2. ListsSound'
      BY <1>0, <1>1, <2>2, <2>4, <3>1, OutLists
    <3>3. q \in 0..Slots
      BY SlotsAssumption DEF Priorities
    <3>4. PipesTypeOK'
      BY <1>0, <1>3, <2>4, <3>3 DEF PipesTypeOK
    <3>5. \A r \in Pipes : PipeSound(r)'
      BY <1>0, <1>1, <2>1, <2>4, <3>1 DEF PipeSound
    <3>6. QED
      BY <3>2, <3>4, <3>5 DEF PipesInv
  <2>5. QED
    BY <1>3, <2>3, <2>4, ProtoAddIs
<1>4. QED
  BY <1>2, <1>3 DEF Start

(* grid_pipebase_stop                                                      *)
LEMMA StopPipes ==
  ASSUME PipesInv, NEW p \in Pipes, Stop(p)
  PROVE  PipesInv'
<1>0. /\ PipesTypeOK /\ ListsSound /\ up[p] # "IDLE" /\ \A r \in Pipes : PipeSound(r)
      /\ up' = [up EXCEPT ![p] = "IDLE"]
      /\ instate' = [instate EXCEPT ![p] = "DEACTIVATED"]
      /\ outstate' = [outstate EXCEPT ![p] = "DEACTIVATED"]
      /\ offered' = [offered EXCEPT ![p] = None] /\ wire' = [wire EXCEPT ![p] = None]
      /\ proto' = proto
  BY DEF PipesInv, Stop
<1>1. /\ up'[p] = "IDLE" /\ instate'[p] = "DEACTIVATED" /\ outstate'[p] = "DEACTIVATED"
      /\ offered'[p] = None /\ wire'[p] = None
      /\ \A r \in Pipes \ {p} : /\ up'[r] = up[r]
                                /\ instate'[r] = instate[r] /\ outstate'[r] = outstate[r]
                                /\ offered'[r] = offered[r] /\ wire'[r] = wire[r]
  BY <1>0 DEF PipesTypeOK
<1>2. Ready(instate)' = Ready(instate) \ {p} /\ Ready(outstate)' = Ready(outstate) \ {p}
  BY <1>1 DEF Ready
<1>3. CASE up[p] = "ACTIVE"
  <2>1. ProtoRm(p)
    BY <1>3 DEF Stop, MustRemove
  <2>2. ListsSound'
    BY <1>0, <1>2, <1>3, <2>1, RmLists
  <2>3. data' = [data EXCEPT ![p] = 0] /\ data \in [Pipes -> 0..Slots]
    BY <1>0, <2>1, ProtoRmIs DEF PipesTypeOK
  <2>4. data' \in [Pipes -> 0..Slots] /\ \A r \in Pipes \ {p} : data'[r] = data[r]
    BY <2>3, SlotsAssumption
  <2>5. PipesTypeOK'
    BY <1>0, <2>4 DEF PipesTypeOK
  <2>6. \A r \in Pipes : PipeSound(r)'
    BY <1>0, <1>1, <2>4 DEF PipeSound
  <2>7. QED
    BY <2>2, <2>5, <2>6 DEF PipesInv
<1>4. CASE up[p] # "ACTIVE"
  <2>1. UNCHANGED <<data, lists, failed>>
    BY <1>4 DEF Stop, MustRemove
  <2>2. Ready(instate)' = Ready(instate) /\ Ready(outstate)' = Ready(outstate)
    BY <1>2, <1>4 DEF Ready
  <2>3. FqPipes' = FqPipes /\ LbPipes' = LbPipes /\ DistPipes' = DistPipes
    BY <1>0, <2>2 DEF FqPipes, LbPipes, DistPipes
  <2>4. {r \in Pipes : up'[r] = "ACTIVE"} = {r \in Pipes : up[r] = "ACTIVE"}
    BY <1>1, <1>4
  <2>5. ExclSound'
    BY <1>0, <2>1, <2>2, <2>4 DEF ListsSound, ExclSound, lists
  <2>6. ListsSound'
    BY <1>0, <2>1, <2>3, <2>5 DEF ListsSound, DistSound, NoAbort, lists
  <2>7. PipesTypeOK'
    BY <1>0, <2>1 DEF PipesTypeOK
  <2>8. \A r \in Pipes : PipeSound(r)'
    BY <1>0, <1>1, <2>1 DEF PipeSound
  <2>9. QED
    BY <2>6, <2>7, <2>8 DEF PipesInv
<1>5. QED
  BY <1>3, <1>4

(* grid_pipebase_received                                                  *)
LEMMA ReceivedPipes ==
  ASSUME PipesInv, NEW p \in Pipes, Received(p)
  PROVE  PipesInv'
<1>0. /\ PipesTypeOK /\ up[p] = "ACTIVE" /\ instate[p] = "ASYNC" /\ ProtoIn(p)
      /\ instate' = [instate EXCEPT ![p] = "IDLE"]
      /\ UNCHANGED <<proto, up, outstate, data, wire>> /\ \A r \in Pipes : PipeSound(r)
  BY DEF PipesInv, Received
<1>1. PICK c \in Chunks : offered' = [offered EXCEPT ![p] = c]
  BY DEF Received, Free
<1>2. c # None
  BY ChunksAssumption
<1>3. /\ offered'[p] = c /\ instate'[p] = "IDLE"
      /\ \A r \in Pipes \ {p} : offered'[r] = offered[r] /\ instate'[r] = instate[r]
  BY <1>0, <1>1 DEF PipesTypeOK
<1>4. PipesTypeOK'
  BY <1>0, <1>1 DEF PipesTypeOK
<1>5. \A r \in Pipes : PipeSound(r)'
  BY <1>0, <1>2, <1>3 DEF PipeSound
<1>6. ListsSound'
  BY <1>0, InLists
<1>7. QED
  BY <1>4, <1>5, <1>6 DEF PipesInv

(* grid_pipebase_sent                                                      *)
LEMMA SentPipes ==
  ASSUME PipesInv, NEW p \in Pipes, Sent(p)
  PROVE  PipesInv'
<1>0. /\ PipesTypeOK /\ up[p] = "ACTIVE" /\ outstate[p] = "ASYNC" /\ ProtoOut(p, data[p])
      /\ outstate' = [outstate EXCEPT ![p] = "IDLE"] /\ wire' = [wire EXCEPT ![p] = None]
      /\ UNCHANGED <<proto, up, instate, data, offered>> /\ \A r \in Pipes : PipeSound(r)
  BY DEF PipesInv, Sent
<1>1. /\ wire'[p] = None /\ outstate'[p] = "IDLE"
      /\ \A r \in Pipes \ {p} : wire'[r] = wire[r] /\ outstate'[r] = outstate[r]
  BY <1>0 DEF PipesTypeOK
<1>2. PipesTypeOK'
  BY <1>0 DEF PipesTypeOK
<1>3. \A r \in Pipes : PipeSound(r)'
  BY <1>0, <1>1 DEF PipeSound
<1>4. /\ p \notin Ready(outstate) /\ Ready(instate)' = Ready(instate)
      /\ Ready(outstate)' = Ready(outstate) \cup {p}
  BY <1>0, <1>1 DEF Ready
<1>5. proto # "PAIR" => data[p] \in Priorities
  BY <1>0 DEF PipeSound
<1>6. ListsSound'
  BY <1>0, <1>4, <1>5, OutLists
<1>7. QED
  BY <1>2, <1>3, <1>6 DEF PipesInv

-----------------------------------------------------------------------------
(* The steps of the user.                                                  *)

(* A message on its way: the pipes of kept are busy with chunk c.          *)
Busied(c, kept) ==
    /\ outstate' = [p \in Pipes |-> IF p \in kept THEN "ASYNC" ELSE outstate[p]]
    /\ wire' = [p \in Pipes |-> IF p \in kept THEN c ELSE wire[p]]
    /\ refs' = [refs EXCEPT ![c] = @ - 1 + Cardinality(kept)]

LEMMA BusiedPipes ==
  ASSUME PipesInv, NEW c \in Chunks, NEW kept \in SUBSET Ready(outstate), Busied(c, kept),
         UNCHANGED <<proto, up, instate, data, offered>>
  PROVE  /\ PipesTypeOK' /\ \A p \in Pipes : PipeSound(p)'
         /\ Ready(outstate)' = Ready(outstate) \ kept /\ Ready(instate)' = Ready(instate)
<1>0. /\ PipesTypeOK /\ \A p \in Pipes : PipeSound(p)
      /\ \A p \in kept : p \in Pipes /\ up[p] = "ACTIVE" /\ outstate[p] = "IDLE"
  BY DEF PipesInv, Ready
<1>1. \A p \in Pipes : /\ outstate'[p] = IF p \in kept THEN "ASYNC" ELSE outstate[p]
                       /\ wire'[p] = IF p \in kept THEN c ELSE wire[p]
  BY DEF Busied
<1>2. c # None
  BY ChunksAssumption
<1>3. PipesTypeOK'
  BY <1>0 DEF PipesTypeOK, Busied
<1>4. \A p \in Pipes : PipeSound(p)'
  BY <1>0, <1>1, <1>2 DEF PipeSound
<1>5. Ready(outstate)' = Ready(outstate) \ kept /\ Ready(instate)' = Ready(instate)
  BY <1>1 DEF Ready
<1>6. QED
  BY <1>3, <1>4, <1>5

(* One pipe takes the message and is done with it at once, or is not.      *)
LEMMA PipeSendBusied ==
  ASSUME PipesInv, refs \in [Chunks -> Int], NEW c \in Chunks, NEW p \in Ready(outstate),
         NEW release \in BOOLEAN, PipeSend(p, c, release)
  PROVE  Busied(c, IF release THEN {p} ELSE {}) /\ failed' = failed
<1>. DEFINE kept == IF release THEN {p} ELSE {}
<1>0. /\ PipesTypeOK /\ p \in Pipes /\ outstate[p] = "IDLE" /\ wire[p] = None
  BY DEF PipesInv, PipeSound, Ready
<1>1. /\ outstate' = [outstate EXCEPT ![p] = IF release THEN "ASYNC" ELSE "IDLE"]
      /\ wire' = [wire EXCEPT ![p] = IF release THEN c ELSE None]
      /\ refs' = [refs EXCEPT ![c] = IF release THEN @ ELSE @ - 1]
      /\ failed' = failed
  BY <1>0 DEF PipeSend
<1>2. /\ outstate' = [q \in Pipes |-> IF q \in kept THEN "ASYNC" ELSE outstate[q]]
      /\ wire' = [q \in Pipes |-> IF q \in kept THEN c ELSE wire[q]]
  BY <1>0, <1>1 DEF PipesTypeOK
<1>3. Cardinality(kept) = IF release THEN 1 ELSE 0
  BY FS_Singleton, FS_EmptySet
<1>4. refs' = [refs EXCEPT ![c] = @ - 1 + Cardinality(kept)]
  <2>1. refs[c] \in Int
    OBVIOUS
  <2>. HIDE DEF kept
  <2>2. refs[c] - 1 + Cardinality(kept) = IF release THEN refs[c] ELSE refs[c] - 1
    BY <1>3, <2>1
  <2>3. QED
    BY <1>1, <2>2
<1>5. QED
  BY <1>1, <1>2, <1>4 DEF Busied

LEMMA SendIs ==
  ASSUME NEW m, SendMsg(m)
  PROVE  /\ \/ /\ proto \in Balancers /\ PrioListIsActive(lb)
               /\ LbSend(m.chunk) /\ UNCHANGED <<fq, dist, count, excl>>
            \/ /\ proto \in Distributors
               /\ (\E x : DistSend(m.chunk, x)) /\ UNCHANGED <<fq, lb, excl>>
            \/ /\ proto = "PAIR" /\ excl.outpipe # None
               /\ ExclSend(m.chunk) /\ UNCHANGED <<fq, lb, dist, count>>
         /\ user' = user \ {m}
         /\ UNCHANGED <<proto, up, instate, data, offered, leaked, elsewhere, resizing>>
BY DEF SendMsg, SendRefused, XPushSend, XReqSend, XPubSend, XSurveyorSend, XPairSend, XBusSend,
       BusSend, Balancers, Distributors, Bus

(* grid_sendmsg: the message is with the pipes that are busy with it.      *)
LEMMA SendLists ==
  ASSUME PipesInv, ChunksTypeOK, NEW m \in user, SendMsg(m)
  PROVE  /\ ListsSound'
         /\ \E kept \in SUBSET Ready(outstate) : Busied(m.chunk, kept)
<1>. DEFINE c == m.chunk
<1>0. /\ c \in Chunks /\ refs \in [Chunks -> Int]
      /\ Holds(fq, FqPipes, data) /\ Holds(lb, LbPipes, data) /\ DistSound /\ ExclSound /\ NoAbort
      /\ UNCHANGED <<proto, up, instate, data, offered>>
  BY SendIs DEF ChunksTypeOK, Owned, PipesInv, ListsSound
<1>. HIDE DEF c
(* What holds whichever pipes become busy.                                 *)
<1>1. ASSUME NEW kept \in SUBSET Ready(outstate), Busied(c, kept)
      PROVE  /\ Ready(outstate)' = Ready(outstate) \ kept /\ Ready(instate)' = Ready(instate)
             /\ LbPipes' = LbPipes \ kept /\ DistPipes' = DistPipes \ kept
             /\ FqPipes' = FqPipes
  <2>1. Ready(outstate)' = Ready(outstate) \ kept /\ Ready(instate)' = Ready(instate)
    BY <1>0, <1>1, BusiedPipes
  <2>2. QED
    BY <1>0, <2>1 DEF LbPipes, DistPipes, FqPipes
<1>2. CASE /\ proto \in Balancers /\ PrioListIsActive(lb)
           /\ LbSend(c) /\ UNCHANGED <<fq, dist, count, excl>>
  <2>. DEFINE p == PrioListGetPipe(lb)
  <2>1. PICK release \in BOOLEAN : PipeSend(p, c, release) /\ lb' = PrioListAdvance(lb, release)
    BY <1>2 DEF LbSend
  <2>2. p \in LbPipes /\ p \in Ready(outstate)
    BY <1>0, <1>2, GetPipeHeld DEF LbPipes
  <2>3. Holds(lb', IF release THEN LbPipes \ {p} ELSE LbPipes, data)
    BY <1>0, <1>2, <2>1, AdvanceHolds
  <2>. HIDE DEF p
  <2>. DEFINE kept == IF release THEN {p} ELSE {}
  <2>4. Busied(c, kept) /\ failed' = failed /\ kept \in SUBSET Ready(outstate)
    BY <1>0, <2>1, <2>2, PipeSendBusied
  <2>5. LbPipes' = IF release THEN LbPipes \ {p} ELSE LbPipes
    BY <1>1, <2>4
  <2>6. Holds(lb', LbPipes', data') /\ Holds(fq', FqPipes', data')
    BY <1>0, <1>1, <1>2, <2>3, <2>4, <2>5
  <2>7. DistPipes = {} /\ DistPipes' = {} /\ proto # "PAIR"
    BY <1>0, <1>2, Kinds DEF DistPipes
  <2>8. DistSound' /\ ExclSound' /\ NoAbort'
    BY <1>0, <1>2, <2>4, <2>7 DEF DistSound, ExclSound, NoAbort
  <2>9. QED
    BY <2>4, <2>6, <2>8 DEF ListsSound, c
<1>3. ASSUME proto \in Distributors, NEW x, DistSend(c, x), UNCHANGED <<fq, lb, excl>>
      PROVE  ListsSound' /\ \E kept \in SUBSET Ready(outstate) : Busied(c, kept)
  <2>1. dist = Ready(outstate) /\ count = Cardinality(dist) /\ IsFiniteSet(dist)
    BY <1>0, <1>3, ReadyFinite DEF DistSound, DistPipes
  <2>2. ~ \E p \in dist \ {x} : outstate[p] # "IDLE"
    BY <2>1 DEF Ready
  <2>3. PICK kept \in SUBSET (dist \ {x}) :
            /\ dist' = dist \ kept /\ count' = count - Cardinality(kept)
            /\ outstate' = [p \in Pipes |-> IF p \in kept THEN "ASYNC" ELSE outstate[p]]
            /\ wire' = [p \in Pipes |-> IF p \in kept THEN c ELSE wire[p]]
            /\ refs' = BulkCopy(c, x, kept)
            /\ failed' = failed
    BY <1>3, <2>2 DEF DistSend
  <2>4. /\ kept \in SUBSET dist /\ IsFiniteSet(kept) /\ Cardinality(kept) \in Nat
        /\ Cardinality(dist) \in Nat /\ Cardinality(dist \ kept) = Cardinality(dist) - Cardinality(kept)
    <3>1. kept \in SUBSET dist
      BY <2>3
    <3>2. IsFiniteSet(kept) /\ dist \cap kept = kept
      BY <2>1, <3>1, FS_Subset
    <3>3. Cardinality(dist \ kept) = Cardinality(dist) - Cardinality(dist \cap kept)
      BY <2>1, <3>2, FS_Difference
    <3>4. QED
      BY <2>1, <3>1, <3>2, <3>3, FS_CardinalityType
  <2>5. refs' = [refs EXCEPT ![c] = @ - 1 + Cardinality(kept)]
    <3>1. refs[c] \in Int
      BY <1>0
    <3>2. refs[c] + count - 1 - Cardinality(dist \ kept) = refs[c] - 1 + Cardinality(kept)
      BY <2>1, <2>4, <3>1
    <3>3. QED
      BY <2>3, <3>2 DEF BulkCopy
  <2>6. Busied(c, kept) /\ kept \in SUBSET Ready(outstate)
    BY <2>1, <2>3, <2>4, <2>5 DEF Busied
  <2>7. DistPipes' = DistPipes \ kept /\ FqPipes' = FqPipes
    BY <1>1, <2>6
  <2>8. DistSound'
    BY <1>0, <2>1, <2>3, <2>4, <2>7 DEF DistSound
  <2>9. LbPipes = {} /\ LbPipes' = {} /\ proto # "PAIR"
    BY <1>0, <1>3, Kinds DEF LbPipes
  <2>10. Holds(lb', LbPipes', data') /\ Holds(fq', FqPipes', data') /\ ExclSound' /\ NoAbort'
    BY <1>0, <1>3, <2>3, <2>7, <2>9 DEF ExclSound, NoAbort
  <2>11. QED
    BY <2>6, <2>8, <2>10 DEF ListsSound
<1>4. CASE /\ proto = "PAIR" /\ excl.outpipe # None
           /\ ExclSend(c) /\ UNCHANGED <<fq, lb, dist, count>>
  <2>. DEFINE p == excl.outpipe
  <2>1. PICK release \in BOOLEAN :
            /\ PipeSend(p, c, release)
            /\ excl' = [excl EXCEPT !.outpipe = IF release THEN None ELSE @]
    BY <1>4 DEF ExclSend
  <2>2. p \in Ready(outstate) /\ Ready(outstate) = {p} /\ p \in Pipes
    BY <1>0, <1>4 DEF ExclSound
  <2>. DEFINE kept == IF release THEN {p} ELSE {}
  <2>3. Busied(c, kept) /\ failed' = failed /\ kept \in SUBSET Ready(outstate)
    BY <1>0, <2>1, <2>2, PipeSendBusied
  <2>4. /\ excl'.pipe = excl.pipe /\ excl'.inpipe = excl.inpipe
        /\ excl'.outpipe = IF release THEN None ELSE excl.outpipe
        /\ excl' \in [pipe : Pipes \cup {None}, inpipe : Pipes \cup {None},
                      outpipe : Pipes \cup {None}]
    BY <1>0, <2>1 DEF ExclSound
  <2>5. /\ Ready(outstate)' = (IF release THEN {} ELSE {p}) /\ Ready(instate)' = Ready(instate)
    BY <1>1, <2>2, <2>3
  <2>6. ExclSound'
    BY <1>0, <1>4, <2>4, <2>5 DEF ExclSound
  <2>7. /\ LbPipes' = LbPipes /\ DistPipes' = DistPipes /\ FqPipes' = FqPipes
    BY <1>0, <1>4, Kinds DEF LbPipes, DistPipes, FqPipes
  <2>8. QED
    BY <1>0, <1>4, <2>3, <2>6, <2>7 DEF ListsSound, DistSound, NoAbort, c
<1>5. QED
  BY <1>2, <1>3, <1>4, SendIs DEF c

LEMMA SendPipes ==
  ASSUME PipesInv, ChunksTypeOK, NEW m \in user, SendMsg(m)
  PROVE  PipesInv'
<1>1. m.chunk \in Chunks /\ UNCHANGED <<proto, up, instate, data, offered>>
  BY SendIs DEF ChunksTypeOK, Owned
<1>2. PICK kept \in SUBSET Ready(outstate) : Busied(m.chunk, kept)
  BY SendLists
<1>3. PipesTypeOK' /\ \A p \in Pipes : PipeSound(p)'
  BY <1>1, <1>2, BusiedPipes
<1>4. QED
  BY <1>3, SendLists DEF PipesInv

(* A message is taken from pipe p, which has the next one, n, or waits.    *)
Taken(p, n) ==
    /\ instate' = [instate EXCEPT ![p] = IF n = None THEN "ASYNC" ELSE "IDLE"]
    /\ offered' = [offered EXCEPT ![p] = n]
    /\ \/ /\ \E h \in Headers : user' = user \cup {Message(offered[p], h)}
          /\ refs' = Arrived(n, refs)
       \/ user' = user /\ refs' = Arrived(n, [refs EXCEPT ![offered[p]] = @ - 1])

LEMMA RecvIs ==
  ASSUME RecvMsg
  PROVE  /\ \E n \in Free \cup {None} :
               \/ /\ proto \in FairQueues /\ PrioListIsActive(fq)
                  /\ fq' = PrioListAdvance(fq, n = None) /\ UNCHANGED <<lb, dist, count, excl>>
                  /\ PrioListGetPipe(fq) \in Pipes => Taken(PrioListGetPipe(fq), n)
               \/ /\ proto = "PAIR" /\ excl.inpipe # None
                  /\ excl' = [excl EXCEPT !.inpipe = IF n = None THEN None ELSE @]
                  /\ UNCHANGED <<fq, lb, dist, count>> /\ Taken(excl.inpipe, n)
         /\ UNCHANGED <<proto, up, outstate, data, wire, leaked, elsewhere, resizing, failed>>
<1>1. PICK n \in Free \cup {None} :
          \/ proto = "PULL" /\ XPullRecv(n)
          \/ proto = "PAIR" /\ XPairRecv(n)
          \/ proto = "BUS"  /\ BusRecv(n)
          \/ proto = "XBUS" /\ XBusRecv(n)
          \/ proto = "XREQ" /\ XReqRecv(n)
          \/ proto = "XSURVEYOR" /\ XSurveyorRecv(n)
  BY DEF RecvMsg
<1>2. UNCHANGED <<proto, up, outstate, data, wire, leaked, elsewhere, resizing, failed>>
  BY DEF RecvMsg
<1>3. None \in Headers /\ Wrong \in Headers /\ \A p \in Pipes : p \in Headers
  BY DEF Headers
<1>4. CASE proto = "PAIR" /\ XPairRecv(n)
  BY <1>2, <1>3, <1>4 DEF XPairRecv, ExclRecv, PipeRecv, Taken
<1>. DEFINE p == PrioListGetPipe(fq)
            FromFq == /\ PrioListIsActive(fq) /\ fq' = PrioListAdvance(fq, n = None)
                      /\ UNCHANGED <<lb, dist, count, excl>>
                      /\ p \in Pipes => Taken(p, n)
<1>5. XPullRecv(n) => FromFq
  BY <1>3 DEF XPullRecv, FqRecv, PipeRecv, Taken
<1>6. XBusRecv(n) => FromFq
  BY <1>3 DEF XBusRecv, FqRecv, PipeRecv, Taken
<1>7. XReqRecv(n) => FromFq
  BY <1>3 DEF XReqRecv, FqRecv, PipeRecv, Taken
<1>8. FairQueues = {"PULL", "BUS", "XBUS", "XREQ", "XSURVEYOR"}
  BY DEF FairQueues
<1>9. \/ proto \in FairQueues /\ FromFq
      \/ proto = "PAIR" /\ XPairRecv(n)
  <2>. HIDE DEF FromFq
  <2>1. QED
    BY <1>1, <1>5, <1>6, <1>7, <1>8 DEF BusRecv, XSurveyorRecv
<1>10. QED
  BY <1>2, <1>4, <1>9

(* grid_recvmsg: some pipe had the message.                                *)
LEMMA RecvLists ==
  ASSUME PipesInv, RecvMsg
  PROVE  /\ ListsSound'
         /\ \E p \in Ready(instate), n \in Free \cup {None} : Taken(p, n)
<1>0. /\ Holds(fq, FqPipes, data) /\ Holds(lb, LbPipes, data) /\ DistSound /\ ExclSound /\ NoAbort
      /\ UNCHANGED <<proto, up, outstate, data, wire, leaked, elsewhere, resizing, failed>> /\ PipesTypeOK
  BY RecvIs DEF PipesInv, ListsSound
<1>1. ASSUME NEW p \in Ready(instate), NEW n \in Free \cup {None}, Taken(p, n)
      PROVE  /\ Ready(instate)' = IF n = None THEN Ready(instate) \ {p} ELSE Ready(instate)
             /\ Ready(outstate)' = Ready(outstate)
             /\ LbPipes' = LbPipes /\ DistPipes' = DistPipes
             /\ FqPipes' = IF n = None THEN FqPipes \ {p} ELSE FqPipes
  <2>1. /\ p \in Pipes /\ instate[p] = "IDLE" /\ up[p] = "ACTIVE"
        /\ instate' = [instate EXCEPT ![p] = IF n = None THEN "ASYNC" ELSE "IDLE"]
    BY <1>1 DEF Ready, Taken
  <2>2. Ready(instate)' = IF n = None THEN Ready(instate) \ {p} ELSE Ready(instate)
    BY <1>0, <2>1 DEF Ready, PipesTypeOK
  <2>3. Ready(outstate)' = Ready(outstate)
    BY <1>0 DEF Ready
  <2>4. QED
    BY <1>0, <2>2, <2>3 DEF LbPipes, DistPipes, FqPipes
<1>2. ASSUME NEW n \in Free \cup {None},
             proto \in FairQueues, PrioListIsActive(fq), fq' = PrioListAdvance(fq, n = None),
             UNCHANGED <<lb, dist, count, excl>>,
             PrioListGetPipe(fq) \in Pipes => Taken(PrioListGetPipe(fq), n)
      PROVE  ListsSound' /\ \E p \in Ready(instate) : Taken(p, n)
  <2>. DEFINE p == PrioListGetPipe(fq)
              release == n = None
  <2>1. p \in FqPipes /\ p \in Ready(instate) /\ p \in Pipes
    BY <1>0, <1>2, GetPipeHeld DEF FqPipes, Ready
  <2>2. Taken(p, n)
    BY <1>2, <2>1
  <2>3. Holds(PrioListAdvance(fq, release), IF release THEN FqPipes \ {p} ELSE FqPipes, data)
    <3>1. release \in BOOLEAN
      OBVIOUS
    <3>. HIDE DEF release
    <3>2. QED
      BY <1>0, <1>2, <3>1, AdvanceHolds
  <2>. HIDE DEF p
  <2>4. Holds(fq', FqPipes', data')
    BY <1>0, <1>1, <1>2, <2>1, <2>2, <2>3
  <2>5. LbPipes' = LbPipes /\ DistPipes' = DistPipes /\ proto # "PAIR"
    BY <1>1, <1>2, <2>1, <2>2, Kinds
  <2>6. QED
    BY <1>0, <1>2, <2>1, <2>2, <2>4, <2>5 DEF ListsSound, DistSound, ExclSound, NoAbort
<1>3. ASSUME NEW n \in Free \cup {None}, proto = "PAIR", excl.inpipe # None,
             excl' = [excl EXCEPT !.inpipe = IF n = None THEN None ELSE @],
             UNCHANGED <<fq, lb, dist, count>>, Taken(excl.inpipe, n)
      PROVE  ListsSound' /\ \E p \in Ready(instate) : Taken(p, n)
  <2>. DEFINE p == excl.inpipe
  <2>1. p \in Ready(instate) /\ Ready(instate) = {p}
    BY <1>0, <1>3 DEF ExclSound
  <2>2. /\ Ready(instate)' = (IF n = None THEN {} ELSE {p}) /\ Ready(outstate)' = Ready(outstate)
        /\ LbPipes' = LbPipes /\ DistPipes' = DistPipes
    BY <1>1, <1>3, <2>1
  <2>3. FqPipes' = FqPipes
    BY <1>0, <1>3, Kinds DEF FqPipes
  <2>4. /\ excl'.pipe = excl.pipe /\ excl'.outpipe = excl.outpipe
        /\ excl'.inpipe = IF n = None THEN None ELSE excl.inpipe
        /\ excl' \in [pipe : Pipes \cup {None}, inpipe : Pipes \cup {None},
                      outpipe : Pipes \cup {None}]
    BY <1>0, <1>3 DEF ExclSound
  <2>5. ExclSound'
    BY <1>0, <1>3, <2>2, <2>4 DEF ExclSound
  <2>6. QED
    BY <1>0, <1>3, <2>1, <2>2, <2>3, <2>5 DEF ListsSound, DistSound, NoAbort
<1>4. QED
  BY <1>2, <1>3, RecvIs

LEMMA RecvPipes ==
  ASSUME PipesInv, RecvMsg
  PROVE  PipesInv'
<1>0. /\ PipesTypeOK /\ \A r \in Pipes : PipeSound(r)
      /\ UNCHANGED <<proto, up, outstate, data, wire>>
  BY RecvIs DEF PipesInv
<1>1. PICK p \in Ready(instate), n \in Free \cup {None} : Taken(p, n)
  BY RecvLists
<1>2. /\ p \in Pipes /\ up[p] = "ACTIVE" /\ n \in Chunks \cup {None}
      /\ instate' = [instate EXCEPT ![p] = IF n = None THEN "ASYNC" ELSE "IDLE"]
      /\ offered' = [offered EXCEPT ![p] = n]
  BY <1>1 DEF Ready, Free, Taken
<1>3. /\ instate'[p] = (IF n = None THEN "ASYNC" ELSE "IDLE") /\ offered'[p] = n
      /\ \A r \in Pipes \ {p} : instate'[r] = instate[r] /\ offered'[r] = offered[r]
  BY <1>0, <1>2 DEF PipesTypeOK
<1>4. PipesTypeOK'
  BY <1>0, <1>2 DEF PipesTypeOK
<1>5. \A r \in Pipes : PipeSound(r)'
  BY <1>0, <1>2, <1>3 DEF PipeSound
<1>6. QED
  BY <1>4, <1>5, RecvLists DEF PipesInv

(* What is left when the socket is closed: nothing.                        *)
LEMMA ReopenPipes ==
  ASSUME PipesInv, Reopen
  PROVE  PipesInv'
<1>0. /\ PipesTypeOK /\ \A p \in Pipes : PipeSound(p) /\ up[p] = "IDLE"
      /\ UNCHANGED <<up, instate, outstate, data, lists, offered, wire>>
      /\ Holds(fq, FqPipes, data) /\ Holds(lb, LbPipes, data) /\ DistSound /\ ExclSound /\ NoAbort
  BY DEF Reopen, PipesInv, ListsSound
<1>1. Ready(instate) = {} /\ Ready(outstate) = {} /\ {p \in Pipes : up[p] = "ACTIVE"} = {}
  BY <1>0 DEF Ready
<1>2. /\ FqPipes = {} /\ LbPipes = {} /\ DistPipes = {}
      /\ FqPipes' = {} /\ LbPipes' = {} /\ DistPipes' = {}
  BY <1>0, <1>1 DEF FqPipes, LbPipes, DistPipes, Ready
<1>3. lb.current = -1 /\ fq.current = -1
  BY <1>0, <1>2, GetPipeHeld DEF PrioListIsActive
<1>4. dist = {} /\ count = 0
  BY <1>0, <1>2, FS_EmptySet DEF DistSound
<1>5. excl = NoPipe
  <2>1. CASE proto = "PAIR"
    <3>1. /\ excl.pipe = None /\ excl.inpipe = None /\ excl.outpipe = None
          /\ excl = [pipe |-> excl.pipe, inpipe |-> excl.inpipe, outpipe |-> excl.outpipe]
      BY <1>0, <1>1, <2>1 DEF ExclSound
    <3>2. QED
      BY <3>1 DEF NoPipe
  <2>2. QED
    BY <1>0, <2>1 DEF ExclSound
<1>6. proto' \in Protos /\ failed' = failed
  BY <1>3, <1>4, <1>5 DEF Reopen
<1>7. PipesTypeOK'
  BY <1>0, <1>6 DEF PipesTypeOK
<1>8. \A p \in Pipes : PipeSound(p)'
  BY <1>0 DEF PipeSound
<1>9. ExclSound'
  <2>1. excl'.pipe = None /\ excl'.inpipe = None /\ excl'.outpipe = None /\ excl' = NoPipe
    BY <1>0, <1>5 DEF lists, NoPipe
  <2>2. /\ Ready(instate)' = {} /\ Ready(outstate)' = {}
        /\ {p \in Pipes : up'[p] = "ACTIVE"} = {}
    BY <1>0, <1>1 DEF Ready
  <2>3. QED
    BY <1>0, <2>1, <2>2 DEF ExclSound, lists
<1>10. ListsSound'
  BY <1>0, <1>2, <1>6, <1>9 DEF ListsSound, DistSound, NoAbort, lists
<1>11. QED
  BY <1>7, <1>8, <1>10 DEF PipesInv

(* The user and other sockets with their chunks.                           *)
LEMMA SamePipes ==
  ASSUME PipesInv, UNCHANGED <<proto, up, instate, outstate, data, lists, offered, wire, failed>>
  PROVE  PipesInv'
<1>1. /\ UNCHANGED <<proto, up, instate, outstate, data, offered, wire, failed>>
      /\ UNCHANGED <<fq, lb, dist, count, excl>>
  BY DEF lists
<1>2. Ready(instate)' = Ready(instate) /\ Ready(outstate)' = Ready(outstate)
  BY <1>1 DEF Ready
<1>3. FqPipes' = FqPipes /\ LbPipes' = LbPipes /\ DistPipes' = DistPipes
  BY <1>1, <1>2 DEF FqPipes, LbPipes, DistPipes
<1>4. PipesTypeOK' /\ \A p \in Pipes : PipeSound(p)'
  BY <1>1 DEF PipesInv, PipesTypeOK, PipeSound
<1>5. ListsSound'
  BY <1>1, <1>2, <1>3 DEF PipesInv, ListsSound, DistSound, ExclSound, NoAbort
<1>6. QED
  BY <1>4, <1>5 DEF PipesInv

-----------------------------------------------------------------------------
(* Chunks that change hands.                                               *)

LEMMA DropMessage ==
  ASSUME NEW U \in SUBSET [chunk : Chunks, header : Headers], OneMessage(U), NEW m \in U
  PROVE  OneMessage(U \ {m}) /\ ChunksOf(U \ {m}) = ChunksOf(U) \ {m.chunk}
BY DEF OneMessage, ChunksOf

LEMMA AddMessage ==
  ASSUME NEW U \in SUBSET [chunk : Chunks, header : Headers], OneMessage(U),
         NEW c \in Chunks, NEW h \in Headers, c \notin ChunksOf(U)
  PROVE  /\ OneMessage(U \cup {Message(c, h)})
         /\ ChunksOf(U \cup {Message(c, h)}) = ChunksOf(U) \cup {c}
         /\ U \cup {Message(c, h)} \in SUBSET [chunk : Chunks, header : Headers]
<1>1. Message(c, h).chunk = c /\ Message(c, h) \in [chunk : Chunks, header : Headers]
  BY DEF Message
<1>2. QED
  BY <1>1 DEF OneMessage, ChunksOf

(* An offer taken, made or replaced: n comes after the last one.           *)
LEMMA NextOffer ==
  ASSUME PipesTypeOK, OneOffer(offered), NEW p \in Pipes, NEW n \in Chunks \cup {None},
         n \notin OfferedOf(offered), offered' = [offered EXCEPT ![p] = n]
  PROVE  /\ OneOffer(offered')
         /\ OfferedOf(offered') = (OfferedOf(offered) \ {offered[p]}) \cup ({n} \ {None})
<1>1. \A q \in Pipes : offered'[q] = IF q = p THEN n ELSE offered[q]
  BY DEF PipesTypeOK
<1>2. \A q \in Pipes : offered[q] # None => offered[q] # n
  BY DEF OfferedOf
<1>3. OneOffer(offered')
  BY <1>1, <1>2 DEF OneOffer
<1>4. OfferedOf(offered') = (OfferedOf(offered) \ {offered[p]}) \cup ({n} \ {None})
  BY <1>1 DEF OneOffer, OfferedOf
<1>5. QED
  BY <1>3, <1>4

LEMMA OnSize ==
  ASSUME NEW f, NEW c
  PROVE  /\ On(f, c) \subseteq Pipes /\ IsFiniteSet(On(f, c)) /\ Cardinality(On(f, c)) \in Nat
         /\ Cardinality(On(f, c)) = 0 <=> On(f, c) = {}
<1>1. On(f, c) \subseteq Pipes
  BY DEF On
<1>2. IsFiniteSet(On(f, c))
  BY <1>1, FS_Subset, FiniteAssumption
<1>3. QED
  BY <1>1, <1>2, FS_CardinalityType, FS_EmptySet

(* The pipes of kept send chunk c too.                                     *)
LEMMA MoreWires ==
  ASSUME NEW f \in [Pipes -> Chunks \cup {None}], NEW c \in Chunks, NEW kept \in SUBSET Pipes,
         \A p \in kept : f[p] = None
  PROVE  \A d \in Chunks :
             Cardinality(On([p \in Pipes |-> IF p \in kept THEN c ELSE f[p]], d))
                 = Cardinality(On(f, d)) + (IF d = c THEN Cardinality(kept) ELSE 0)
<1>. DEFINE g == [p \in Pipes |-> IF p \in kept THEN c ELSE f[p]]
<1>0. c # None /\ IsFiniteSet(kept)
  BY ChunksAssumption, FS_Subset, FiniteAssumption
<1>1. \A p \in Pipes : g[p] = IF p \in kept THEN c ELSE f[p]
  OBVIOUS
<1>. HIDE DEF g
<1>2. On(g, c) = On(f, c) \cup kept /\ On(f, c) \cap kept = {}
  BY <1>0, <1>1 DEF On
<1>3. \A d \in Chunks \ {c} : On(g, d) = On(f, d)
  BY <1>0, <1>1, ChunksAssumption DEF On
<1>4. /\ IsFiniteSet(On(f, c))
      /\ Cardinality(On(g, c)) = Cardinality(On(f, c)) + Cardinality(kept) - Cardinality({})
  BY <1>0, <1>2, OnSize, FS_Union
<1>5. /\ Cardinality({}) = 0 /\ Cardinality(kept) \in Nat
      /\ \A d \in Chunks : Cardinality(On(f, d)) \in Nat
  BY <1>0, FS_EmptySet, FS_CardinalityType, OnSize
<1>6. \A d \in Chunks : Cardinality(On(g, d))
          = Cardinality(On(f, d)) + (IF d = c THEN Cardinality(kept) ELSE 0)
  BY <1>3, <1>4, <1>5
<1>7. QED
  BY <1>6 DEF g

(* Pipe p sends nothing now.                                               *)
LEMMA OneWireLess ==
  ASSUME NEW f \in [Pipes -> Chunks \cup {None}], NEW p \in Pipes
  PROVE  \A d \in Chunks :
             /\ Cardinality(On([f EXCEPT ![p] = None], d))
                    = Cardinality(On(f, d)) - (IF f[p] = d THEN 1 ELSE 0)
             /\ On(f, d) = {} => On([f EXCEPT ![p] = None], d) = {}
<1>. DEFINE g == [f EXCEPT ![p] = None]
<1>1. \A q \in Pipes : g[q] = IF q = p THEN None ELSE f[q]
  OBVIOUS
<1>. HIDE DEF g
<1>2. ASSUME NEW d \in Chunks
      PROVE  /\ Cardinality(On(g, d)) = Cardinality(On(f, d)) - (IF f[p] = d THEN 1 ELSE 0)
             /\ On(f, d) = {} => On(g, d) = {}
  <2>0. d # None /\ IsFiniteSet(On(f, d)) /\ Cardinality(On(f, d)) \in Nat
    BY ChunksAssumption, OnSize
  <2>1. On(f, d) = {} => On(g, d) = {}
    BY <1>1, <2>0 DEF On
  <2>2. CASE f[p] = d
    <3>1. On(g, d) = On(f, d) \ {p} /\ p \in On(f, d)
      BY <1>1, <2>0, <2>2 DEF On
    <3>2. Cardinality(On(f, d) \ {p}) = Cardinality(On(f, d)) - 1
      BY <2>0, <3>1, FS_RemoveElement
    <3>3. QED
      BY <2>1, <2>2, <3>1, <3>2
  <2>3. CASE f[p] # d
    <3>1. On(g, d) = On(f, d)
      BY <1>1, <2>0, <2>3 DEF On
    <3>2. QED
      BY <2>0, <2>1, <2>3, <3>1
  <2>4. QED
    BY <2>2, <2>3
<1>3. QED
  BY <1>2 DEF g

(* A chunk is freed when nobody has it.                                    *)
LEMMA FreeIsFree ==
  ASSUME ChunksInv, NEW c \in Free
  PROVE  /\ c \in Chunks /\ refs[c] = 0 /\ c # None /\ c \notin leaked
         /\ c \notin ChunksOf(Owned) /\ c \notin OfferedOf(offered) /\ c \notin elsewhere
         /\ On(wire, c) = {}
<1>1. c \in Chunks /\ refs[c] = 0 /\ c # None /\ c \notin leaked
  BY ChunksAssumption DEF Free
<1>2. /\ 0 = In(c, ChunksOf(Owned)) + Cardinality(On(wire, c))
                 + In(c, OfferedOf(offered)) + In(c, elsewhere)
      /\ Cardinality(On(wire, c)) \in Nat
      /\ Cardinality(On(wire, c)) = 0 <=> On(wire, c) = {}
  BY <1>1, OnSize DEF ChunksInv, Counted, Held
<1>3. QED
  BY <1>1, <1>2 DEF In

(* A message of the user is of a chunk that only other sockets may have.   *)
LEMMA MessageIsOnes ==
  ASSUME ChunksInv, NEW m \in Owned
  PROVE  /\ m.chunk \in Chunks /\ m.chunk # None /\ m.header \in Headers
         /\ m.chunk \in ChunksOf(Owned) /\ m.chunk \notin OfferedOf(offered)
         /\ On(wire, m.chunk) = {} /\ refs[m.chunk] = 1 + In(m.chunk, elsewhere)
<1>1. m.chunk \in Chunks /\ m.header \in Headers /\ m.chunk # None /\ m.chunk \in ChunksOf(Owned)
  BY ChunksAssumption DEF ChunksInv, ChunksTypeOK, ChunksOf
<1>2. m.chunk \notin OfferedOf(offered) /\ On(wire, m.chunk) = {}
  BY <1>1 DEF ChunksInv, Apart
<1>3. Cardinality(On(wire, m.chunk)) = 0
  BY <1>2, OnSize
<1>4. QED
  BY <1>1, <1>2, <1>3 DEF ChunksInv, Counted, Held, In
-----------------------------------------------------------------------------
(* What the user and the other sockets do with their chunks.               *)

LEMMA ChunkFacts ==
  ASSUME ChunksInv
  PROVE  /\ refs \in [Chunks -> Int] /\ elsewhere \subseteq Chunks
         /\ Owned \in SUBSET [chunk : Chunks, header : Headers] /\ leaked \subseteq Chunks
         /\ OneMessage(Owned) /\ OneOffer(offered)
         /\ user \cap resizing = {} /\ user \subseteq Owned /\ resizing \subseteq Owned
         /\ \A c \in Chunks : /\ refs[c] = Held(c) /\ Cardinality(On(wire, c)) \in Nat
                              /\ c \in ChunksOf(Owned) => c \notin OfferedOf(offered) /\ On(wire, c) = {}
                              /\ c \in OfferedOf(offered) => On(wire, c) = {}
BY OnSize DEF ChunksInv, ChunksTypeOK, Counted, Apart, Owned

(* A leaked chunk is with nobody.                                          *)
LEMMA LeakedIsGone ==
  ASSUME ChunksInv, NEW c \in leaked
  PROVE  /\ c \in Chunks /\ refs[c] = 0 /\ c # None
         /\ c \notin ChunksOf(Owned) /\ c \notin OfferedOf(offered) /\ c \notin elsewhere
         /\ On(wire, c) = {}
<1>1. c \in Chunks /\ refs[c] = 0 /\ c # None
  BY ChunksAssumption, ChunkFacts DEF ChunksInv, Gone
<1>2. /\ 0 = In(c, ChunksOf(Owned)) + Cardinality(On(wire, c))
                 + In(c, OfferedOf(offered)) + In(c, elsewhere)
      /\ Cardinality(On(wire, c)) \in Nat
      /\ Cardinality(On(wire, c)) = 0 <=> On(wire, c) = {}
  BY <1>1, OnSize DEF ChunksInv, Counted, Held
<1>3. QED
  BY <1>1, <1>2 DEF In

(* The messages of the user change, nothing else does.                     *)
LEMMA UserOnly ==
  ASSUME ChunksInv, UNCHANGED <<offered, wire, elsewhere>>,
         refs' \in [Chunks -> Int], Owned' \in SUBSET [chunk : Chunks, header : Headers],
         OneMessage(Owned'), user' \cap resizing' = {},
         \A c \in leaked' : c \in leaked \/ (c \in Chunks /\ refs'[c] = 0),
         \A c \in Chunks : c \in ChunksOf(Owned') /\ c \notin ChunksOf(Owned) => c \in Free,
         \A c \in Chunks : refs'[c] = refs[c] + In(c, ChunksOf(Owned')) - In(c, ChunksOf(Owned))
  PROVE  ChunksInv'
<1>1. ChunksTypeOK' /\ OneMessage(Owned)' /\ OneOffer(offered)'
  BY ChunkFacts DEF ChunksTypeOK
<1>2. Apart'
  <2>1. ASSUME NEW c \in Chunks
        PROVE  /\ c \in ChunksOf(Owned') => c \notin OfferedOf(offered) /\ On(wire, c) = {}
               /\ c \in OfferedOf(offered) => On(wire, c) = {}
    BY ChunkFacts, FreeIsFree
  <2>2. QED
    BY <2>1 DEF Apart
<1>3. Counted'
  <2>1. ASSUME NEW c \in Chunks
        PROVE  refs'[c] = In(c, ChunksOf(Owned')) + Cardinality(On(wire, c))
                              + In(c, OfferedOf(offered)) + In(c, elsewhere)
    <3>1. refs[c] = Held(c) /\ Cardinality(On(wire, c)) \in Nat
      BY ChunkFacts
    <3>2. QED
      BY <3>1 DEF Held, In
  <2>2. QED
    BY <2>1 DEF Counted, Held
<1>4. Gone'
  <2>1. ASSUME NEW c \in leaked' PROVE refs'[c] = 0
    <3>1. CASE c \in leaked
      <4>1. c \in Chunks /\ refs[c] = 0 /\ c \notin ChunksOf(Owned)
        BY <3>1, LeakedIsGone
      <4>2. c \notin Free
        BY <3>1 DEF Free
      <4>3. QED
        BY <4>1, <4>2 DEF In
    <3>2. QED
      BY <3>1
  <2>2. QED
    BY <2>1 DEF Gone
<1>5. QED
  BY <1>1, <1>2, <1>3, <1>4 DEF ChunksInv

LEMMA AllocChunks ==
  ASSUME ChunksInv, AllocMsg
  PROVE  ChunksInv'
<1>1. PICK c \in Free : refs' = [refs EXCEPT ![c] = 1] /\ user' = user \cup {Message(c, None)}
  BY DEF AllocMsg
<1>2. /\ c \in Chunks /\ refs[c] = 0 /\ c \notin ChunksOf(Owned) /\ None \in Headers
      /\ UNCHANGED <<offered, wire, elsewhere, leaked, resizing>> /\ refs \in [Chunks -> Int]
  BY FreeIsFree, ChunkFacts DEF AllocMsg, Headers
<1>7. Owned' = Owned \cup {Message(c, None)} /\ user' \cap resizing' = {}
  <2>1. Message(c, None) \notin resizing
    BY <1>2, ChunkFacts DEF ChunksOf, Message
  <2>2. QED
    BY <1>1, <1>2, <2>1, ChunkFacts DEF Owned
<1>3. /\ OneMessage(Owned') /\ ChunksOf(Owned') = ChunksOf(Owned) \cup {c}
      /\ Owned' \in SUBSET [chunk : Chunks, header : Headers]
  BY <1>7, <1>2, AddMessage, ChunkFacts
<1>4. ASSUME NEW d \in Chunks
      PROVE  refs'[d] = refs[d] + In(d, ChunksOf(Owned')) - In(d, ChunksOf(Owned))
  <2>1. refs[d] \in Int /\ refs'[d] = IF d = c THEN 1 ELSE refs[d]
    BY <1>1, <1>2
  <2>2. QED
    BY <1>2, <2>1, <1>3 DEF In
<1>5. refs' \in [Chunks -> Int]
  BY <1>1, <1>2
<1>6. QED
  BY <1>1, <1>2, <1>3, <1>4, <1>5, <1>7, UserOnly

LEMMA FreeChunks ==
  ASSUME ChunksInv, NEW m \in user, FreeMsg(m)
  PROVE  ChunksInv'
<1>1. /\ refs' = [refs EXCEPT ![m.chunk] = @ - 1] /\ user' = user \ {m}
      /\ UNCHANGED <<offered, wire, elsewhere, leaked, resizing>> /\ refs \in [Chunks -> Int]
      /\ m.chunk \in Chunks /\ m.chunk \in ChunksOf(Owned) /\ m \in Owned
  BY MessageIsOnes, ChunkFacts DEF FreeMsg
<1>6. Owned' = Owned \ {m} /\ user' \cap resizing' = {}
  BY <1>1, ChunkFacts DEF Owned
<1>2. /\ OneMessage(Owned') /\ ChunksOf(Owned') = ChunksOf(Owned) \ {m.chunk}
      /\ Owned' \in SUBSET [chunk : Chunks, header : Headers]
  BY <1>1, <1>6, DropMessage, ChunkFacts
<1>3. ASSUME NEW d \in Chunks
      PROVE  refs'[d] = refs[d] + In(d, ChunksOf(Owned')) - In(d, ChunksOf(Owned))
  <2>1. refs[d] \in Int /\ refs'[d] = IF d = m.chunk THEN refs[d] - 1 ELSE refs[d]
    BY <1>1
  <2>2. QED
    BY <1>2, <2>1, <1>1 DEF In
<1>4. refs' \in [Chunks -> Int]
  BY <1>1
<1>5. QED
  BY <1>1, <1>2, <1>3, <1>4, <1>6, UserOnly

LEMMA SwapMessage ==
  ASSUME ChunksInv, NEW m \in Owned, NEW c \in Chunks, NEW h \in Headers,
         c \notin ChunksOf(Owned) \/ c = m.chunk
  PROVE  /\ OneMessage((Owned \ {m}) \cup {Message(c, h)})
         /\ ChunksOf((Owned \ {m}) \cup {Message(c, h)}) = (ChunksOf(Owned) \ {m.chunk}) \cup {c}
         /\ (Owned \ {m}) \cup {Message(c, h)} \in SUBSET [chunk : Chunks, header : Headers]
         /\ Message(c, h) \notin Owned \ {m}
<1>1. PICK U : U = Owned \ {m}
  OBVIOUS
<1>2. /\ OneMessage(U) /\ ChunksOf(U) = ChunksOf(Owned) \ {m.chunk}
      /\ U \in SUBSET [chunk : Chunks, header : Headers]
  BY <1>1, DropMessage, ChunkFacts
<1>3. c \notin ChunksOf(U)
  BY <1>2
<1>4. /\ OneMessage(U \cup {Message(c, h)})
      /\ ChunksOf(U \cup {Message(c, h)}) = ChunksOf(U) \cup {c}
      /\ U \cup {Message(c, h)} \in SUBSET [chunk : Chunks, header : Headers]
  BY <1>2, <1>3, AddMessage
<1>5. Message(c, h) \notin U
  BY <1>3 DEF ChunksOf, Message
<1>6. QED
  BY <1>1, <1>2, <1>4, <1>5

LEMMA ReallocChunks ==
  ASSUME ChunksInv, NEW m \in user, ReallocMsg(m)
  PROVE  ChunksInv'
<1>1. PICK c \in Free : /\ refs' = [refs EXCEPT ![c] = 1, ![m.chunk] = 0]
                        /\ user' = (user \ {m}) \cup {Message(c, m.header)}
  BY DEF ReallocMsg
<1>2. /\ UNCHANGED <<offered, wire, elsewhere, leaked, resizing>> /\ refs \in [Chunks -> Int]
      /\ m.chunk \in Chunks /\ m.chunk \in ChunksOf(Owned) /\ m.header \in Headers
      /\ c \in Chunks /\ refs[c] = 0 /\ c \notin ChunksOf(Owned) /\ c # m.chunk
      /\ m \in Owned /\ refs[m.chunk] = 1
  BY MessageIsOnes, ChunkFacts, FreeIsFree DEF ReallocMsg
<1>3. /\ Owned' = (Owned \ {m}) \cup {Message(c, m.header)}
      /\ user' \cap resizing' = {}
  <2>1. PICK n : n = Message(c, m.header)
    OBVIOUS
  <2>2. n \notin Owned \ {m}
    BY <1>2, <2>1, SwapMessage
  <2>3. user' = (user \ {m}) \cup {n} /\ resizing' = resizing /\ m \notin resizing
    BY <1>1, <1>2, <2>1, ChunkFacts
  <2>4. user \cap resizing = {}
    BY ChunkFacts
  <2>5. Owned' = (Owned \ {m}) \cup {n} /\ user' \cap resizing' = {}
    BY <2>2, <2>3, <2>4 DEF Owned
  <2>6. QED
    BY <2>1, <2>5
<1>5. /\ OneMessage(Owned') /\ ChunksOf(Owned') = (ChunksOf(Owned) \ {m.chunk}) \cup {c}
      /\ Owned' \in SUBSET [chunk : Chunks, header : Headers]
  BY <1>2, <1>3, SwapMessage
<1>6. ASSUME NEW d \in Chunks
      PROVE  refs'[d] = refs[d] + In(d, ChunksOf(Owned')) - In(d, ChunksOf(Owned))
  <2>1. refs[d] \in Int /\ refs'[d] = IF d = c THEN 1 ELSE IF d = m.chunk THEN 0 ELSE refs[d]
    BY <1>1, <1>2
  <2>2. QED
    BY <1>2, <2>1, <1>5 DEF In
<1>7. refs' \in [Chunks -> Int]
  BY <1>1, <1>2
<1>8. QED
  BY <1>2, <1>3, <1>5, <1>6, <1>7, UserOnly

LEMMA SharedChunks ==
  ASSUME ChunksInv, NEW m \in user, ReallocShared(m)
  PROVE  ChunksInv'
<1>1. /\ user' = user \ {m} /\ resizing' = resizing \cup {m}
      /\ UNCHANGED <<offered, wire, elsewhere, leaked, refs>>
  BY DEF ReallocShared
<1>2. Owned' = Owned /\ user' \cap resizing' = {}
  BY <1>1, ChunkFacts DEF Owned
<1>3. QED
  BY <1>1, <1>2
     DEF ChunksInv, ChunksTypeOK, Counted, Held, OneMessage, OneOffer, Apart, Gone

LEMMA CopyChunks ==
  ASSUME ChunksInv, NEW m \in resizing, ReallocCopy(m)
  PROVE  ChunksInv'
<1>1. PICK c \in Free : /\ refs' = [refs EXCEPT ![c] = 1, ![m.chunk] = @ - 1]
                        /\ user' = user \cup {Message(c, m.header)}
  BY DEF ReallocCopy
<1>2. /\ UNCHANGED <<offered, wire, elsewhere>> /\ refs \in [Chunks -> Int]
      /\ resizing' = resizing \ {m} /\ m \in Owned
      /\ leaked' = IF refs[m.chunk] = 1 THEN leaked \cup {m.chunk} ELSE leaked
      /\ m.chunk \in Chunks /\ m.chunk \in ChunksOf(Owned) /\ m.header \in Headers
      /\ c \in Chunks /\ refs[c] = 0 /\ c \notin ChunksOf(Owned) /\ c # m.chunk
  BY MessageIsOnes, ChunkFacts, FreeIsFree DEF ReallocCopy
<1>3. /\ Owned' = (Owned \ {m}) \cup {Message(c, m.header)}
      /\ user' \cap resizing' = {}
  <2>1. PICK n : n = Message(c, m.header)
    OBVIOUS
  <2>2. n \notin Owned \ {m}
    BY <1>2, <2>1, SwapMessage
  <2>3. user' = user \cup {n} /\ resizing' = resizing \ {m} /\ m \notin user
    BY <1>1, <1>2, <2>1, ChunkFacts
  <2>4. user \cap resizing = {}
    BY ChunkFacts
  <2>5. Owned' = (Owned \ {m}) \cup {n} /\ user' \cap resizing' = {}
    BY <2>2, <2>3, <2>4 DEF Owned
  <2>6. QED
    BY <2>1, <2>5
<1>5. /\ OneMessage(Owned') /\ ChunksOf(Owned') = (ChunksOf(Owned) \ {m.chunk}) \cup {c}
      /\ Owned' \in SUBSET [chunk : Chunks, header : Headers]
  BY <1>2, <1>3, SwapMessage
<1>6. \A d \in Chunks : /\ refs[d] \in Int
                        /\ refs'[d] = IF d = c THEN 1
                                      ELSE IF d = m.chunk THEN refs[d] - 1 ELSE refs[d]
  BY <1>1, <1>2
<1>7. ASSUME NEW d \in Chunks
      PROVE  refs'[d] = refs[d] + In(d, ChunksOf(Owned')) - In(d, ChunksOf(Owned))
  BY <1>2, <1>6, <1>5 DEF In
<1>8. refs' \in [Chunks -> Int]
  BY <1>1, <1>2
<1>9. \A d \in leaked' : d \in leaked \/ (d \in Chunks /\ refs'[d] = 0)
  BY <1>2, <1>6
<1>10. QED
  BY <1>2, <1>3, <1>5, <1>7, <1>8, <1>9, UserOnly

LEMMA HeaderChunks ==
  ASSUME ChunksInv, NEW m \in user, SetHeader(m)
  PROVE  ChunksInv'
<1>1. PICK h \in Headers : user' = (user \ {m}) \cup {Message(m.chunk, h)}
  BY DEF SetHeader
<1>2. /\ UNCHANGED <<offered, wire, elsewhere, leaked, resizing>>
      /\ refs \in [Chunks -> Int] /\ refs' = refs
      /\ m.chunk \in Chunks /\ m.chunk \in ChunksOf(Owned) /\ m \in Owned
  BY MessageIsOnes, ChunkFacts DEF SetHeader
<1>3. /\ Owned' = (Owned \ {m}) \cup {Message(m.chunk, h)}
      /\ user' \cap resizing' = {}
  <2>1. PICK n : n = Message(m.chunk, h)
    OBVIOUS
  <2>2. n \notin Owned \ {m}
    BY <1>2, <2>1, SwapMessage
  <2>3. user' = (user \ {m}) \cup {n} /\ resizing' = resizing /\ m \notin resizing
    BY <1>1, <1>2, <2>1, ChunkFacts
  <2>4. user \cap resizing = {}
    BY ChunkFacts
  <2>5. Owned' = (Owned \ {m}) \cup {n} /\ user' \cap resizing' = {}
    BY <2>2, <2>3, <2>4 DEF Owned
  <2>6. QED
    BY <2>1, <2>5
<1>4. /\ OneMessage(Owned') /\ ChunksOf(Owned') = (ChunksOf(Owned) \ {m.chunk}) \cup {m.chunk}
      /\ Owned' \in SUBSET [chunk : Chunks, header : Headers]
  BY <1>2, <1>3, SwapMessage
<1>5. /\ OneMessage(Owned') /\ ChunksOf(Owned') = ChunksOf(Owned)
      /\ Owned' \in SUBSET [chunk : Chunks, header : Headers]
  BY <1>2, <1>4
<1>6. \A d \in Chunks : refs'[d] = refs[d] + In(d, ChunksOf(Owned')) - In(d, ChunksOf(Owned))
  BY <1>2, <1>5 DEF In
<1>7. QED
  BY <1>2, <1>3, <1>5, <1>6, UserOnly

LEMMA OtherChunks ==
  ASSUME ChunksInv, OtherFrees
  PROVE  ChunksInv'
<1>1. PICK c \in elsewhere : refs' = [refs EXCEPT ![c] = @ - 1] /\ elsewhere' = elsewhere \ {c}
  BY DEF OtherFrees
<1>2. UNCHANGED <<offered, wire, user, resizing, leaked, Owned>> /\ c \in Chunks
  BY ChunkFacts DEF OtherFrees, Owned
<1>3. /\ ChunksTypeOK' /\ OneMessage(Owned)' /\ OneOffer(offered)' /\ Apart'
      /\ user' \cap resizing' = {}
  BY <1>1, <1>2 DEF ChunksInv, ChunksTypeOK, Apart
<1>4. ASSUME NEW d \in Chunks
      PROVE  refs'[d] = In(d, ChunksOf(Owned)) + Cardinality(On(wire, d))
                            + In(d, OfferedOf(offered)) + In(d, elsewhere')
  <2>1. /\ refs[d] = Held(d) /\ Cardinality(On(wire, d)) \in Nat
        /\ refs'[d] = (IF d = c THEN refs[d] - 1 ELSE refs[d])
    BY <1>1, <1>2, ChunkFacts
  <2>2. QED
    BY <1>1, <2>1 DEF Held, In
<1>5. Counted'
  BY <1>2, <1>4 DEF Counted, Held
<1>6. Gone'
  <2>1. ASSUME NEW d \in leaked PROVE refs'[d] = 0
    BY <1>1, LeakedIsGone, ChunkFacts
  <2>2. QED
    BY <1>2, <2>1 DEF Gone
<1>7. QED
  BY <1>3, <1>5, <1>6 DEF ChunksInv
-----------------------------------------------------------------------------
(* The chunks on the pipes.                                                *)

LEMMA ReceivedChunks ==
  ASSUME PipesInv, ChunksInv, NEW p \in Pipes, Received(p)
  PROVE  ChunksInv'
<1>1. PICK c \in Free, others \in {0, 1} :
          /\ refs' = [refs EXCEPT ![c] = 1 + others]
          /\ elsewhere' = IF others = 1 THEN elsewhere \cup {c} ELSE elsewhere
          /\ offered' = [offered EXCEPT ![p] = c]
  BY DEF Received
<1>2. /\ UNCHANGED <<wire, user, resizing, leaked, Owned>> /\ offered[p] = None
      /\ offered \in [Pipes -> Chunks \cup {None}]
  BY DEF Received, PipesInv, PipesTypeOK, PipeSound, Owned
<1>3. /\ c \in Chunks /\ refs[c] = 0 /\ c # None /\ c \notin ChunksOf(Owned)
      /\ c \notin OfferedOf(offered) /\ c \notin elsewhere /\ On(wire, c) = {}
  BY FreeIsFree
<1>4. OneOffer(offered') /\ OfferedOf(offered') = (OfferedOf(offered) \ {None}) \cup ({c} \ {None})
  BY <1>1, <1>2, <1>3, ChunkFacts, NextOffer DEF PipesInv
<1>5. OfferedOf(offered') = OfferedOf(offered) \cup {c}
  BY <1>3, <1>4 DEF OfferedOf
<1>6. ChunksTypeOK'
  BY <1>1, <1>2, <1>3, ChunkFacts DEF ChunksTypeOK
<1>7. Apart'
  BY <1>2, <1>3, <1>5 DEF ChunksInv, Apart
<1>8. ASSUME NEW d \in Chunks
      PROVE  refs'[d] = In(d, ChunksOf(Owned)) + Cardinality(On(wire, d))
                            + In(d, OfferedOf(offered')) + In(d, elsewhere')
  <2>1. /\ refs[d] = Held(d) /\ Cardinality(On(wire, d)) \in Nat
        /\ refs'[d] = (IF d = c THEN 1 + others ELSE refs[d])
    BY <1>1, <1>3, ChunkFacts
  <2>2. Cardinality(On(wire, c)) = 0
    BY <1>3, OnSize
  <2>3. CASE d = c
    <3>1. /\ In(d, ChunksOf(Owned)) = 0 /\ In(d, OfferedOf(offered')) = 1
          /\ In(d, elsewhere') = others
      BY <1>1, <1>3, <1>5, <2>3 DEF In
    <3>2. QED
      BY <2>1, <2>2, <2>3, <3>1
  <2>4. CASE d # c
    <3>1. In(d, OfferedOf(offered')) = In(d, OfferedOf(offered)) /\ In(d, elsewhere') = In(d, elsewhere)
      BY <1>1, <1>5, <2>4 DEF In
    <3>2. QED
      BY <2>1, <2>4, <3>1 DEF Held
  <2>5. QED
    BY <2>3, <2>4
<1>9. Counted'
  BY <1>2, <1>8 DEF Counted, Held
<1>10. Gone'
  <2>1. ASSUME NEW d \in leaked PROVE refs'[d] = 0
    BY <1>1, LeakedIsGone, ChunkFacts DEF Free
  <2>2. QED
    BY <1>2, <2>1 DEF Gone
<1>11. QED
  BY <1>2, <1>4, <1>6, <1>7, <1>9, <1>10, ChunkFacts DEF ChunksInv

LEMMA SentChunks ==
  ASSUME PipesInv, ChunksInv, NEW p \in Pipes, Sent(p)
  PROVE  ChunksInv'
<1>1. /\ refs' = [refs EXCEPT ![wire[p]] = @ - 1] /\ wire' = [wire EXCEPT ![p] = None]
      /\ UNCHANGED <<offered, elsewhere, user, resizing, leaked, Owned>>
      /\ wire \in [Pipes -> Chunks \cup {None}] /\ wire[p] \in Chunks
  BY DEF Sent, PipesInv, PipesTypeOK, PipeSound, Owned
<1>2. \A d \in Chunks :
          /\ Cardinality(On(wire', d)) = Cardinality(On(wire, d)) - (IF wire[p] = d THEN 1 ELSE 0)
          /\ On(wire, d) = {} => On(wire', d) = {}
  BY <1>1, OneWireLess
<1>3. ChunksTypeOK'
  BY <1>1, ChunkFacts DEF ChunksTypeOK
<1>4. Apart'
  BY <1>1, <1>2 DEF ChunksInv, Apart
<1>5. ASSUME NEW d \in Chunks
      PROVE  refs'[d] = In(d, ChunksOf(Owned)) + Cardinality(On(wire', d))
                            + In(d, OfferedOf(offered)) + In(d, elsewhere)
  <2>1. /\ refs[d] = Held(d) /\ Cardinality(On(wire, d)) \in Nat
        /\ refs'[d] = refs[d] - (IF wire[p] = d THEN 1 ELSE 0)
    BY <1>1, ChunkFacts DEF Held, In
  <2>2. QED
    BY <1>2, <2>1 DEF Held, In
<1>6. Counted'
  BY <1>1, <1>5 DEF Counted, Held
<1>7. Gone'
  <2>1. ASSUME NEW d \in leaked PROVE refs'[d] = 0
    <3>1. d # wire[p]
      BY LeakedIsGone DEF On
    <3>2. QED
      BY <1>1, <3>1, LeakedIsGone, ChunkFacts
  <2>2. QED
    BY <1>1, <2>1 DEF Gone
<1>8. QED
  BY <1>1, <1>3, <1>4, <1>6, <1>7, ChunkFacts DEF ChunksInv

LEMMA StopChunks ==
  ASSUME PipesInv, ChunksInv, NEW p \in Pipes, Stop(p)
  PROVE  ChunksInv'
<1>1. /\ refs' = [c \in Chunks |-> refs[c] - (IF offered[p] = c THEN 1 ELSE 0)
                                           - (IF wire[p] = c THEN 1 ELSE 0)]
      /\ offered' = [offered EXCEPT ![p] = None] /\ wire' = [wire EXCEPT ![p] = None]
      /\ UNCHANGED <<elsewhere, user, resizing, leaked, Owned>>
      /\ offered \in [Pipes -> Chunks \cup {None}] /\ wire \in [Pipes -> Chunks \cup {None}]
  BY DEF Stop, PipesInv, PipesTypeOK, Owned
<1>2. \A d \in Chunks :
          /\ Cardinality(On(wire', d)) = Cardinality(On(wire, d)) - (IF wire[p] = d THEN 1 ELSE 0)
          /\ On(wire, d) = {} => On(wire', d) = {}
  BY <1>1, OneWireLess
<1>3. OneOffer(offered') /\ OfferedOf(offered') = OfferedOf(offered) \ {offered[p]}
  <2>1. None \notin OfferedOf(offered)
    BY DEF OfferedOf
  <2>2. /\ OneOffer(offered')
        /\ OfferedOf(offered') = (OfferedOf(offered) \ {offered[p]}) \cup ({None} \ {None})
    BY <1>1, <2>1, ChunkFacts, NextOffer DEF PipesInv
  <2>3. QED
    BY <2>2
<1>4. ChunksTypeOK'
  <2>1. \A c \in Chunks : refs[c] \in Int
    BY ChunkFacts
  <2>2. QED
    BY <1>1, <2>1, ChunkFacts DEF ChunksTypeOK
<1>5. Apart'
  BY <1>1, <1>2, <1>3 DEF ChunksInv, Apart
<1>6. ASSUME NEW d \in Chunks
      PROVE  refs'[d] = In(d, ChunksOf(Owned)) + Cardinality(On(wire', d))
                            + In(d, OfferedOf(offered')) + In(d, elsewhere)
  <2>1. /\ refs[d] = Held(d) /\ Cardinality(On(wire, d)) \in Nat
        /\ refs'[d] = refs[d] - (IF offered[p] = d THEN 1 ELSE 0) - (IF wire[p] = d THEN 1 ELSE 0)
    BY <1>1, ChunkFacts
  <2>2. In(d, OfferedOf(offered')) = In(d, OfferedOf(offered)) - (IF offered[p] = d THEN 1 ELSE 0)
    <3>1. d # None /\ (offered[p] = d => d \in OfferedOf(offered))
      BY ChunksAssumption DEF OfferedOf
    <3>2. QED
      BY <1>3, <3>1 DEF In
  <2>3. QED
    BY <1>2, <2>1, <2>2 DEF Held, In
<1>7. Counted'
  BY <1>1, <1>6 DEF Counted, Held
<1>8. Gone'
  <2>1. ASSUME NEW d \in leaked PROVE refs'[d] = 0
    <3>1. d # wire[p] /\ d # offered[p]
      BY LeakedIsGone DEF On, OfferedOf
    <3>2. QED
      BY <1>1, <3>1, LeakedIsGone, ChunkFacts
  <2>2. QED
    BY <1>1, <2>1 DEF Gone
<1>9. QED
  BY <1>1, <1>3, <1>4, <1>5, <1>7, <1>8, ChunkFacts DEF ChunksInv

LEMMA SendChunks ==
  ASSUME PipesInv, ChunksInv, NEW m \in user, SendMsg(m)
  PROVE  ChunksInv'
<1>. DEFINE c == m.chunk
<1>0. /\ c \in Chunks /\ c \in ChunksOf(Owned) /\ c \notin OfferedOf(offered) /\ On(wire, c) = {}
  BY MessageIsOnes, ChunkFacts
<1>1. /\ user' = user \ {m} /\ UNCHANGED <<offered, elsewhere, resizing, leaked>>
      /\ wire \in [Pipes -> Chunks \cup {None}] /\ m \in Owned
  BY SendIs DEF PipesInv, PipesTypeOK, Owned
<1>2. PICK kept \in SUBSET Ready(outstate) : Busied(c, kept)
  BY SendLists DEF ChunksInv
<1>3. /\ kept \in SUBSET Pipes /\ \A p \in kept : wire[p] = None
      /\ wire' = [p \in Pipes |-> IF p \in kept THEN c ELSE wire[p]]
      /\ refs' = [refs EXCEPT ![c] = @ - 1 + Cardinality(kept)]
  BY <1>2 DEF Busied, Ready, PipesInv, PipeSound
<1>13. Owned' = Owned \ {m} /\ user' \cap resizing' = {}
  BY <1>1, ChunkFacts DEF Owned
<1>4. OneMessage(Owned') /\ ChunksOf(Owned') = ChunksOf(Owned) \ {c}
  BY <1>1, <1>13, DropMessage, ChunkFacts
<1>. HIDE DEF c
<1>5. \A d \in Chunks : /\ Cardinality(On(wire', d)) \in Nat
                        /\ Cardinality(On(wire', d)) = Cardinality(On(wire, d))
                               + (IF d = c THEN Cardinality(kept) ELSE 0)
  BY <1>0, <1>1, <1>3, MoreWires, OnSize
<1>6. \A d \in Chunks \ {c} : On(wire, d) = {} => On(wire', d) = {}
  BY <1>3, ChunksAssumption DEF On
<1>7. Cardinality(kept) \in Nat
  BY <1>3, FS_Subset, FiniteAssumption, FS_CardinalityType
<1>8. ChunksTypeOK'
  <2>1. refs \in [Chunks -> Int] /\ refs[c] - 1 + Cardinality(kept) \in Int
    BY <1>0, <1>7, ChunkFacts
  <2>2. refs' \in [Chunks -> Int]
    BY <1>3, <2>1
  <2>3. QED
    BY <1>1, <1>13, <2>2, ChunkFacts DEF ChunksTypeOK
<1>9. Apart'
  BY <1>0, <1>1, <1>4, <1>6 DEF ChunksInv, Apart
<1>10. ASSUME NEW d \in Chunks
       PROVE  refs'[d] = In(d, ChunksOf(Owned')) + Cardinality(On(wire', d))
                             + In(d, OfferedOf(offered)) + In(d, elsewhere)
  <2>1. /\ refs[d] = Held(d) /\ Cardinality(On(wire, d)) \in Nat
        /\ refs'[d] = IF d = c THEN refs[d] - 1 + Cardinality(kept) ELSE refs[d]
    BY <1>0, <1>3, ChunkFacts
  <2>2. QED
    BY <1>0, <1>4, <1>5, <1>7, <2>1 DEF Held, In
<1>11. Counted'
  BY <1>1, <1>10 DEF Counted, Held
<1>12. Gone'
  <2>1. ASSUME NEW d \in leaked PROVE refs'[d] = 0
    BY <1>0, <1>3, LeakedIsGone, ChunkFacts
  <2>2. QED
    BY <1>1, <2>1 DEF Gone
<1>14. QED
  BY <1>1, <1>4, <1>8, <1>9, <1>11, <1>12, <1>13, ChunkFacts DEF ChunksInv

LEMMA RecvChunks ==
  ASSUME PipesInv, ChunksInv, RecvMsg
  PROVE  ChunksInv'
<1>1. PICK p \in Ready(instate), n \in Free \cup {None} : Taken(p, n)
  BY RecvLists
<1>. DEFINE c == offered[p]
<1>2. /\ p \in Pipes /\ c \in Chunks /\ c # None /\ offered \in [Pipes -> Chunks \cup {None}]
      /\ c \in OfferedOf(offered) /\ UNCHANGED <<wire, elsewhere, resizing, leaked>>
  BY RecvIs DEF Ready, PipesInv, PipesTypeOK, PipeSound, OfferedOf
<1>3. c \notin ChunksOf(Owned) /\ On(wire, c) = {} /\ refs[c] \in Int
  BY <1>2, ChunkFacts
<1>4. /\ n \in Chunks \cup {None} /\ n \notin OfferedOf(offered) /\ n # c
      /\ n # None => refs[n] = 0 /\ n \notin ChunksOf(Owned) /\ n \notin elsewhere /\ On(wire, n) = {}
  BY <1>2, FreeIsFree DEF OfferedOf
<1>5. OneOffer(offered') /\ OfferedOf(offered') = (OfferedOf(offered) \ {c}) \cup ({n} \ {None})
  BY <1>1, <1>2, <1>4, ChunkFacts, NextOffer DEF Taken, PipesInv
<1>. HIDE DEF c
(* The user gets the message, or it is dropped.                            *)
<1>6. \E kept \in BOOLEAN :
          /\ OneMessage(Owned') /\ Owned' \in SUBSET [chunk : Chunks, header : Headers]
          /\ user' \cap resizing' = {}
          /\ ChunksOf(Owned') = IF kept THEN ChunksOf(Owned) \cup {c} ELSE ChunksOf(Owned)
          /\ refs' = Arrived(n, IF kept THEN refs ELSE [refs EXCEPT ![c] = @ - 1])
  <2>1. CASE (\E h \in Headers : user' = user \cup {Message(c, h)}) /\ refs' = Arrived(n, refs)
    <3>1. PICK h \in Headers : user' = user \cup {Message(c, h)}
      BY <2>1
    <3>2. Message(c, h) \notin resizing
      BY <1>3, ChunkFacts DEF ChunksOf, Message
    <3>3. Owned' = Owned \cup {Message(c, h)} /\ user' \cap resizing' = {}
      BY <1>2, <3>1, <3>2, ChunkFacts DEF Owned
    <3>4. /\ OneMessage(Owned') /\ ChunksOf(Owned') = ChunksOf(Owned) \cup {c}
          /\ Owned' \in SUBSET [chunk : Chunks, header : Headers]
      BY <1>2, <1>3, <3>3, AddMessage, ChunkFacts
    <3>5. QED
      BY <2>1, <3>3, <3>4
  <2>2. CASE user' = user /\ refs' = Arrived(n, [refs EXCEPT ![c] = @ - 1])
    <3>1. Owned' = Owned /\ user' \cap resizing' = {}
      BY <1>2, <2>2, ChunkFacts DEF Owned
    <3>2. QED
      BY <2>2, <3>1, ChunkFacts
  <2>3. QED
    BY <1>1, <2>1, <2>2 DEF Taken, c
<1>7. PICK kept \in BOOLEAN :
          /\ OneMessage(Owned') /\ Owned' \in SUBSET [chunk : Chunks, header : Headers]
          /\ user' \cap resizing' = {}
          /\ ChunksOf(Owned') = IF kept THEN ChunksOf(Owned) \cup {c} ELSE ChunksOf(Owned)
          /\ refs' = Arrived(n, IF kept THEN refs ELSE [refs EXCEPT ![c] = @ - 1])
  BY <1>6
<1>8. /\ refs' \in [Chunks -> Int]
      /\ \A d \in Chunks : refs'[d] = IF d = n THEN 1
                                      ELSE IF d = c /\ ~kept THEN refs[d] - 1 ELSE refs[d]
  <2>1. refs \in [Chunks -> Int] /\ \A d \in Chunks : d # None
    BY ChunkFacts, ChunksAssumption
  <2>2. QED
    BY <1>2, <1>4, <1>7, <2>1 DEF Arrived
<1>9. ChunksTypeOK'
  BY <1>2, <1>7, <1>8, ChunkFacts DEF ChunksTypeOK
<1>10. Apart'
  <2>1. ASSUME NEW d \in Chunks
        PROVE  /\ d \in ChunksOf(Owned') => d \notin OfferedOf(offered') /\ On(wire, d) = {}
               /\ d \in OfferedOf(offered') => On(wire, d) = {}
    BY <1>2, <1>3, <1>4, <1>5, <1>7, ChunkFacts
  <2>2. QED
    BY <1>2, <2>1 DEF Apart
<1>11. ASSUME NEW d \in Chunks
       PROVE  refs'[d] = In(d, ChunksOf(Owned')) + Cardinality(On(wire, d))
                             + In(d, OfferedOf(offered')) + In(d, elsewhere)
  <2>1. /\ refs[d] = Held(d) /\ Cardinality(On(wire, d)) \in Nat /\ d # None
        /\ d = n => Cardinality(On(wire, d)) = 0
    BY <1>4, ChunkFacts, OnSize, ChunksAssumption
  <2>2. In(d, OfferedOf(offered')) = IF d = n THEN 1
                                     ELSE IF d = c THEN 0 ELSE In(d, OfferedOf(offered))
    BY <1>4, <1>5, <2>1 DEF In
  <2>3. In(d, ChunksOf(Owned')) = IF d = c /\ kept THEN 1 ELSE In(d, ChunksOf(Owned))
    BY <1>7 DEF In
  <2>4. /\ d = c => In(d, ChunksOf(Owned)) = 0 /\ In(d, OfferedOf(offered)) = 1
        /\ d = n => In(d, ChunksOf(Owned)) = 0 /\ In(d, elsewhere) = 0
    BY <1>2, <1>3, <1>4, <2>1 DEF In
  <2>5. In(d, elsewhere) \in Int /\ In(d, ChunksOf(Owned)) \in Int
        /\ In(d, OfferedOf(offered)) \in Int
    BY DEF In
  <2>6. QED
    BY <1>4, <1>8, <2>1, <2>2, <2>3, <2>4, <2>5 DEF Held
<1>12. Counted'
  BY <1>2, <1>11 DEF Counted, Held
<1>13. Gone'
  <2>1. ASSUME NEW d \in leaked PROVE refs'[d] = 0
    <3>1. d # c /\ d # n
      BY <1>2, LeakedIsGone DEF Free
    <3>2. QED
      BY <1>8, <3>1, LeakedIsGone
  <2>2. QED
    BY <1>2, <2>1 DEF Gone
<1>14. QED
  BY <1>2, <1>5, <1>7, <1>9, <1>10, <1>12, <1>13 DEF ChunksInv
-----------------------------------------------------------------------------
(* Every step of the sockets keeps the invariant.                          *)

LEMMA PatternsInitInv == Init => PatternsInv
<1>. SUFFICES ASSUME Init PROVE PatternsInv
  OBVIOUS
<1>0. /\ \A p \in Pipes : /\ up[p] = "IDLE" /\ instate[p] = "DEACTIVATED"
                          /\ outstate[p] = "DEACTIVATED" /\ offered[p] = None /\ wire[p] = None
      /\ fq = EmptyList /\ lb = EmptyList /\ dist = {} /\ count = 0 /\ excl = NoPipe
      /\ user = {} /\ resizing = {} /\ leaked = {} /\ Owned = {} /\ elsewhere = {}
      /\ failed = "none" /\ Slots \in Nat
      /\ refs \in [Chunks -> Int] /\ \A c \in Chunks : refs[c] = 0 /\ c # None
  BY ChunksAssumption, SlotsAssumption DEF Init, Owned
<1>1. PipesTypeOK
  BY <1>0 DEF Init, PipesTypeOK
<1>2. \A p \in Pipes : PipeSound(p)
  BY <1>0 DEF PipeSound
<1>3. /\ Ready(instate) = {} /\ Ready(outstate) = {} /\ {p \in Pipes : up[p] = "ACTIVE"} = {}
      /\ FqPipes = {} /\ LbPipes = {} /\ DistPipes = {}
  BY <1>0 DEF Ready, FqPipes, LbPipes, DistPipes
<1>4. Holds(fq, FqPipes, data) /\ Holds(lb, LbPipes, data)
  BY <1>0, <1>3, EmptyHolds
<1>5. DistSound /\ ExclSound /\ NoAbort
  BY <1>0, <1>3, FS_EmptySet DEF DistSound, ExclSound, NoPipe, NoAbort
<1>6. ChunksOf(Owned) = {} /\ OfferedOf(offered) = {} /\ \A c \in Chunks : On(wire, c) = {}
  BY <1>0 DEF ChunksOf, OfferedOf, On
<1>7. Counted
  <2>1. ASSUME NEW c \in Chunks PROVE refs[c] = Held(c)
    <3>1. In(c, ChunksOf(Owned)) = 0 /\ In(c, OfferedOf(offered)) = 0 /\ In(c, elsewhere) = 0
      BY <1>0, <1>6 DEF In
    <3>2. On(wire, c) = {} /\ Cardinality(On(wire, c)) = 0 /\ refs[c] = 0
      BY <1>0, <1>6, FS_EmptySet
    <3>3. QED
      BY <3>1, <3>2 DEF Held
  <2>2. QED
    BY <2>1 DEF Counted
<1>8. ChunksInv
  BY <1>0, <1>6, <1>7 DEF ChunksInv, ChunksTypeOK, OneMessage, OneOffer, Apart, Gone
<1>9. QED
  BY <1>1, <1>2, <1>4, <1>5, <1>8 DEF PatternsInv, PipesInv, ListsSound

LEMMA SameChunks ==
  ASSUME ChunksInv, UNCHANGED <<refs, leaked, elsewhere, user, resizing, offered, wire>>
  PROVE  ChunksInv'
BY DEF ChunksInv, ChunksTypeOK, Counted, Held, OneMessage, OneOffer, Apart, Owned, Gone

LEMMA PatternsStep ==
  ASSUME PatternsInv, [Next]_vars
  PROVE  PatternsInv'
<1>0. PipesInv /\ ChunksInv
  BY DEF PatternsInv
<1>1. ASSUME NEW p \in Pipes, Start(p) PROVE PatternsInv'
  <2>1. UNCHANGED <<refs, leaked, elsewhere, user, resizing, offered, wire>>
    BY <1>1 DEF Start
  <2>2. QED
    BY <1>0, <1>1, <2>1, StartPipes, SameChunks DEF PatternsInv
<1>2. ASSUME NEW p \in Pipes, Stop(p) PROVE PatternsInv'
  BY <1>0, <1>2, StopPipes, StopChunks DEF PatternsInv
<1>3. ASSUME NEW p \in Pipes, Received(p) PROVE PatternsInv'
  BY <1>0, <1>3, ReceivedPipes, ReceivedChunks DEF PatternsInv
<1>4. ASSUME NEW p \in Pipes, Sent(p) PROVE PatternsInv'
  BY <1>0, <1>4, SentPipes, SentChunks DEF PatternsInv
<1>5. CASE OtherFrees
  <2>1. UNCHANGED <<proto, up, instate, outstate, data, lists, offered, wire, failed>>
    BY <1>5 DEF OtherFrees
  <2>2. QED
    BY <1>0, <1>5, <2>1, SamePipes, OtherChunks DEF PatternsInv
<1>6. CASE AllocMsg
  <2>1. UNCHANGED <<proto, up, instate, outstate, data, lists, offered, wire, failed>>
    BY <1>6 DEF AllocMsg
  <2>2. QED
    BY <1>0, <1>6, <2>1, SamePipes, AllocChunks DEF PatternsInv
<1>7. ASSUME NEW m \in user, FreeMsg(m) PROVE PatternsInv'
  <2>1. UNCHANGED <<proto, up, instate, outstate, data, lists, offered, wire, failed>>
    BY <1>7 DEF FreeMsg
  <2>2. QED
    BY <1>0, <1>7, <2>1, SamePipes, FreeChunks DEF PatternsInv
<1>8. ASSUME NEW m \in user, ReallocMsg(m) PROVE PatternsInv'
  <2>1. UNCHANGED <<proto, up, instate, outstate, data, lists, offered, wire, failed>>
    BY <1>8 DEF ReallocMsg
  <2>2. QED
    BY <1>0, <1>8, <2>1, SamePipes, ReallocChunks DEF PatternsInv
<1>9. ASSUME NEW m \in user, SetHeader(m) PROVE PatternsInv'
  <2>1. UNCHANGED <<proto, up, instate, outstate, data, lists, offered, wire, failed>>
    BY <1>9 DEF SetHeader
  <2>2. QED
    BY <1>0, <1>9, <2>1, SamePipes, HeaderChunks DEF PatternsInv
<1>10. ASSUME NEW m \in user, SendMsg(m) PROVE PatternsInv'
  <2>1. ChunksTypeOK
    BY <1>0 DEF ChunksInv
  <2>2. QED
    BY <1>0, <1>10, <2>1, SendPipes, SendChunks DEF PatternsInv
<1>11. CASE RecvMsg
  BY <1>0, <1>11, RecvPipes, RecvChunks DEF PatternsInv
<1>12. CASE Reopen
  <2>1. UNCHANGED <<refs, leaked, elsewhere, user, resizing, offered, wire>>
    BY <1>12 DEF Reopen
  <2>2. QED
    BY <1>0, <1>12, <2>1, ReopenPipes, SameChunks DEF PatternsInv
<1>13. CASE UNCHANGED vars
  <2>1. /\ UNCHANGED <<proto, up, instate, outstate, data, lists, offered, wire, failed>>
        /\ UNCHANGED <<refs, leaked, elsewhere, user, resizing, offered, wire>>
    BY <1>13 DEF vars, lists
  <2>2. QED
    BY <1>0, <2>1, SamePipes, SameChunks DEF PatternsInv
<1>14. ASSUME NEW m \in user, ReallocShared(m) PROVE PatternsInv'
  <2>1. UNCHANGED <<proto, up, instate, outstate, data, lists, offered, wire, failed>>
    BY <1>14 DEF ReallocShared
  <2>2. QED
    BY <1>0, <1>14, <2>1, SamePipes, SharedChunks DEF PatternsInv
<1>15. ASSUME NEW m \in resizing, ReallocCopy(m) PROVE PatternsInv'
  <2>1. UNCHANGED <<proto, up, instate, outstate, data, lists, offered, wire, failed>>
    BY <1>15 DEF ReallocCopy
  <2>2. QED
    BY <1>0, <1>15, <2>1, SamePipes, CopyChunks DEF PatternsInv
<1>16. QED
  BY <1>1, <1>2, <1>3, <1>4, <1>5, <1>6, <1>7, <1>8, <1>9, <1>10, <1>11, <1>12, <1>13,
     <1>14, <1>15
     DEF Next, UserStep

(* Whatever the socket type, for any pipes with any priorities and any     *)
(* chunks: what the lists hold, what the pipes are busy with and who has   *)
(* which chunk fit together in every state.                                *)
THEOREM PatternsInvariant == Spec => []PatternsInv
<1>1. PatternsInv /\ [Next]_vars => PatternsInv'
  BY PatternsStep
<1>2. QED
  BY <1>1, PatternsInitInv, PTL DEF Spec

-----------------------------------------------------------------------------
(* What the invariant gives.                                               *)

LEMMA HeldIsUnion ==
  ASSUME NEW l, NEW S, NEW d, Holds(l, S, d)
  PROVE  S = UNION {Range(l.pipes[s]) : s \in Priorities}
<1>1. l.pipes \in [Priorities -> Seq(Pipes)]
  BY ListFields
<1>2. ASSUME NEW s \in Priorities, NEW p PROVE p \in Range(l.pipes[s]) <=> p \in S /\ d[p] = s
  <2>1. DOMAIN l.pipes[s] = 1..Len(l.pipes[s])
    BY <1>1
  <2>2. p \in Range(l.pipes[s]) <=> Contains(l.pipes[s], p)
    BY <2>1 DEF Range, Contains
  <2>3. QED
    BY <2>2, HeldInSlot
<1>3. \A p \in S : d[p] \in Priorities
  BY DEF Holds
<1>4. QED
  BY <1>2, <1>3

LEMMA InvLists == PatternsInv => ListsConsistent
<1>. SUFFICES ASSUME PatternsInv PROVE ListsConsistent
  OBVIOUS
<1>0. /\ PipesTypeOK /\ ChunksTypeOK /\ NoAbort /\ DistSound /\ ExclSound
      /\ Holds(fq, FqPipes, data) /\ Holds(lb, LbPipes, data)
  BY DEF PatternsInv, PipesInv, ChunksInv, ListsSound
<1>1. TypeOK
  <2>1. IsFiniteSet(DistPipes) /\ DistPipes \in SUBSET Pipes
    <3>1. DistPipes \in SUBSET Pipes
      BY DEF DistPipes, Ready
    <3>2. QED
      BY <3>1, FiniteAssumption, FS_Subset
  <2>2. dist \subseteq Pipes /\ count \in Int
    BY <1>0, <2>1, FS_CardinalityType DEF DistSound
  <2>3. QED
    BY <1>0, <2>2 DEF PipesTypeOK, ChunksTypeOK, Owned, ExclSound, NoAbort, TypeOK
<1>2. /\ PrioListIsActive(fq) <=> FqPipes # {}
      /\ PrioListIsActive(lb) <=> LbPipes # {}
      /\ FqPipes = UNION {Range(fq.pipes[s]) : s \in Priorities}
      /\ LbPipes = UNION {Range(lb.pipes[s]) : s \in Priorities}
  BY <1>0, GetPipeHeld, HeldIsUnion
<1>3. /\ proto \in FairQueues => FqPipes = Ready(instate)
      /\ proto \in Balancers => LbPipes = Ready(outstate)
      /\ proto \in Distributors => DistPipes = Ready(outstate)
  BY DEF FqPipes, LbPipes, DistPipes, Ready
<1>4. /\ proto \in FairQueues => ("IN" \in Events <=> PrioListIsActive(fq))
      /\ proto \in Balancers => ("OUT" \in Events <=> PrioListIsActive(lb))
  BY DEF Events, XReqEvents, XSurveyorEvents, XPushEvents, XPullEvents, XBusEvents,
         FairQueues, Balancers, Bus
<1>5. proto = "PAIR" => /\ "IN" \in Events <=> excl.inpipe # None
                        /\ "OUT" \in Events <=> excl.outpipe # None
  BY DEF Events, XPairEvents, Bus
<1>6. proto = "PAIR" => /\ Ready(instate) = {excl.inpipe} \ {None}
                        /\ Ready(outstate) = {excl.outpipe} \ {None}
  BY <1>0 DEF ExclSound
<1>7. proto \in Receivers => ("IN" \in Events <=> Ready(instate) # {})
  BY <1>2, <1>3, <1>4, <1>5, <1>6, Kinds
<1>8. proto \in Balancers \cup {"PAIR"} => ("OUT" \in Events <=> Ready(outstate) # {})
  BY <1>2, <1>3, <1>4, <1>5, <1>6
<1>9. QED
  BY <1>0, <1>1, <1>2, <1>3, <1>6, <1>7, <1>8 DEF ListsConsistent, DistSound

(* For every socket type, any pipes and any priorities: the lists hold     *)
(* exactly the pipes that can be used, the distributor counts them right,  *)
(* a PAIR socket has one pipe, no assertion of excl.c, dist.c, priolist.c  *)
(* or pipe.c fails, and the descriptors tell the user what is there.       *)
THEOREM ListsStayConsistent == Spec => []ListsConsistent
<1>1. QED
  BY InvLists, PatternsInvariant, PTL

LEMMA InvCounted == PatternsInv => ChunksCounted
<1>. SUFFICES ASSUME PatternsInv, NEW c \in Chunks
     PROVE  /\ refs[c] = Cardinality({m \in user : m.chunk = c})
                       + Cardinality({m \in resizing : m.chunk = c})
                       + Cardinality({p \in Pipes : wire[p] = c})
                       + Cardinality({p \in Pipes : offered[p] = c})
                       + Cardinality({c} \cap elsewhere)
            /\ c \in leaked => refs[c] = 0
  BY DEF ChunksCounted
<1>0. /\ refs[c] = Held(c) /\ c # None /\ OneMessage(Owned) /\ OneOffer(offered)
      /\ c \in leaked => refs[c] = 0
      /\ user \cap resizing = {} /\ Owned = user \cup resizing
      /\ Cardinality({}) = 0 /\ \A x : Cardinality({x}) = 1
  BY ChunkFacts, ChunksAssumption, FS_EmptySet, FS_Singleton
     DEF PatternsInv, ChunksInv, Gone, Owned
<1>1. Cardinality({m \in user : m.chunk = c}) + Cardinality({m \in resizing : m.chunk = c})
        = In(c, ChunksOf(Owned))
  <2>1. CASE c \in ChunksOf(Owned)
    <3>1. PICK m \in Owned : m.chunk = c
      BY <2>1 DEF ChunksOf
    <3>2. \A n \in Owned : n.chunk = c <=> n = m
      BY <1>0, <3>1 DEF OneMessage
    <3>3. CASE m \in user
      <4>1. {n \in user : n.chunk = c} = {m} /\ {n \in resizing : n.chunk = c} = {}
        BY <1>0, <3>2, <3>3
      <4>2. /\ Cardinality({n \in user : n.chunk = c}) = 1
            /\ Cardinality({n \in resizing : n.chunk = c}) = 0
        BY <1>0, <4>1
      <4>3. QED
        BY <2>1, <4>2 DEF In
    <3>4. CASE m \in resizing
      <4>1. {n \in user : n.chunk = c} = {} /\ {n \in resizing : n.chunk = c} = {m}
        BY <1>0, <3>2, <3>4
      <4>2. /\ Cardinality({n \in user : n.chunk = c}) = 0
            /\ Cardinality({n \in resizing : n.chunk = c}) = 1
        BY <1>0, <4>1
      <4>3. QED
        BY <2>1, <4>2 DEF In
    <3>5. QED
      BY <1>0, <3>1, <3>3, <3>4
  <2>2. CASE c \notin ChunksOf(Owned)
    <3>1. {m \in user : m.chunk = c} = {} /\ {m \in resizing : m.chunk = c} = {}
      BY <1>0, <2>2 DEF ChunksOf
    <3>2. /\ Cardinality({m \in user : m.chunk = c}) = 0
          /\ Cardinality({m \in resizing : m.chunk = c}) = 0
      BY <1>0, <3>1
    <3>3. QED
      BY <2>2, <3>2 DEF In
  <2>3. QED
    BY <2>1, <2>2
<1>2. Cardinality({p \in Pipes : offered[p] = c}) = In(c, OfferedOf(offered))
  <2>1. CASE c \in OfferedOf(offered)
    <3>1. PICK p \in Pipes : offered[p] = c
      BY <2>1 DEF OfferedOf
    <3>2. {q \in Pipes : offered[q] = c} = {p}
      BY <1>0, <3>1 DEF OneOffer
    <3>3. QED
      BY <1>0, <2>1, <3>2 DEF In
  <2>2. CASE c \notin OfferedOf(offered)
    <3>1. {p \in Pipes : offered[p] = c} = {}
      BY <1>0, <2>2 DEF OfferedOf
    <3>2. QED
      BY <1>0, <2>2, <3>1 DEF In
  <2>3. QED
    BY <2>1, <2>2
<1>3. Cardinality({c} \cap elsewhere) = In(c, elsewhere)
  <2>1. CASE c \in elsewhere
    <3>1. {c} \cap elsewhere = {c}
      BY <2>1
    <3>2. QED
      BY <1>0, <2>1, <3>1 DEF In
  <2>2. CASE c \notin elsewhere
    <3>1. {c} \cap elsewhere = {}
      BY <2>2
    <3>2. QED
      BY <1>0, <2>2, <3>1 DEF In
  <2>3. QED
    BY <2>1, <2>2
<1>4. QED
  BY <1>0, <1>1, <1>2, <1>3 DEF Held, On

(* However the distributor copies, the transports keep and release and the *)
(* user reallocates: the count of a chunk is the number of its holders, so *)
(* no holder finds it freed.  What was leaked has no holder left.          *)
THEOREM ChunksStayCounted == Spec => []ChunksCounted
<1>1. QED
  BY InvCounted, PatternsInvariant, PTL

-----------------------------------------------------------------------------
(* The SURVEYOR socket.                                                    *)

(* grid_surveyor_resend from an idle timer: the survey goes out and its    *)
(* deadline runs.                                                          *)
LEMMA StartSurveyLemma ==
  ASSUME deadline \in Deadlines, asserted = "none",
         out \in [Respondents -> {"absent", "busy", "ready"}],
         asked \in [Respondents -> SUBSET Ids],
         NEW n \in Ids, NEW t, TimerConsistent(t), t.state = "idle",
         StartSurvey(n, t)
  PROVE  /\ state' = "ACTIVE" /\ asserted' = "none" /\ sent' = n
         /\ TimerConsistent(tmr') /\ tmr'.state = "active"
         /\ out' \in [Respondents -> {"absent", "busy", "ready"}]
         /\ asked' \in [Respondents -> SUBSET Ids]
<1>1. deadline >= 0
  BY DeadlinesAssumption
<1>2. StartAllowed(t, deadline)
  BY <1>1, StartIsAllowed
<1>3. /\ tmr' = Started(t) /\ state' = "ACTIVE" /\ asserted' = "none" /\ sent' = n
      /\ DistSurvey(n)
  BY <1>2 DEF StartSurvey
<1>4. /\ out' \in [Respondents -> {"absent", "busy", "ready"}]
      /\ asked' \in [Respondents -> SUBSET Ids]
  BY <1>3 DEF DistSurvey
<1>5. QED
  BY <1>3, <1>4, StartConsistent

-----------------------------------------------------------------------------
(* The initial state.                                                      *)
LEMMA InitInv == SurveyInit => SurveyConsistent
<1> SUFFICES ASSUME SurveyInit PROVE SurveyConsistent
  OBVIOUS
<1>1. TimerConsistent(tmr) /\ tmr.state = "idle" /\ tmr \in Timers
  BY IdleConsistent DEF SurveyInit, TimerConsistent
<1>2. /\ 0 \in 0..MaxId /\ 0 \in 0..Malformed
  BY MaxIdAssumption DEF Malformed
<1>3. SurveyTypeOK
  BY <1>1, <1>2, DeadlinesAssumption DEF SurveyInit, SurveyTypeOK, States, Returned
<1>4. QED
  BY <1>1, <1>3 DEF SurveyInit, SurveyConsistent, SurveyNoAbort

(* grid_surveyor_send: the survey replaces the one in progress, whose      *)
(* timer is stopped first, or is sent at once.                             *)
LEMMA SendStep == ASSUME SurveyConsistent, Send PROVE SurveyConsistent'
<1>1. /\ asserted = "none" /\ sock = "ACTIVE" /\ sock' = sock
      /\ surveyid' = surveyid + 1 /\ surveyid' \in Ids /\ surveyid' \in 0..MaxId
      /\ UNCHANGED <<timedout, deadline, inbox, result>>
  BY MaxIdAssumption DEF Send, NotAborted, SurveyConsistent, SurveyTypeOK, Ids
<1>2. CASE InProgress
  <2>1. /\ state' = "CANCELLING" /\ UNCHANGED <<out, asked, sent, asserted>>
        /\ tmr' = IF state = "ACTIVE" THEN StopRequested(tmr) ELSE tmr
    BY <1>2 DEF Send, SurveyorCancel
  <2>2. TimerConsistent(tmr') /\ tmr'.state = "stopping" /\ tmr' \in Timers
    BY <1>2, <2>1, StopConsistent DEF SurveyConsistent, InProgress, TimerConsistent
  <2>3. SurveyTypeOK'
    BY <1>1, <2>1, <2>2 DEF SurveyConsistent, SurveyTypeOK, States
  <2>4. QED
    BY <1>1, <2>1, <2>2, <2>3 DEF SurveyConsistent, SurveyNoAbort
<1>3. CASE ~InProgress
  <2>1. state = "PASSIVE" /\ tmr.state = "idle"
    BY <1>1, <1>3 DEF SurveyConsistent, SurveyTypeOK, States, InProgress, TimerConsistent, Timers, TimerStates
  <2>2. StartSurvey(surveyid', tmr)
    BY <1>1, <1>3 DEF Send
  <2>3. /\ state' = "ACTIVE" /\ asserted' = "none" /\ sent' = surveyid'
        /\ TimerConsistent(tmr') /\ tmr'.state = "active"
        /\ out' \in [Respondents -> {"absent", "busy", "ready"}]
        /\ asked' \in [Respondents -> SUBSET Ids]
    BY <1>1, <2>1, <2>2, StartSurveyLemma DEF SurveyConsistent, SurveyTypeOK
  <2>4. SurveyTypeOK'
    BY <1>1, <2>3 DEF SurveyConsistent, SurveyTypeOK, States, TimerConsistent
  <2>5. QED
    BY <1>1, <2>3, <2>4 DEF SurveyConsistent, SurveyNoAbort
<1>4. QED
  BY <1>2, <1>3

(* grid_surveyor_recv and _setopt touch neither the survey nor the timer.  *)
LEMMA RecvStep ==
  ASSUME SurveyConsistent, Recv \/ SetDeadline PROVE SurveyConsistent'
<1>1. UNCHANGED <<state, surveyid, tmr, out, sock, asserted, asked, sent>>
  BY DEF Recv, SetDeadline
<1>2. /\ timedout' \in BOOLEAN /\ deadline' \in Deadlines
      /\ inbox' \in [Respondents -> 0..Malformed]
      /\ result' \in [code : {"none", "ok", "EAGAIN", "EFSM", "ETIMEDOUT"}, of : 0..MaxId]
  <2>1. 0 \in 0..MaxId /\ 0 \in 0..Malformed
    BY MaxIdAssumption DEF Malformed
  <2>2. CASE SetDeadline
    BY <2>2 DEF SetDeadline, SurveyConsistent, SurveyTypeOK
  <2>3. CASE Recv /\ RecvResponse
    <3>1. PICK last \in Respondents :
             /\ inbox[last] # 0 /\ ~Stale(last)
             /\ result' = IF inbox[last] = Malformed THEN Returned("EAGAIN", 0)
                          ELSE Returned("ok", inbox[last])
             /\ \E dropped \in SUBSET Respondents :
                   inbox' = [p \in Respondents |-> IF p \in dropped \cup {last} THEN 0 ELSE inbox[p]]
      BY <2>3 DEF RecvResponse
    <3>2. inbox[last] \in 0..Malformed
      BY DEF SurveyConsistent, SurveyTypeOK
    <3>3. inbox[last] # Malformed => inbox[last] \in 0..MaxId
      BY <3>2, MaxIdAssumption DEF Malformed
    <3>4. inbox' \in [Respondents -> 0..Malformed]
      BY <3>1, <2>1 DEF SurveyConsistent, SurveyTypeOK
    <3>5. QED
      BY <2>1, <2>3, <3>1, <3>3, <3>4 DEF Recv, RecvNoSurvey, SurveyConsistent, SurveyTypeOK, Returned
  <2>4. CASE Recv /\ RecvNothing
    BY <2>1, <2>4 DEF Recv, RecvNothing, RecvNoSurvey, SurveyConsistent, SurveyTypeOK, Returned
  <2>5. CASE Recv /\ RecvNoSurvey
    BY <2>1, <2>5 DEF Recv, RecvNoSurvey, SurveyConsistent, SurveyTypeOK, Returned
  <2>6. QED
    BY <2>2, <2>3, <2>4, <2>5 DEF Recv
<1>3. SurveyTypeOK'
  BY <1>1, <1>2 DEF SurveyConsistent, SurveyTypeOK
<1>4. QED
  BY <1>1, <1>3 DEF SurveyConsistent, SurveyNoAbort

(* Respondents come, offer responses and go: only the lists change.        *)
LEMMA PipeStep ==
  ASSUME SurveyConsistent, NEW p \in Respondents, PipeOut(p) \/ PipeIn(p) \/ PipeRm(p)
  PROVE  SurveyConsistent'
<1>1. UNCHANGED <<state, surveyid, tmr, timedout, deadline, sock, asserted, sent, result>>
  BY DEF PipeOut, PipeIn, PipeRm
<1>2. 0 \in 0..Malformed /\ Malformed \in 0..Malformed /\ Ids \subseteq 0..Malformed
  BY MaxIdAssumption DEF Malformed, Ids
<1>3. out' \in [Respondents -> {"absent", "busy", "ready"}]
  BY DEF PipeOut, PipeIn, PipeRm, SurveyConsistent, SurveyTypeOK
<1>4. asked' \in [Respondents -> SUBSET Ids]
  BY DEF PipeOut, PipeIn, PipeRm, SurveyConsistent, SurveyTypeOK
<1>5. inbox' \in [Respondents -> 0..Malformed]
  <2>1. CASE PipeIn(p)
    <3>1. PICK n \in asked[p] \cup {Malformed} : inbox' = [inbox EXCEPT ![p] = n]
      BY <2>1 DEF PipeIn
    <3>2. n \in 0..Malformed
      BY <1>2 DEF SurveyConsistent, SurveyTypeOK
    <3>3. QED
      BY <3>1, <3>2 DEF SurveyConsistent, SurveyTypeOK
  <2>2. CASE PipeOut(p) \/ PipeRm(p)
    BY <1>2, <2>2 DEF PipeOut, PipeRm, SurveyConsistent, SurveyTypeOK
  <2>3. QED
    BY <2>1, <2>2
<1>6. SurveyTypeOK'
  BY <1>1, <1>3, <1>4, <1>5 DEF SurveyConsistent, SurveyTypeOK
<1>7. QED
  BY <1>1, <1>6 DEF SurveyConsistent, SurveyNoAbort

-----------------------------------------------------------------------------
(* The worker: the start task, an expiry and its delivery.                 *)
LEMMA WorkerStep ==
  ASSUME SurveyConsistent, StartTask \/ Expire PROVE SurveyConsistent'
<1>1. UNCHANGED <<state, surveyid, timedout, deadline, out, inbox, sock, asserted,
                  asked, sent, result>>
  BY DEF StartTask, Expire
<1>2. TimerConsistent(tmr') /\ tmr'.state = tmr.state /\ tmr' \in Timers
  BY StartTaskConsistent, ExpiryConsistent DEF StartTask, Expire, SurveyConsistent, TimerConsistent
<1>3. SurveyTypeOK'
  BY <1>1, <1>2 DEF SurveyConsistent, SurveyTypeOK
<1>4. QED
  BY <1>1, <1>2, <1>3 DEF SurveyConsistent, SurveyNoAbort

(* TIMEOUT is raised by a running timer only, that is in ACTIVE.           *)
LEMMA FireStep == ASSUME SurveyConsistent, Fire PROVE SurveyConsistent'
<1> DEFINE t == AfterFired(tmr)
<1>1. /\ tmr.wtimer = "fired"
      /\ UNCHANGED <<surveyid, deadline, out, inbox, sock, asked, sent, result>>
  BY DEF Fire
<1>2. TimerConsistent(t) /\ t.state = tmr.state /\ t \in Timers
  BY <1>1, ExpiryConsistent DEF SurveyConsistent, TimerConsistent
<1>3. RaisesTimeout(tmr) => state = "ACTIVE"
  BY DEF RaisesTimeout, SurveyConsistent
<1>4. CASE ~RaisesTimeout(tmr)
  <2>1. tmr' = t /\ UNCHANGED <<state, timedout, asserted>>
    BY <1>4 DEF Fire
  <2> HIDE DEF t
  <2>2. SurveyTypeOK'
    BY <1>1, <1>2, <2>1 DEF SurveyConsistent, SurveyTypeOK
  <2>3. QED
    BY <1>1, <1>2, <2>1, <2>2 DEF SurveyConsistent, SurveyNoAbort
<1>5. CASE RaisesTimeout(tmr)
  <2>1. /\ tmr' = StopRequested(t) /\ state' = "STOPPING_TIMER" /\ timedout' = TRUE
        /\ asserted' = asserted /\ state = "ACTIVE"
    BY <1>3, <1>5 DEF Fire
  <2>2. t.state = "active"
    BY <1>2, <2>1 DEF SurveyConsistent
  <2> HIDE DEF t
  <2>3. TimerConsistent(tmr') /\ tmr'.state = "stopping" /\ tmr' \in Timers
    BY <1>2, <2>1, <2>2, StopConsistent DEF TimerConsistent
  <2>4. SurveyTypeOK'
    BY <1>1, <2>1, <2>3 DEF SurveyConsistent, SurveyTypeOK, States
  <2>5. QED
    BY <1>1, <2>1, <2>3, <2>4 DEF SurveyConsistent, SurveyNoAbort
<1>6. QED
  BY <1>4, <1>5

(* STOPPED finds the timer idle, whatever the state waited for it: a       *)
(* survey held back is sent and its deadline started.                      *)
LEMMA StopTaskStep == ASSUME SurveyConsistent, StopTask PROVE SurveyConsistent'
<1> DEFINE t == AfterStopTask(tmr)
<1>1. /\ UNCHANGED <<surveyid, timedout, deadline, inbox, result>>
      /\ asserted = "none" /\ StopTaskDue(tmr)
  BY DEF StopTask, NotAborted
<1>2. /\ tmr.state = "stopping"
      /\ TimerConsistent(t) /\ t.state = "idle" /\ t \in Timers
  BY <1>1, StopTaskConsistent DEF SurveyConsistent, TimerConsistent
<1>3. state \in {"CANCELLING", "STOPPING_TIMER", "STOPPING"}
  BY <1>2 DEF SurveyConsistent
<1>4. StoppedResends \/ StoppedPassive \/ StoppedCloses
  BY <1>3 DEF StopTask, StoppedBad
<1>5. CASE StoppedResends
  <2>1. state = "CANCELLING" /\ sock' = sock /\ StartSurvey(surveyid, t)
    BY <1>5 DEF StoppedResends
  <2> HIDE DEF t
  <2>2. /\ state' = "ACTIVE" /\ asserted' = "none" /\ sent' = surveyid
        /\ TimerConsistent(tmr') /\ tmr'.state = "active"
        /\ out' \in [Respondents -> {"absent", "busy", "ready"}]
        /\ asked' \in [Respondents -> SUBSET Ids]
    BY <1>1, <1>2, <2>1, StartSurveyLemma DEF SurveyConsistent, SurveyTypeOK
  <2>3. SurveyTypeOK'
    BY <1>1, <2>1, <2>2 DEF SurveyConsistent, SurveyTypeOK, States, TimerConsistent
  <2>4. QED
    BY <1>1, <2>1, <2>2, <2>3 DEF SurveyConsistent, SurveyNoAbort
<1>6. CASE StoppedPassive
  <2>1. /\ state = "STOPPING_TIMER" /\ state' = "PASSIVE" /\ tmr' = t
        /\ UNCHANGED <<out, asked, sent, asserted, sock>>
    BY <1>6 DEF StoppedPassive
  <2> HIDE DEF t
  <2>2. SurveyTypeOK'
    BY <1>1, <1>2, <2>1 DEF SurveyConsistent, SurveyTypeOK, States
  <2>3. QED
    BY <1>1, <1>2, <2>1, <2>2 DEF SurveyConsistent, SurveyNoAbort
<1>7. CASE StoppedCloses
  <2>1. /\ state = "STOPPING" /\ state' = "IDLE" /\ sock' = "FINI" /\ tmr' = t
        /\ UNCHANGED <<out, asked, sent, asserted>>
    BY <1>7 DEF StoppedCloses
  <2> HIDE DEF t
  <2>2. SurveyTypeOK'
    BY <1>1, <1>2, <2>1 DEF SurveyConsistent, SurveyTypeOK, States
  <2>3. QED
    BY <1>1, <1>2, <2>1, <2>2 DEF SurveyConsistent, SurveyNoAbort
<1>8. QED
  BY <1>4, <1>5, <1>6, <1>7

(* Closing waits for the timer exactly when it is not idle.                *)
LEMMA CloseStep ==
  ASSUME SurveyConsistent, Close \/ EpsStopped PROVE SurveyConsistent'
<1>1. /\ UNCHANGED <<surveyid, timedout, deadline, out, inbox, asserted, asked, sent, result>>
      /\ sock \in {"ACTIVE", "STOPPING_EPS"}
  BY DEF Close, EpsStopped
<1>2. CASE SurveyorShutdown
  <2>1. TimerConsistent(tmr') /\ tmr' \in Timers
    BY <1>2, StopConsistent DEF SurveyorShutdown, SurveyConsistent, TimerConsistent
  <2>2. CASE TimerIsIdle(tmr)
    <3>1. /\ state' = "IDLE" /\ sock' = "FINI" /\ tmr'.state = "idle"
      BY <1>2, <2>2, StopConsistent DEF SurveyorShutdown, TimerIsIdle, SurveyConsistent
    <3>2. SurveyTypeOK'
      BY <1>1, <2>1, <3>1 DEF SurveyConsistent, SurveyTypeOK, States
    <3>3. QED
      BY <1>1, <2>1, <3>1, <3>2 DEF SurveyConsistent, SurveyNoAbort
  <2>3. CASE ~TimerIsIdle(tmr)
    <3>1. /\ state' = "STOPPING" /\ sock' = "STOPPING" /\ tmr' = StopRequested(tmr)
      BY <1>2, <2>3 DEF SurveyorShutdown
    <3>2. tmr.state \in {"active", "stopping"}
      BY <2>3 DEF TimerIsIdle, SurveyConsistent, TimerConsistent, Timers, TimerStates
    <3>3. tmr'.state = "stopping"
      BY <3>1, <3>2, StopConsistent DEF SurveyConsistent
    <3>4. SurveyTypeOK'
      BY <1>1, <2>1, <3>1 DEF SurveyConsistent, SurveyTypeOK, States
    <3>5. QED
      BY <1>1, <2>1, <3>1, <3>3, <3>4 DEF SurveyConsistent, SurveyNoAbort
  <2>4. QED
    BY <2>2, <2>3
<1>3. CASE sock = "ACTIVE" /\ sock' = "STOPPING_EPS" /\ UNCHANGED <<state, tmr>>
  <2>1. SurveyTypeOK'
    BY <1>1, <1>3 DEF SurveyConsistent, SurveyTypeOK
  <2>2. QED
    BY <1>1, <1>3, <2>1 DEF SurveyConsistent, SurveyNoAbort
<1>4. QED
  BY <1>2, <1>3 DEF Close, EpsStopped

(* Every step keeps the survey, its timer and the socket in agreement.     *)
LEMMA StepInv ==
  ASSUME SurveyConsistent, [SurveyNext]_SurveyVars PROVE SurveyConsistent'
<1>1. CASE UNCHANGED SurveyVars
  BY <1>1 DEF SurveyVars, SurveyConsistent, SurveyTypeOK, SurveyNoAbort
<1>2. CASE SurveyNext
  BY <1>2, SendStep, RecvStep, PipeStep, WorkerStep, FireStep, StopTaskStep, CloseStep
     DEF SurveyNext
<1>3. QED
  BY <1>1, <1>2

(* The deadline timer agrees with the survey in every reachable state, for *)
(* any respondents and deadlines: surveyor.c never meets an event without  *)
(* a case, never starts a running timer, and loses no survey held back.    *)
THEOREM SurveyStaysConsistent == SurveySafety => []SurveyConsistent
<1>1. SurveyInit => SurveyConsistent
  BY InitInv
<1>2. SurveyConsistent /\ [SurveyNext]_SurveyVars => SurveyConsistent'
  BY StepInv
<1>3. QED
  BY <1>1, <1>2, PTL DEF SurveySafety

-----------------------------------------------------------------------------
(* The refinement: what the user sees of a step.                           *)

(* A call of grid_send replaces the survey, a call of grid_recv reports    *)
(* the survey's end or hands out a response to it and to no other.         *)
LEMMA SendAsks == ASSUME SurveyConsistent, Send PROVE Client!Ask
<1>1. /\ sock = "ACTIVE" /\ sock' = sock /\ surveyid' = surveyid + 1
      /\ timedout' = timedout /\ result' = result
  BY DEF Send
<1>2. state' \in {"ACTIVE", "CANCELLING"}
  <2>1. CASE InProgress
    BY <2>1 DEF Send, SurveyorCancel
  <2>2. CASE ~InProgress
    <3>1. state = "PASSIVE" /\ tmr.state = "idle" /\ surveyid + 1 \in Ids
      BY <1>1, <2>2, MaxIdAssumption
         DEF Send, SurveyConsistent, SurveyTypeOK, States, InProgress, TimerConsistent,
             Timers, TimerStates, Ids
    <3>2. StartSurvey(surveyid + 1, tmr)
      BY <2>2 DEF Send
    <3>3. QED
      BY <3>1, <3>2, StartSurveyLemma DEF SurveyConsistent, SurveyTypeOK, SurveyNoAbort
  <2>3. QED
    BY <2>1, <2>2
<1>3. Phase # "closed" /\ Phase' = "open"
  BY <1>1, <1>2 DEF Phase
<1>4. QED
  BY <1>1, <1>3 DEF Client!Ask

LEMMA RecvAnswers ==
  ASSUME SurveyConsistent, Recv PROVE Client!Answer \/ Client!Report
<1>1. /\ sock = "ACTIVE"
      /\ UNCHANGED <<state, surveyid, sock>>
  BY DEF Recv
<1>2. Phase' = Phase /\ (timedout /\ sock = "ACTIVE" <=> timedout)
  BY <1>1 DEF Phase
<1>3. CASE InProgress
  <2>1. Phase \in {"open", "expired"} /\ timedout' = timedout
    BY <1>1, <1>3 DEF InProgress, Phase, Recv
  <2>2. result' \in {Returned("ok", surveyid), Returned("EAGAIN", 0)}
    <3>1. CASE RecvNothing
      BY <3>1 DEF RecvNothing
    <3>2. CASE RecvResponse
      <4>1. PICK last \in Respondents :
               /\ inbox[last] # 0 /\ ~Stale(last)
               /\ result' = IF inbox[last] = Malformed THEN Returned("EAGAIN", 0)
                            ELSE Returned("ok", inbox[last])
        BY <3>2 DEF RecvResponse
      <4>2. inbox[last] # Malformed => inbox[last] = surveyid
        BY <4>1, MaxIdAssumption DEF SurveyConsistent, SurveyTypeOK, Stale, Malformed, Ids
      <4>3. QED
        BY <4>1, <4>2
    <3>3. QED
      BY <1>3, <3>1, <3>2 DEF Recv
  <2>3. QED
    BY <1>1, <1>2, <2>1, <2>2 DEF Client!Answer, Client!Returned, Returned
<1>4. CASE ~InProgress
  <2>1. Phase = "none"
    BY <1>1, <1>4 DEF InProgress, Phase
  <2>2. /\ result' = Returned(IF timedout THEN "ETIMEDOUT" ELSE "EFSM", 0)
        /\ timedout' = FALSE
    BY <1>4 DEF Recv, RecvNoSurvey
  <2>3. QED
    BY <1>1, <1>2, <2>1, <2>2 DEF Client!Report, Client!Returned, Returned
<1>5. QED
  BY <1>3, <1>4

(* The worker ends a survey in two steps, the expiry and the stop of its   *)
(* timer; anything it does to a survey that was replaced is not seen.      *)
LEMMA FireExpires ==
  ASSUME SurveyConsistent, Fire PROVE Client!Expire \/ UNCHANGED Client!vars
<1>1. UNCHANGED <<surveyid, sock, result>>
  BY DEF Fire
<1>2. RaisesTimeout(tmr) => state = "ACTIVE"
  BY DEF RaisesTimeout, SurveyConsistent
<1>3. CASE RaisesTimeout(tmr)
  <2>1. state = "ACTIVE" /\ state' = "STOPPING_TIMER" /\ timedout' = TRUE
    BY <1>2, <1>3 DEF Fire
  <2>2. QED
    BY <1>1, <2>1 DEF Client!Expire, Client!vars, Phase
<1>4. CASE ~RaisesTimeout(tmr)
  <2>1. state' = state /\ timedout' = timedout
    BY <1>4 DEF Fire
  <2>2. QED
    BY <1>1, <2>1 DEF Client!vars, Phase
<1>5. QED
  BY <1>3, <1>4

LEMMA StopTaskEnds ==
  ASSUME SurveyConsistent, StopTask PROVE Client!End \/ UNCHANGED Client!vars
<1>1. UNCHANGED <<surveyid, timedout, result>>
  BY DEF StopTask
<1>2. StoppedResends \/ StoppedPassive \/ StoppedCloses
  BY StopTaskConsistent DEF StopTask, StoppedBad, SurveyConsistent
<1>3. CASE StoppedResends
  <2>1. /\ state = "CANCELLING" /\ sock' = sock
        /\ state' \in {"ACTIVE", "CANCELLING"}
    BY <1>3 DEF StoppedResends, StartSurvey
  <2>2. QED
    BY <1>1, <2>1 DEF Client!vars, Phase
<1>4. CASE StoppedPassive
  <2>1. state = "STOPPING_TIMER" /\ state' = "PASSIVE" /\ sock' = sock
    BY <1>4 DEF StoppedPassive
  <2>2. QED
    BY <1>1, <2>1 DEF Client!vars, Client!End, Phase
<1>5. CASE StoppedCloses
  <2>1. sock = "STOPPING" /\ sock' = "FINI"
    BY <1>5 DEF StoppedCloses, SurveyConsistent
  <2>2. QED
    BY <1>1, <2>1 DEF Client!vars, Phase
<1>6. QED
  BY <1>2, <1>3, <1>4, <1>5

(* Closing a socket; once it is closing the user sees nothing more.        *)
LEMMA CloseCloses ==
  ASSUME Close \/ EpsStopped PROVE Client!Close
<1>1. sock' # "ACTIVE" /\ UNCHANGED <<surveyid, result>>
  BY DEF Close, EpsStopped, SurveyorShutdown
<1>2. QED
  BY <1>1 DEF Client!Close, Phase

(* Options, pipes and the timer's own progress are not seen.               *)
LEMMA HiddenSteps ==
  ASSUME \/ SetDeadline \/ StartTask \/ Expire
         \/ \E p \in Respondents : PipeOut(p) \/ PipeIn(p) \/ PipeRm(p)
  PROVE  UNCHANGED Client!vars
<1>1. UNCHANGED <<state, surveyid, timedout, sock, result>>
  BY DEF SetDeadline, StartTask, Expire, PipeOut, PipeIn, PipeRm
<1>2. QED
  BY <1>1 DEF Client!vars, Phase

(* surveyor.c keeps the promise of SurveyClient for any respondents: only  *)
(* responses to the latest survey, an expiry reported at most once, and    *)
(* none of a survey that was replaced.                                     *)
THEOREM SurveyorImplementsClient == SurveySafety => Client!Safety
<1>1. SurveyInit => Client!Init
  BY DEF SurveyInit, Client!Init, Phase, Client!Returned, Returned
<1>2. SurveyConsistent /\ [SurveyNext]_SurveyVars => [Client!Next]_(Client!vars)
  <2> SUFFICES ASSUME SurveyConsistent, [SurveyNext]_SurveyVars
               PROVE  Client!Next \/ UNCHANGED Client!vars
    OBVIOUS
  <2>1. CASE UNCHANGED SurveyVars
    BY <2>1 DEF SurveyVars, Client!vars, Phase
  <2>2. CASE SurveyNext
    BY <2>2, SendAsks, RecvAnswers, FireExpires, StopTaskEnds, CloseCloses, HiddenSteps
       DEF SurveyNext, Client!Next
  <2>3. QED
    BY <2>1, <2>2
<1>3. QED
  BY <1>1, <1>2, SurveyStaysConsistent, PTL DEF SurveySafety, Client!Safety
=============================================================================
