---------------------------- MODULE RelayProofs ----------------------------
(***************************************************************************)
(* What finds its way through raw sockets.  A reply goes back over the     *)
(* connection of its request or nowhere: the hash map of the pipes is      *)
(* followed through every re-hashing and the keys through their one turn   *)
(* round the key space.  A device relays what it receives, for any number  *)
(* of messages, whatever the sockets are and whatever happens to them.     *)
(***************************************************************************)
EXTENDS Replier, Device, FiniteSetTheorems, SequenceTheorems, TLAPS

KeySpace == 0..(Keys - 1)
Item(k, p) == [key |-> k, val |-> p]

-----------------------------------------------------------------------------
(* The hash map.                                                           *)

(* h holds the items of S and no other, each in the slot of its key.       *)
Holds(h, S) ==
    /\ h.slots \in Nat \ {0} /\ h.items \in Int
    /\ h.array = [i \in 0..(h.slots - 1) |->
                     {item \in S : HashKey(item.key) % h.slots = i}]
Hashed(S) == \A item \in S : HashKey(item.key) \in Nat

LEMMA Remainder ==
  ASSUME NEW n \in Nat \ {0}, NEW q \in Nat, NEW r \in 0..(n - 1)
  PROVE  (n * q + r) % n = r
OBVIOUS

LEMMA ModRange ==
  ASSUME NEW a \in Nat, NEW n \in Nat \ {0}
  PROVE  a % n \in 0..(n - 1)
OBVIOUS

LEMMA Division ==
  ASSUME NEW a \in Nat, NEW n \in Nat \ {0}
  PROVE  a \div n \in Nat /\ a = n * (a \div n) + (a % n)
<1>1. a \div n \in Nat
  OBVIOUS
<1>2. a - n * (a \div n) = a % n
  OBVIOUS
<1>3. QED
  BY <1>1, <1>2

(* Why an item of a doubled array comes from the slot i % slots.           *)
LEMMA ModOfMod ==
  ASSUME NEW a \in Nat, NEW n \in Nat \ {0}
  PROVE  (a % (2 * n)) % n = a % n
<1> DEFINE q == a \div (2 * n)
           r == a % (2 * n)
<1>1. 2 * n \in Nat \ {0}
  OBVIOUS
<1>2. q \in Nat /\ r \in 0..(2 * n - 1) /\ a = (2 * n) * q + r
  BY <1>1, ModRange, Division
<1> HIDE DEF q, r
<1>3. CASE r < n
  <2>1. a = n * (2 * q) + r /\ r = n * 0 + r /\ r \in 0..(n - 1) /\ 2 * q \in Nat
    BY <1>2, <1>3
  <2>2. a % n = r /\ r % n = r
    BY <2>1, Remainder
  <2>3. QED
    BY <2>2 DEF r
<1>4. CASE r >= n
  <2> DEFINE s == r - n
  <2>1. a = n * (2 * q + 1) + s /\ r = n * 1 + s /\ s \in 0..(n - 1) /\ 2 * q + 1 \in Nat
    BY <1>2, <1>4
  <2> HIDE DEF s
  <2>2. a % n = s
    BY <2>1, Remainder
  <2>3. r % n = s
    BY <2>1, Remainder
  <2>4. QED
    BY <2>2, <2>3 DEF r
<1>5. QED
  BY <1>2, <1>3, <1>4

(* The slot of a key holds the items of S with that key.                   *)
LEMMA Found ==
  ASSUME NEW h, NEW S, Holds(h, S), NEW k, HashKey(k) \in Nat
  PROVE  /\ SlotOf(h, k) \in 0..(h.slots - 1)
         /\ Matches(h, k) = {item \in S : item.key = k}
<1>1. SlotOf(h, k) \in 0..(h.slots - 1)
  BY ModRange DEF Holds, SlotOf
<1>2. h.array[SlotOf(h, k)] = {item \in S : HashKey(item.key) % h.slots = SlotOf(h, k)}
  BY <1>1 DEF Holds
<1>3. QED
  BY <1>1, <1>2 DEF Matches, SlotOf

LEMMA EmptyHolds == Holds(EmptyHash, {})
BY InitialSlotsAssumption DEF Holds, EmptyHash

(* Doubling the slots loses nothing.                                       *)
LEMMA RehashHolds ==
  ASSUME NEW h, NEW S, Holds(h, S), Hashed(S)
  PROVE  Holds(Rehash(h), S) /\ Rehash(h).items = h.items
<1> DEFINE new == 2 * h.slots
           arr == [i \in 0..(new - 1) |->
                      {item \in h.array[i % h.slots] : HashKey(item.key) % new = i}]
<1>1. h.slots \in Nat \ {0} /\ new \in Nat \ {0} /\ h.items \in Int
  BY DEF Holds
<1>2. Rehash(h) = [slots |-> new, items |-> h.items, array |-> arr]
  BY DEF Rehash
<1>3. ASSUME NEW i \in 0..(new - 1)
      PROVE  arr[i] = {item \in S : HashKey(item.key) % new = i}
  <2>1. i \in Nat /\ i % h.slots \in 0..(h.slots - 1)
    <3>1. i \in Nat
      BY <1>1
    <3>2. QED
      BY <1>1, <3>1, ModRange
  <2>2. h.array[i % h.slots] = {item \in S : HashKey(item.key) % h.slots = i % h.slots}
    BY <2>1 DEF Holds
  <2>3. ASSUME NEW item \in S, HashKey(item.key) % new = i
        PROVE  HashKey(item.key) % h.slots = i % h.slots
    BY <1>1, <2>3, ModOfMod DEF Hashed
  <2>4. QED
    BY <2>2, <2>3
<1>4. arr = [i \in 0..(new - 1) |-> {item \in S : HashKey(item.key) % new = i}]
  BY <1>3
<1> HIDE DEF new, arr
<1>5. QED
  BY <1>1, <1>2, <1>4 DEF Holds

LEMMA InsertHolds ==
  ASSUME NEW h, NEW S, Holds(h, S), Hashed(S),
         NEW k, HashKey(k) \in Nat, NEW p
  PROVE  /\ Holds(HashInsert(h, k, p), S \cup {Item(k, p)})
         /\ HashInsert(h, k, p).items = h.items + 1
<1> DEFINE T == S \cup {Item(k, p)}
           arr == [h.array EXCEPT ![SlotOf(h, k)] = @ \cup {Item(k, p)}]
           grown == [slots |-> h.slots, items |-> h.items + 1, array |-> arr]
<1>1. SlotOf(h, k) \in 0..(h.slots - 1) /\ SlotOf(h, k) = HashKey(k) % h.slots
  BY Found DEF SlotOf
<1>2. HashInsert(h, k, p) \in {grown, Rehash(grown)}
  BY DEF HashInsert, Item
<1>3. arr = [i \in 0..(h.slots - 1) |-> {item \in T : HashKey(item.key) % h.slots = i}]
  <2>1. Item(k, p).key = k
    BY DEF Item
  <2>2. \A i \in 0..(h.slots - 1) :
            arr[i] = {item \in T : HashKey(item.key) % h.slots = i}
    BY <1>1, <2>1 DEF Holds
  <2>3. DOMAIN arr = 0..(h.slots - 1) /\ arr = [i \in DOMAIN arr |-> arr[i]]
    BY DEF Holds
  <2>4. QED
    BY <2>2, <2>3
<1> HIDE DEF arr
<1>4. Holds(grown, T) /\ grown.items = h.items + 1
  BY <1>3 DEF Holds
<1>5. Hashed(T)
  BY DEF Hashed, Item
<1> HIDE DEF grown, T
<1>6. Holds(Rehash(grown), T) /\ Rehash(grown).items = grown.items
  BY <1>4, <1>5, RehashHolds
<1>7. QED
  BY <1>2, <1>4, <1>6 DEF T

LEMMA EraseHolds ==
  ASSUME NEW h, NEW S, Holds(h, S), NEW k, HashKey(k) \in Nat
  PROVE  /\ Holds(HashErase(h, k), {item \in S : item.key # k})
         /\ HashErase(h, k).items = h.items - 1
<1> DEFINE T == {item \in S : item.key # k}
           arr == [h.array EXCEPT ![SlotOf(h, k)] = @ \ Matches(h, k)]
<1>1. /\ SlotOf(h, k) \in 0..(h.slots - 1) /\ SlotOf(h, k) = HashKey(k) % h.slots
      /\ Matches(h, k) = {item \in S : item.key = k}
  BY Found DEF SlotOf
<1>2. HashErase(h, k) = [slots |-> h.slots, items |-> h.items - 1, array |-> arr]
  BY DEF HashErase
<1>3. arr = [i \in 0..(h.slots - 1) |-> {item \in T : HashKey(item.key) % h.slots = i}]
  <2>1. \A i \in 0..(h.slots - 1) :
            arr[i] = {item \in T : HashKey(item.key) % h.slots = i}
    BY <1>1 DEF Holds
  <2>2. DOMAIN arr = 0..(h.slots - 1) /\ arr = [i \in DOMAIN arr |-> arr[i]]
    BY DEF Holds
  <2>3. QED
    BY <2>1, <2>2
<1> HIDE DEF arr
<1>4. QED
  BY <1>2, <1>3 DEF Holds

-----------------------------------------------------------------------------
(* The pipes and their keys.                                               *)

InUse == {p \in Pipes : key[p] # -1}
Stored == {Item(key[p], p) : p \in InUse}

TypeInv ==
    /\ proto \in Cooked \cup {"XREP", "XRESPONDENT"}
    /\ nextKey \in KeySpace
    /\ key \in [Pipes -> KeySpace \cup {-1}]
    /\ outFlag \in [Pipes -> BOOLEAN] /\ outIdle \in [Pipes -> BOOLEAN]
    /\ offered \in [Pipes -> Requests \cup {0, Malformed}]
    /\ backtrace \subseteq [key : KeySpace, req : Requests, from : 1..MaxConn]
    /\ conn \in [Pipes -> 0..MaxConn] /\ made \in 0..MaxConn
    /\ wire \in [1..MaxConn -> Seq(Requests)]

(* The key of the n-th connection when the first one got key s.            *)
KeyOf(s, n) == IF s + n - 1 < Keys THEN s + n - 1 ELSE s + n - 1 - Keys

(* The keys have been given out one after the other from some s on, and a  *)
(* header names its connection, connected or gone, by the key it had.      *)
KeyedFrom(s) ==
    /\ nextKey = KeyOf(s, made + 1)
    /\ \A p \in InUse : conn[p] \in 1..made /\ key[p] = KeyOf(s, conn[p])
    /\ \A h \in backtrace : h.from \in 1..made /\ h.key = KeyOf(s, h.from)
KeysInv == \E s \in KeySpace : KeyedFrom(s)

PipesInv ==
    /\ \A p \in Pipes : /\ outFlag[p] = outIdle[p]
                        /\ key[p] = -1 => conn[p] = 0 /\ ~outFlag[p] /\ offered[p] = 0
    /\ \A p \in InUse, q \in InUse : conn[p] = conn[q] => p = q

HashInv == /\ Holds(outpipes, Stored)
           /\ IsFiniteSet(InUse) /\ outpipes.items = Cardinality(InUse)

(* A cooked socket keeps one backtrace.                                    *)
BacktraceInv == proto \in Cooked => \A g \in backtrace, h \in backtrace : g = h

IInv == TypeInv /\ KeysInv /\ PipesInv /\ HashInv /\ BacktraceInv /\ NoAbort

(* KeyOf is what counting modulo Keys gives, and MaxConn <= Keys keeps two *)
(* connections from having the same key.                                   *)
LEMMA KeyRange ==
  ASSUME NEW s \in KeySpace, NEW n \in 1..(Keys + 1)
  PROVE  KeyOf(s, n) \in KeySpace
BY BoundsAssumption DEF KeyOf, KeySpace

LEMMA KeyNext ==
  ASSUME NEW s \in KeySpace, NEW n \in 1..Keys
  PROVE  (KeyOf(s, n) + 1) % Keys = KeyOf(s, n + 1)
<1>1. Keys \in Nat \ {0} /\ KeyOf(s, n) \in 0..(Keys - 1)
  BY BoundsAssumption, KeyRange DEF KeySpace
<1>2. \A x \in 0..(Keys - 1) : (x + 1) % Keys = IF x + 1 = Keys THEN 0 ELSE x + 1
  BY <1>1
<1>3. KeyOf(s, n + 1) = IF KeyOf(s, n) + 1 = Keys THEN 0 ELSE KeyOf(s, n) + 1
  BY <1>1 DEF KeyOf, KeySpace
<1>4. QED
  BY <1>1, <1>2, <1>3

LEMMA KeysDiffer ==
  ASSUME NEW s \in KeySpace, NEW m \in 1..Keys, NEW n \in 1..Keys,
         KeyOf(s, m) = KeyOf(s, n)
  PROVE  m = n
BY BoundsAssumption DEF KeyOf, KeySpace

(* Two pipes in use have different keys, and a connected pipe is the one a *)
(* header with its key means.                                              *)
LEMMA KeyIsIdentity ==
  ASSUME IInv
  PROVE  /\ \A p \in InUse, q \in InUse : key[p] = key[q] => p = q
         /\ \A p \in InUse, h \in backtrace : key[p] = h.key <=> conn[p] = h.from
<1>1. PICK s \in KeySpace : KeyedFrom(s)
  BY DEF IInv, KeysInv
<1>2. made \in Nat /\ made <= Keys /\ 1..made \subseteq 1..Keys
  BY BoundsAssumption DEF IInv, TypeInv
<1>3. ASSUME NEW p \in InUse, NEW q \in InUse, key[p] = key[q]
      PROVE  p = q
  <2>1. conn[p] \in 1..Keys /\ conn[q] \in 1..Keys /\ KeyOf(s, conn[p]) = KeyOf(s, conn[q])
    BY <1>1, <1>2, <1>3 DEF KeyedFrom
  <2>2. conn[p] = conn[q]
    BY <2>1, KeysDiffer
  <2>3. QED
    BY <2>2 DEF IInv, PipesInv
<1>4. ASSUME NEW p \in InUse, NEW h \in backtrace
      PROVE  key[p] = h.key <=> conn[p] = h.from
  <2>1. /\ conn[p] \in 1..Keys /\ key[p] = KeyOf(s, conn[p])
        /\ h.from \in 1..Keys /\ h.key = KeyOf(s, h.from)
    BY <1>1, <1>2 DEF KeyedFrom
  <2>2. QED
    BY <2>1, KeysDiffer
<1>5. QED
  BY <1>3, <1>4

LEMMA StoredHashed ==
  ASSUME IInv
  PROVE  Hashed(Stored) /\ \A k \in KeySpace : HashKey(k) \in Nat
<1>1. \A k \in KeySpace : HashKey(k) \in Nat
  BY HashKeyAssumption DEF KeySpace
<1>2. \A p \in InUse : key[p] \in KeySpace
  BY DEF InUse, IInv, TypeInv
<1>3. QED
  BY <1>1, <1>2 DEF Hashed, Stored, Item

(* What the hash map says of a key.                                        *)
LEMMA Lookup ==
  ASSUME IInv, NEW k \in KeySpace
  PROVE  /\ HashHas(outpipes, k) <=> \E p \in InUse : key[p] = k
         /\ \A p \in InUse : key[p] = k => HashGet(outpipes, k) = p
<1>1. Matches(outpipes, k) = {item \in Stored : item.key = k}
  BY StoredHashed, Found DEF IInv, HashInv
<1>2. \A item \in Stored : \E p \in InUse : item = Item(key[p], p)
  BY DEF Stored
<1>3. HashHas(outpipes, k) <=> \E p \in InUse : key[p] = k
  <2>1. ASSUME NEW p \in InUse, key[p] = k
        PROVE  Item(k, p) \in Matches(outpipes, k)
    BY <1>1, <2>1 DEF Stored, Item
  <2>2. ASSUME NEW item \in Matches(outpipes, k)
        PROVE  \E p \in InUse : key[p] = k
    BY <1>1, <1>2 DEF Item
  <2>3. QED
    BY <2>1, <2>2 DEF HashHas
<1>4. ASSUME NEW p \in InUse, key[p] = k
      PROVE  HashGet(outpipes, k) = p
  <2> DEFINE it == CHOOSE item \in Matches(outpipes, k) : TRUE
  <2>1. Matches(outpipes, k) # {}
    BY <1>3, <1>4 DEF HashHas
  <2>2. it \in Matches(outpipes, k)
    BY <2>1
  <2>3. HashGet(outpipes, k) = it.val
    BY DEF HashGet
  <2> HIDE DEF it
  <2>4. PICK q \in InUse : it = Item(key[q], q)
    BY <1>1, <1>2, <2>2
  <2>5. key[q] = k /\ it.val = q
    BY <1>1, <2>2, <2>4 DEF Item
  <2>6. q = p
    BY <1>4, <2>5, KeyIsIdentity
  <2>7. QED
    BY <2>3, <2>5, <2>6
<1>5. QED
  BY <1>3, <1>4

(* HashConsistent is what the invariant says of the map.                   *)
LEMMA InvHashConsistent == IInv => HashConsistent
<1> SUFFICES ASSUME IInv PROVE HashConsistent
  OBVIOUS
<1>1. ASSUME NEW k \in KeySpace
      PROVE  /\ HashHas(outpipes, k) <=> \E p \in Pipes : key[p] = k
             /\ HashHas(outpipes, k) => key[HashGet(outpipes, k)] = k
  <2>1. \A p \in Pipes : key[p] = k => p \in InUse
    BY DEF InUse, KeySpace
  <2>2. InUse \subseteq Pipes
    BY DEF InUse
  <2>3. QED
    BY <2>1, <2>2, Lookup
<1>2. outpipes.items = Cardinality({p \in Pipes : key[p] # -1})
  BY DEF IInv, HashInv, InUse
<1>3. NoAbort /\ \A p \in Pipes : outFlag[p] = outIdle[p]
  BY DEF IInv, PipesInv
<1>4. QED
  BY <1>1, <1>2, <1>3 DEF HashConsistent, KeySpace

-----------------------------------------------------------------------------
(* The steps.                                                              *)

LEMMA InitInv == Init => IInv
<1> SUFFICES ASSUME Init PROVE IInv
  OBVIOUS
<1>1. InUse = {} /\ Stored = {}
  BY DEF Init, InUse, Stored
<1>2. TypeInv
  <2>1. << >> \in Seq(Requests) /\ 0 \in 0..MaxConn
    BY BoundsAssumption
  <2>2. QED
    BY <2>1 DEF Init, TypeInv, KeySpace
<1>3. KeysInv
  <2>1. nextKey \in KeySpace /\ KeyOf(nextKey, made + 1) = nextKey
    BY BoundsAssumption DEF Init, KeySpace, KeyOf
  <2>2. KeyedFrom(nextKey)
    BY <1>1, <2>1 DEF Init, KeyedFrom
  <2>3. QED
    BY <2>1, <2>2 DEF KeysInv
<1>4. PipesInv
  BY <1>1 DEF Init, PipesInv
<1>5. HashInv
  <2>1. IsFiniteSet({}) /\ Cardinality({}) = 0
    BY FS_EmptySet
  <2>2. outpipes = EmptyHash /\ EmptyHash.items = 0
    BY DEF Init, EmptyHash
  <2>3. QED
    BY <1>1, <2>1, <2>2, EmptyHolds DEF HashInv
<1>6. BacktraceInv /\ NoAbort
  BY DEF Init, BacktraceInv, NoAbort
<1>7. QED
  BY <1>2, <1>3, <1>4, <1>5, <1>6 DEF IInv

(* Most steps leave the hash map and the keys alone.                       *)
LEMMA SameTable ==
  ASSUME IInv, UNCHANGED <<nextKey, outpipes, key, conn, made>>,
         \A h \in backtrace' : \/ h \in backtrace
                               \/ \E p \in InUse : h.from = conn[p] /\ h.key = key[p]
  PROVE  KeysInv' /\ HashInv' /\ InUse' = InUse
<1>1. InUse' = InUse /\ Stored' = Stored
  BY DEF InUse, Stored
<1>2. HashInv'
  BY <1>1 DEF IInv, HashInv
<1>3. PICK s \in KeySpace : KeyedFrom(s)
  BY DEF IInv, KeysInv
<1>4. KeyedFrom(s)'
  BY <1>1, <1>3 DEF KeyedFrom
<1>5. QED
  BY <1>1, <1>2, <1>4 DEF KeysInv

(* A new pipe gets a key that no pipe in use has.                          *)
LEMMA AddStep ==
  ASSUME IInv, NEW p \in Pipes, Add(p)
  PROVE  IInv'
<1>1. /\ key[p] = -1 /\ made < MaxConn /\ made' = made + 1
      /\ conn' = [conn EXCEPT ![p] = made + 1]
      /\ UNCHANGED <<proto, offered, backtrace, wire>>
      /\ XRepAdd(p)
  BY DEF Add, XRespondentAdd
<1>2. PICK s \in KeySpace : KeyedFrom(s)
  BY DEF IInv, KeysInv
<1>3. made \in Nat /\ made + 1 \in 1..Keys /\ made + 1 \in 1..MaxConn
  BY <1>1, BoundsAssumption DEF IInv, TypeInv
<1>4. nextKey \in KeySpace /\ ~HashHas(outpipes, nextKey)
  <2>1. nextKey \in KeySpace /\ nextKey = KeyOf(s, made + 1)
    BY <1>2 DEF IInv, TypeInv, KeyedFrom
  <2>2. ASSUME NEW q \in InUse, key[q] = nextKey
        PROVE  FALSE
    <3>1. conn[q] \in 1..made /\ KeyOf(s, conn[q]) = KeyOf(s, made + 1)
      BY <1>2, <2>1, <2>2 DEF KeyedFrom
    <3>2. conn[q] \in 1..Keys /\ conn[q] # made + 1
      BY <1>3, <3>1, BoundsAssumption
    <3>3. QED
      BY <1>3, <3>1, <3>2, KeysDiffer
  <2>3. QED
    BY <2>1, <2>2, Lookup
<1>5. /\ outpipes' = HashInsert(outpipes, nextKey, p)
      /\ key' = [key EXCEPT ![p] = nextKey]
      /\ nextKey' = (nextKey + 1) % Keys
      /\ outFlag' = [outFlag EXCEPT ![p] = TRUE]
      /\ outIdle' = [outIdle EXCEPT ![p] = TRUE]
      /\ UNCHANGED failed
  BY <1>1, <1>4 DEF XRepAdd
<1>6. p \notin InUse /\ InUse' = InUse \cup {p}
  BY <1>1, <1>4, <1>5 DEF InUse, KeySpace, IInv, TypeInv
<1>7. /\ \A q \in InUse : key'[q] = key[q] /\ conn'[q] = conn[q]
      /\ key'[p] = nextKey /\ conn'[p] = made + 1
  BY <1>1, <1>5, <1>6 DEF InUse, IInv, TypeInv
<1>8. nextKey' = KeyOf(s, made' + 1) /\ nextKey' \in KeySpace
  <2>1. nextKey = KeyOf(s, made + 1)
    BY <1>2 DEF KeyedFrom
  <2>2. nextKey' = KeyOf(s, made + 1 + 1)
    BY <1>3, <1>5, <2>1, KeyNext
  <2>3. made + 1 + 1 \in 1..(Keys + 1)
    BY <1>3, BoundsAssumption
  <2>4. QED
    BY <1>1, <2>2, <2>3, KeyRange
<1>9. KeysInv'
  <2>1. \A q \in InUse' : conn'[q] \in 1..made' /\ key'[q] = KeyOf(s, conn'[q])
    BY <1>1, <1>2, <1>3, <1>6, <1>7 DEF KeyedFrom
  <2>2. \A h \in backtrace' : h.from \in 1..made' /\ h.key = KeyOf(s, h.from)
    BY <1>1, <1>2, <1>3 DEF KeyedFrom
  <2>3. KeyedFrom(s)'
    BY <1>8, <2>1, <2>2 DEF KeyedFrom
  <2>4. QED
    BY <2>3 DEF KeysInv
<1>10. HashInv'
  <2>1. Stored' = Stored \cup {Item(nextKey, p)}
    BY <1>6, <1>7 DEF Stored
  <2>2. /\ Holds(HashInsert(outpipes, nextKey, p), Stored \cup {Item(nextKey, p)})
        /\ HashInsert(outpipes, nextKey, p).items = outpipes.items + 1
    BY <1>4, StoredHashed, InsertHolds DEF IInv, HashInv
  <2>3. IsFiniteSet(InUse \cup {p}) /\ Cardinality(InUse \cup {p}) = Cardinality(InUse) + 1
    BY <1>6, FS_AddElement DEF IInv, HashInv
  <2>4. QED
    BY <1>5, <1>6, <2>1, <2>2, <2>3 DEF IInv, HashInv
<1>11. PipesInv'
  <2>1. \A q \in Pipes : /\ outFlag'[q] = outIdle'[q]
                         /\ key'[q] = -1 => conn'[q] = 0 /\ ~outFlag'[q] /\ offered'[q] = 0
    <3> SUFFICES ASSUME NEW q \in Pipes
                 PROVE  /\ outFlag'[q] = outIdle'[q]
                        /\ key'[q] = -1 => conn'[q] = 0 /\ ~outFlag'[q] /\ offered'[q] = 0
      OBVIOUS
    <3>1. CASE q = p
      BY <1>4, <1>5, <1>7, <3>1 DEF IInv, TypeInv, KeySpace
    <3>2. CASE q # p
      BY <1>1, <1>5, <3>2 DEF IInv, TypeInv, PipesInv
    <3>3. QED
      BY <3>1, <3>2
  <2>2. ASSUME NEW q \in InUse', NEW r \in InUse', conn'[q] = conn'[r]
        PROVE  q = r
    <3>1. \A x \in InUse : conn[x] # made + 1
      BY <1>2, <1>3 DEF KeyedFrom
    <3>2. QED
      BY <1>6, <1>7, <2>2, <3>1 DEF IInv, PipesInv
  <2>3. QED
    BY <2>1, <2>2 DEF PipesInv
<1>12. TypeInv'
  BY <1>1, <1>3, <1>4, <1>5, <1>8 DEF IInv, TypeInv
<1>13. BacktraceInv' /\ NoAbort'
  BY <1>1, <1>5 DEF IInv, BacktraceInv, NoAbort
<1>14. QED
  BY <1>9, <1>10, <1>11, <1>12, <1>13 DEF IInv

(* The pipe that goes takes its item out of the map.                       *)
LEMMA RmStep ==
  ASSUME IInv, NEW p \in Pipes, Rm(p)
  PROVE  IInv'
<1>1. /\ key[p] # -1 /\ p \in InUse
      /\ outFlag' = [outFlag EXCEPT ![p] = FALSE]
      /\ outpipes' = HashErase(outpipes, key[p])
      /\ key' = [key EXCEPT ![p] = -1]
      /\ outIdle' = [outIdle EXCEPT ![p] = FALSE]
      /\ offered' = [offered EXCEPT ![p] = 0]
      /\ conn' = [conn EXCEPT ![p] = 0]
      /\ UNCHANGED <<proto, nextKey, backtrace, failed, made, wire>>
  BY DEF Rm, XRespondentRm, XRepRm, InUse
<1>2. key[p] \in KeySpace /\ HashKey(key[p]) \in Nat
  BY <1>1, StoredHashed DEF IInv, TypeInv
<1>3. InUse' = InUse \ {p}
  BY <1>1 DEF InUse, IInv, TypeInv
<1>4. \A q \in InUse' : key'[q] = key[q] /\ conn'[q] = conn[q]
  BY <1>1, <1>3 DEF InUse, IInv, TypeInv
<1>5. KeysInv'
  <2>1. PICK s \in KeySpace : KeyedFrom(s)
    BY DEF IInv, KeysInv
  <2>2. KeyedFrom(s)'
    BY <1>1, <1>3, <1>4, <2>1 DEF KeyedFrom
  <2>3. QED
    BY <2>2 DEF KeysInv
<1>6. HashInv'
  <2>1. Stored' = {item \in Stored : item.key # key[p]}
    <3>1. \A q \in InUse : key[q] = key[p] <=> q = p
      BY <1>1, KeyIsIdentity
    <3>2. \A q \in InUse : Item(key[q], q).key = key[q]
      BY DEF Item
    <3>3. QED
      BY <1>3, <1>4, <3>1, <3>2 DEF Stored
  <2>2. /\ Holds(HashErase(outpipes, key[p]), {item \in Stored : item.key # key[p]})
        /\ HashErase(outpipes, key[p]).items = outpipes.items - 1
    BY <1>2, EraseHolds DEF IInv, HashInv
  <2>3. IsFiniteSet(InUse \ {p}) /\ Cardinality(InUse \ {p}) = Cardinality(InUse) - 1
    BY <1>1, FS_RemoveElement DEF IInv, HashInv
  <2>4. QED
    BY <1>1, <1>3, <2>1, <2>2, <2>3 DEF IInv, HashInv
<1>7. PipesInv'
  <2>1. \A q \in Pipes : /\ outFlag'[q] = outIdle'[q]
                         /\ key'[q] = -1 => conn'[q] = 0 /\ ~outFlag'[q] /\ offered'[q] = 0
    <3> SUFFICES ASSUME NEW q \in Pipes
                 PROVE  /\ outFlag'[q] = outIdle'[q]
                        /\ key'[q] = -1 => conn'[q] = 0 /\ ~outFlag'[q] /\ offered'[q] = 0
      OBVIOUS
    <3>1. CASE q = p
      BY <1>1, <3>1 DEF IInv, TypeInv
    <3>2. CASE q # p
      BY <1>1, <3>2 DEF IInv, TypeInv, PipesInv
    <3>3. QED
      BY <3>1, <3>2
  <2>2. \A q \in InUse', r \in InUse' : conn'[q] = conn'[r] => q = r
    BY <1>3, <1>4 DEF IInv, PipesInv
  <2>3. QED
    BY <2>1, <2>2 DEF PipesInv
<1>8. TypeInv'
  <2>1. 0 \in 0..MaxConn /\ key' \in [Pipes -> KeySpace \cup {-1}]
    BY <1>1, BoundsAssumption DEF IInv, TypeInv
  <2>2. /\ offered' \in [Pipes -> Requests \cup {0, Malformed}]
        /\ conn' \in [Pipes -> 0..MaxConn]
    BY <1>1, <2>1 DEF IInv, TypeInv
  <2>3. outFlag' \in [Pipes -> BOOLEAN] /\ outIdle' \in [Pipes -> BOOLEAN]
    BY <1>1 DEF IInv, TypeInv
  <2>4. QED
    BY <1>1, <2>1, <2>2, <2>3 DEF IInv, TypeInv
<1>9. BacktraceInv' /\ NoAbort'
  BY <1>1 DEF IInv, BacktraceInv, NoAbort
<1>10. QED
  BY <1>5, <1>6, <1>7, <1>8, <1>9 DEF IInv

LEMMA OutStep ==
  ASSUME IInv, NEW p \in Pipes, Out(p)
  PROVE  IInv'
<1>1. /\ key[p] # -1
      /\ outFlag' = [outFlag EXCEPT ![p] = TRUE]
      /\ outIdle' = [outIdle EXCEPT ![p] = TRUE]
      /\ UNCHANGED <<proto, nextKey, outpipes, key, offered, backtrace, failed, conn,
                     made, wire>>
  BY DEF Out, XRepOut, XRespondentOut
<1>2. KeysInv' /\ HashInv' /\ InUse' = InUse
  BY <1>1, SameTable
<1>3. PipesInv'
  BY <1>1, <1>2 DEF IInv, PipesInv, TypeInv
<1>4. TypeInv' /\ BacktraceInv' /\ NoAbort'
  BY <1>1 DEF IInv, TypeInv, BacktraceInv, NoAbort
<1>5. QED
  BY <1>2, <1>3, <1>4 DEF IInv

LEMMA InStep ==
  ASSUME IInv, NEW p \in Pipes, In(p)
  PROVE  IInv'
<1>1. /\ key[p] # -1
      /\ UNCHANGED <<proto, nextKey, outpipes, key, outFlag, outIdle, backtrace,
                     failed, conn, made, wire>>
  BY DEF In
<1>2. PICK r \in Requests \cup {Malformed} : offered' = [offered EXCEPT ![p] = r]
  BY DEF In, XRepIn, XRespondentIn
<1>3. KeysInv' /\ HashInv' /\ InUse' = InUse
  BY <1>1, SameTable
<1>4. PipesInv'
  BY <1>1, <1>2, <1>3 DEF IInv, PipesInv, TypeInv
<1>5. TypeInv' /\ BacktraceInv' /\ NoAbort'
  BY <1>1, <1>2 DEF IInv, TypeInv, BacktraceInv, NoAbort
<1>6. QED
  BY <1>3, <1>4, <1>5 DEF IInv

(* The pipe a header finds is the connection it came by.                   *)
LEMMA DestinationIs ==
  ASSUME IInv, NEW h \in backtrace
  PROVE  /\ Destination(h) = {p \in InUse : conn[p] = h.from /\ outFlag[p]}
         /\ \A p \in Destination(h) : outIdle[p]
<1>1. h.key \in KeySpace
  BY DEF IInv, TypeInv
<1>2. \A p \in InUse : key[p] = h.key <=> conn[p] = h.from
  BY KeyIsIdentity
<1>3. CASE ~HashHas(outpipes, h.key)
  <2>1. Destination(h) = {}
    BY <1>3 DEF Destination
  <2>2. \A p \in InUse : conn[p] # h.from
    BY <1>1, <1>2, <1>3, Lookup
  <2>3. QED
    BY <2>1, <2>2
<1>4. CASE HashHas(outpipes, h.key)
  <2>1. PICK q \in InUse : key[q] = h.key
    BY <1>1, <1>4, Lookup
  <2>2. HashGet(outpipes, h.key) = q /\ conn[q] = h.from
    BY <1>1, <1>2, <2>1, Lookup
  <2>3. Destination(h) = {p \in {q} : outFlag[p]}
    BY <1>4, <2>2 DEF Destination
  <2>4. \A p \in InUse : conn[p] = h.from <=> p = q
    BY <1>2, <2>1, <2>2, KeyIsIdentity
  <2>5. Destination(h) = {p \in InUse : conn[p] = h.from /\ outFlag[p]}
    BY <2>1, <2>3, <2>4
  <2>6. \A p \in Destination(h) : outFlag[p] /\ outFlag[p] = outIdle[p]
    BY <2>1, <2>3 DEF IInv, PipesInv, InUse
  <2>7. QED
    BY <2>5, <2>6
<1>5. QED
  BY <1>3, <1>4

(* What a send does: the reply goes to the pipe of its request or nowhere. *)
LEMMA SendEffect ==
  ASSUME IInv, Send
  PROVE  /\ UNCHANGED <<proto, nextKey, outpipes, key, offered, conn, made, failed>>
         /\ \E h \in backtrace :
               /\ \/ proto \in Cooked /\ backtrace' = {}
                  \/ backtrace' = backtrace
               /\ \/ Destination(h) = {} /\ UNCHANGED <<outFlag, outIdle, wire>>
                  \/ \E p \in Destination(h), release \in BOOLEAN :
                       /\ outIdle' = [outIdle EXCEPT ![p] = ~release]
                       /\ outFlag' = [outFlag EXCEPT ![p] = ~release]
                       /\ wire' = [wire EXCEPT ![conn[p]] = Append(@, h.req)]
<1>1. UNCHANGED <<proto, nextKey, outpipes, key, offered, conn, made>>
  BY DEF Send
<1>2. PICK h \in backtrace :
          /\ XRepSend(h)
          /\ \/ proto \in Cooked /\ backtrace' = {}
             \/ backtrace' = backtrace
  BY DEF Send, RepSend, RespondentSend, XRespondentSend, Cooked
<1>3. /\ UNCHANGED failed
      /\ \/ Destination(h) = {} /\ UNCHANGED <<outFlag, outIdle, wire>>
         \/ \E p \in Destination(h), release \in BOOLEAN :
              /\ outIdle' = [outIdle EXCEPT ![p] = ~release]
              /\ outFlag' = [outFlag EXCEPT ![p] = ~release]
              /\ wire' = [wire EXCEPT ![conn[p]] = Append(@, h.req)]
  BY <1>2, DestinationIs DEF XRepSend, Released
<1>4. QED
  BY <1>1, <1>2, <1>3

LEMMA SendStep ==
  ASSUME IInv, Send
  PROVE  IInv'
<1>1. /\ UNCHANGED <<proto, nextKey, outpipes, key, offered, conn, made, failed>>
      /\ backtrace' \subseteq backtrace
  BY SendEffect
<1>2. KeysInv' /\ HashInv' /\ InUse' = InUse
  BY <1>1, SameTable
<1>3. BacktraceInv' /\ NoAbort'
  BY <1>1 DEF IInv, BacktraceInv, NoAbort
<1>4. PICK h \in backtrace :
         \/ UNCHANGED <<outFlag, outIdle, wire>>
         \/ \E p \in Destination(h), release \in BOOLEAN :
              /\ outIdle' = [outIdle EXCEPT ![p] = ~release]
              /\ outFlag' = [outFlag EXCEPT ![p] = ~release]
              /\ wire' = [wire EXCEPT ![conn[p]] = Append(@, h.req)]
  BY SendEffect
<1>5. CASE UNCHANGED <<outFlag, outIdle, wire>>
  BY <1>1, <1>2, <1>3, <1>5 DEF IInv, PipesInv, TypeInv
<1>6. ASSUME NEW p \in Destination(h), NEW release \in BOOLEAN,
             outIdle' = [outIdle EXCEPT ![p] = ~release],
             outFlag' = [outFlag EXCEPT ![p] = ~release],
             wire' = [wire EXCEPT ![conn[p]] = Append(@, h.req)]
      PROVE  IInv'
  <2>1. p \in Pipes /\ key[p] # -1 /\ conn[p] \in 1..MaxConn
    BY DestinationIs DEF InUse, IInv, TypeInv
  <2>2. h.req \in Requests /\ Append(wire[conn[p]], h.req) \in Seq(Requests)
    <3>1. h.req \in Requests /\ wire[conn[p]] \in Seq(Requests)
      BY <2>1 DEF IInv, TypeInv
    <3>2. QED
      BY <3>1, AppendProperties
  <2>3. TypeInv'
    BY <1>1, <1>6, <2>1, <2>2 DEF IInv, TypeInv
  <2>4. PipesInv'
    BY <1>1, <1>2, <1>6, <2>1 DEF IInv, PipesInv, TypeInv
  <2>5. QED
    BY <1>2, <1>3, <2>3, <2>4 DEF IInv
<1>7. QED
  BY <1>4, <1>5, <1>6

(* A header received is kept with the connection it came by.               *)
LEMMA RecvEffect ==
  ASSUME IInv, Recv
  PROVE  \E p \in InUse :
            /\ offered' = [offered EXCEPT ![p] = 0]
            /\ \/ Received(p) = {}
               \/ offered[p] \in Requests /\ Received(p) = {Header(key[p], offered[p], conn[p])}
            /\ proto \in Cooked => backtrace' = Received(p)
            /\ proto \notin Cooked => backtrace' = backtrace \cup Received(p)
            /\ UNCHANGED <<proto, nextKey, outpipes, key, outFlag, outIdle, failed, conn,
                           made, wire>>
<1>1. PICK p \in Pipes :
          /\ XRepRecv(p)
          /\ proto \in Cooked => backtrace' = Received(p)
          /\ proto \notin Cooked => backtrace' = backtrace \cup Received(p)
  BY DEF Recv, RepRecv, RespondentRecv, XRespondentRecv, Cooked
<1>2. offered[p] # 0 /\ offered' = [offered EXCEPT ![p] = 0]
  BY <1>1 DEF XRepRecv
<1>3. p \in InUse
  BY <1>2 DEF InUse, IInv, PipesInv
<1>4. \/ Received(p) = {}
      \/ offered[p] \in Requests /\ Received(p) = {Header(key[p], offered[p], conn[p])}
  BY <1>2 DEF Received, IInv, TypeInv
<1>5. UNCHANGED <<proto, nextKey, outpipes, key, outFlag, outIdle, failed, conn, made, wire>>
  BY DEF Recv
<1>6. QED
  BY <1>1, <1>2, <1>3, <1>4, <1>5

LEMMA ConnOf ==
  ASSUME IInv, NEW p \in InUse
  PROVE  p \in Pipes /\ key[p] \in KeySpace /\ conn[p] \in 1..made /\ conn[p] \in 1..MaxConn
<1>1. p \in Pipes /\ key[p] \in KeySpace
  BY DEF InUse, IInv, TypeInv
<1>2. conn[p] \in 1..made
  BY DEF IInv, KeysInv, KeyedFrom
<1>3. made \in 0..MaxConn /\ MaxConn \in Nat
  BY BoundsAssumption DEF IInv, TypeInv
<1>4. QED
  BY <1>1, <1>2, <1>3

LEMMA RecvStep ==
  ASSUME IInv, Recv
  PROVE  IInv'
<1>1. PICK p \in InUse :
            /\ offered' = [offered EXCEPT ![p] = 0]
            /\ \/ Received(p) = {}
               \/ offered[p] \in Requests /\ Received(p) = {Header(key[p], offered[p], conn[p])}
            /\ proto \in Cooked => backtrace' = Received(p)
            /\ proto \notin Cooked => backtrace' = backtrace \cup Received(p)
            /\ UNCHANGED <<proto, nextKey, outpipes, key, outFlag, outIdle, failed, conn,
                           made, wire>>
  BY RecvEffect, Zenon
<1>2. p \in Pipes /\ key[p] \in KeySpace /\ conn[p] \in 1..MaxConn
  BY ConnOf
<1>3. \A h \in Received(p) : /\ h.key = key[p] /\ h.from = conn[p]
                             /\ h \in [key : KeySpace, req : Requests, from : 1..MaxConn]
  BY <1>1, <1>2 DEF Header
<1>4. \A h \in backtrace' : h \in backtrace \/ h \in Received(p)
  BY <1>1
<1>5. KeysInv' /\ HashInv' /\ InUse' = InUse
  <2>1. \A h \in backtrace' : \/ h \in backtrace
                              \/ \E q \in InUse : h.from = conn[q] /\ h.key = key[q]
    BY <1>3, <1>4
  <2>2. UNCHANGED <<nextKey, outpipes, key, conn, made>>
    BY <1>1
  <2>3. QED
    BY <2>1, <2>2, SameTable
<1>6. PipesInv'
  BY <1>1, <1>2, <1>5 DEF IInv, PipesInv, TypeInv
<1>7. TypeInv'
  <2>1. offered' \in [Pipes -> Requests \cup {0, Malformed}]
    BY <1>1 DEF IInv, TypeInv
  <2>2. backtrace' \subseteq [key : KeySpace, req : Requests, from : 1..MaxConn]
    BY <1>3, <1>4 DEF IInv, TypeInv
  <2>3. QED
    BY <1>1, <2>1, <2>2 DEF IInv, TypeInv
<1>8. BacktraceInv'
  BY <1>1 DEF BacktraceInv
<1>9. NoAbort'
  BY <1>1 DEF IInv, NoAbort
<1>10. QED
  BY <1>5, <1>6, <1>7, <1>8, <1>9 DEF IInv

(* What is received or dropped without a header leaves fewer of them.      *)
LEMMA ForgetStep ==
  ASSUME IInv, RecvNothing \/ DeviceDrops
  PROVE  IInv' /\ backtrace' \subseteq backtrace
<1>1. /\ backtrace' \subseteq backtrace
      /\ UNCHANGED <<proto, nextKey, outpipes, key, outFlag, outIdle, offered, failed,
                     conn, made, wire>>
  BY DEF RecvNothing, DeviceDrops
<1>2. KeysInv' /\ HashInv' /\ InUse' = InUse
  BY <1>1, SameTable
<1>3. TypeInv' /\ PipesInv'
  BY <1>1, <1>2 DEF IInv, TypeInv, PipesInv
<1>4. BacktraceInv' /\ NoAbort'
  BY <1>1 DEF IInv, BacktraceInv, NoAbort
<1>5. QED
  BY <1>1, <1>2, <1>3, <1>4 DEF IInv

LEMMA StepInv == ASSUME IInv, [Next]_vars PROVE IInv'
<1>1. CASE UNCHANGED vars
  <2>1. KeysInv' /\ HashInv' /\ InUse' = InUse
    BY <1>1, SameTable DEF vars
  <2>2. QED
    BY <1>1, <2>1 DEF vars, IInv, TypeInv, PipesInv, BacktraceInv, NoAbort
<1>2. CASE Next
  BY <1>2, AddStep, RmStep, OutStep, InStep, SendStep, RecvStep, ForgetStep DEF Next
<1>3. QED
  BY <1>1, <1>2

(* The invariant holds for any number of pipes, connections and replies,   *)
(* any size of the key space and of the hash map, and any hash function.   *)
THEOREM Invariant == Spec => []IInv
<1>1. Init => IInv
  BY InitInv
<1>2. IInv /\ [Next]_vars => IInv'
  BY StepInv
<1>3. QED
  BY <1>1, <1>2, PTL DEF Spec

(* hash.c finds every connected pipe under its key and nothing else,       *)
(* however often it was re-hashed, no key is handed out twice while the    *)
(* counter goes once round (hash.c:101), and no busy pipe is sent to       *)
(* (pipe.c:186).                                                           *)
THEOREM StaysConsistent == Spec => []HashConsistent
<1>1. IInv => HashConsistent
  BY InvHashConsistent
<1>2. QED
  BY <1>1, Invariant, PTL

-----------------------------------------------------------------------------
(* The socket implements ReplyService.                                     *)

Ready == {conn[p] : p \in {q \in Pipes : outFlag[q]}}
Held  == {[peer |-> h.from, req |-> h.req] : h \in backtrace}

LEMMA InitService == Init => Service!Init
<1> SUFFICES ASSUME Init PROVE Service!Init
  OBVIOUS
<1>1. Ready = {} /\ Held = {} /\ wire = [c \in 1..MaxConn |-> << >>]
  BY DEF Init, Ready, Held
<1>2. QED
  BY <1>1 DEF Service!Init, Ready, Held

(* Only pipes in use are ready, each with a connection of its own.         *)
LEMMA ReadyPipes ==
  ASSUME IInv
  PROVE  /\ \A p \in Pipes : outFlag[p] => p \in InUse
         /\ \A p \in InUse : conn[p] \in Ready <=> outFlag[p]
<1>1. \A p \in Pipes : outFlag[p] => p \in InUse
  BY DEF IInv, PipesInv, InUse
<1>2. \A p \in InUse, q \in InUse : conn[p] = conn[q] => p = q
  BY DEF IInv, PipesInv
<1>3. InUse \subseteq Pipes
  BY DEF InUse
<1>4. QED
  BY <1>1, <1>2, <1>3 DEF Ready

(* Pipes become ready and cease to be, each for its connection.            *)
LEMMA ReadySteps ==
  ASSUME IInv, NEW p \in Pipes, Add(p) \/ Rm(p) \/ Out(p) \/ In(p)
  PROVE  /\ Held' = Held /\ wire' = wire
         /\ \/ Ready' = Ready
            \/ \E c \in 1..MaxConn : Ready' \in {Ready \cup {c}, Ready \ {c}}
<1>1. Held' = Held /\ wire' = wire
  BY DEF Add, Rm, Out, In, Held
<1>2. CASE In(p)
  <2>1. UNCHANGED <<outFlag, conn>>
    BY <1>2 DEF In
  <2>2. QED
    BY <1>1, <2>1 DEF Ready
<1>3. CASE Out(p)
  <2>1. p \in InUse /\ outFlag' = [outFlag EXCEPT ![p] = TRUE] /\ conn' = conn
    BY <1>3 DEF Out, XRepOut, XRespondentOut, InUse
  <2>2. \A q \in Pipes : outFlag'[q] <=> outFlag[q] \/ q = p
    BY <2>1 DEF IInv, TypeInv
  <2>3. Ready' = Ready \cup {conn[p]}
    BY <2>1, <2>2 DEF Ready
  <2>4. conn[p] \in 1..MaxConn
    BY <2>1, ConnOf
  <2>5. QED
    BY <1>1, <2>3, <2>4
<1>4. CASE Rm(p)
  <2>1. /\ p \in InUse /\ outFlag' = [outFlag EXCEPT ![p] = FALSE]
        /\ conn' = [conn EXCEPT ![p] = 0]
    BY <1>4 DEF Rm, XRepRm, XRespondentRm, InUse
  <2>2. \A q \in Pipes : outFlag'[q] <=> outFlag[q] /\ q # p
    BY <2>1 DEF IInv, TypeInv
  <2>3. \A q \in Pipes : q # p => conn'[q] = conn[q]
    BY <2>1 DEF IInv, TypeInv
  <2>4. \A q \in Pipes : outFlag[q] /\ conn[q] = conn[p] => q = p
    BY <2>1, ReadyPipes DEF IInv, PipesInv
  <2>5. Ready' = Ready \ {conn[p]}
    BY <2>2, <2>3, <2>4 DEF Ready
  <2>6. conn[p] \in 1..MaxConn
    BY <2>1, ConnOf
  <2>7. QED
    BY <1>1, <2>5, <2>6
<1>5. CASE Add(p)
  <2>1. /\ key[p] = -1 /\ conn' = [conn EXCEPT ![p] = made + 1] /\ made + 1 \in 1..MaxConn
        /\ failed' = "none"
    <3>1. key[p] = -1 /\ conn' = [conn EXCEPT ![p] = made + 1] /\ made < MaxConn
      BY <1>5 DEF Add
    <3>2. made + 1 \in 1..MaxConn
      BY <3>1, BoundsAssumption DEF IInv, TypeInv
    <3>3. failed' = "none"
      BY <1>5, AddStep DEF IInv, NoAbort
    <3>4. QED
      BY <3>1, <3>2, <3>3
  <2>2. outFlag' = [outFlag EXCEPT ![p] = TRUE]
    BY <1>5, <2>1 DEF Add, XRepAdd, XRespondentAdd
  <2>3. ~outFlag[p]
    BY <2>1 DEF IInv, PipesInv
  <2>4. \A q \in Pipes : outFlag'[q] <=> outFlag[q] \/ q = p
    BY <2>2 DEF IInv, TypeInv
  <2>5. conn'[p] = made + 1 /\ \A q \in Pipes : q # p => conn'[q] = conn[q]
    BY <2>1 DEF IInv, TypeInv
  <2>6. Ready' = Ready \cup {made + 1}
    BY <2>3, <2>4, <2>5 DEF Ready
  <2>7. QED
    BY <1>1, <2>1, <2>6
<1>6. QED
  BY <1>2, <1>3, <1>4, <1>5

(* A reply is written to the connection of its request, if that is ready.  *)
LEMMA RepliesAreHeld ==
  ASSUME IInv, Send
  PROVE  \E h \in Held :
            /\ Held' \in {Held, Held \ {h}}
            /\ IF h.peer \in Ready
               THEN /\ wire' = [wire EXCEPT ![h.peer] = Append(@, h.req)]
                    /\ Ready' \in {Ready, Ready \ {h.peer}}
               ELSE wire' = wire /\ Ready' = Ready
<1>1. conn' = conn
  BY SendEffect
<1>2. PICK b \in backtrace :
         /\ \/ proto \in Cooked /\ backtrace' = {}
            \/ backtrace' = backtrace
         /\ \/ Destination(b) = {} /\ UNCHANGED <<outFlag, outIdle, wire>>
            \/ \E p \in Destination(b), release \in BOOLEAN :
                 /\ outIdle' = [outIdle EXCEPT ![p] = ~release]
                 /\ outFlag' = [outFlag EXCEPT ![p] = ~release]
                 /\ wire' = [wire EXCEPT ![conn[p]] = Append(@, b.req)]
  BY SendEffect
<1> DEFINE h == [peer |-> b.from, req |-> b.req]
<1>3. h \in Held
  BY DEF Held
<1>4. Held' \in {Held, Held \ {h}}
  <2>1. CASE backtrace' = backtrace
    BY <2>1 DEF Held
  <2>2. CASE proto \in Cooked /\ backtrace' = {}
    <3>1. \A g \in backtrace : g = b
      BY <2>2 DEF IInv, BacktraceInv
    <3>2. Held = {h} /\ Held' = {}
      BY <2>2, <3>1 DEF Held
    <3>3. QED
      BY <3>2
  <2>3. QED
    BY <1>2, <2>1, <2>2
<1>5. Destination(b) = {p \in InUse : conn[p] = b.from /\ outFlag[p]}
  BY DestinationIs
<1>6. CASE Destination(b) = {}
  <2>1. b.from \notin Ready
    BY <1>5, <1>6, ReadyPipes DEF Ready
  <2>2. UNCHANGED <<outFlag, wire>>
    BY <1>2, <1>6
  <2>3. wire' = wire /\ Ready' = Ready
    BY <1>1, <2>2 DEF Ready
  <2>4. QED
    BY <1>3, <1>4, <2>1, <2>3
<1>7. CASE Destination(b) # {}
  <2>1. PICK p \in Destination(b), release \in BOOLEAN :
            /\ outFlag' = [outFlag EXCEPT ![p] = ~release]
            /\ wire' = [wire EXCEPT ![conn[p]] = Append(@, b.req)]
    BY <1>2, <1>7
  <2>2. p \in InUse /\ p \in Pipes /\ conn[p] = b.from /\ outFlag[p] /\ b.from \in Ready
    BY <1>5, ReadyPipes DEF InUse
  <2>3. wire' = [wire EXCEPT ![b.from] = Append(@, b.req)]
    BY <2>1, <2>2
  <2>4. Ready' \in {Ready, Ready \ {b.from}}
    <3>1. CASE release
      <4>1. \A q \in Pipes : outFlag'[q] <=> outFlag[q] /\ q # p
        BY <2>1, <2>2, <3>1 DEF IInv, TypeInv
      <4>2. \A q \in Pipes : outFlag[q] /\ conn[q] = b.from => q = p
        BY <2>2, ReadyPipes DEF IInv, PipesInv
      <4>3. Ready' = Ready \ {b.from}
        BY <1>1, <2>2, <4>1, <4>2 DEF Ready
      <4>4. QED
        BY <4>3
    <3>2. CASE ~release
      <4>1. \A q \in Pipes : outFlag'[q] <=> outFlag[q]
        BY <2>1, <2>2, <3>2 DEF IInv, TypeInv
      <4>2. Ready' = Ready
        BY <1>1, <4>1 DEF Ready
      <4>3. QED
        BY <4>2
    <3>3. QED
      BY <3>1, <3>2
  <2>5. QED
    BY <1>3, <1>4, <2>2, <2>3, <2>4
<1>8. QED
  BY <1>6, <1>7

(* A request is held together with, or instead of, those before it.        *)
LEMMA ReceiveService ==
  ASSUME IInv, Recv
  PROVE  /\ wire' = wire /\ Ready' = Ready
         /\ \/ Held' \subseteq Held
            \/ \E c \in 1..MaxConn, r \in Requests :
                  Held' \in {{[peer |-> c, req |-> r]}, Held \cup {[peer |-> c, req |-> r]}}
<1>1. PICK p \in InUse :
            /\ \/ Received(p) = {}
               \/ offered[p] \in Requests /\ Received(p) = {Header(key[p], offered[p], conn[p])}
            /\ proto \in Cooked => backtrace' = Received(p)
            /\ proto \notin Cooked => backtrace' = backtrace \cup Received(p)
            /\ UNCHANGED <<outFlag, conn, wire>>
  BY RecvEffect, Zenon
<1>2. wire' = wire /\ Ready' = Ready
  BY <1>1 DEF Ready
<1>3. CASE Received(p) = {}
  BY <1>1, <1>2, <1>3 DEF Held
<1>4. CASE /\ offered[p] \in Requests
           /\ Received(p) = {Header(key[p], offered[p], conn[p])}
  <2> DEFINE hd == Header(key[p], offered[p], conn[p])
             g == [peer |-> conn[p], req |-> offered[p]]
  <2>1. hd.from = conn[p] /\ hd.req = offered[p]
    BY DEF Header
  <2> HIDE DEF hd
  <2>2. backtrace' = {hd} \/ backtrace' = backtrace \cup {hd}
    BY <1>1, <1>4 DEF hd
  <2>3. Held' = {g} \/ Held' = Held \cup {g}
    BY <2>1, <2>2 DEF Held
  <2>4. conn[p] \in 1..MaxConn
    BY ConnOf
  <2>5. QED
    BY <1>2, <1>4, <2>3, <2>4
<1>5. QED
  BY <1>1, <1>3, <1>4

LEMMA StepService ==
  ASSUME IInv, [Next]_vars
  PROVE  [Service!Next]_(Service!vars)
<1>1. CASE UNCHANGED vars
  BY <1>1 DEF vars, Service!vars
<1>2. ASSUME NEW p \in Pipes, Add(p) \/ Rm(p) \/ Out(p) \/ In(p)
      PROVE  [Service!Next]_(Service!vars)
  BY <1>2, ReadySteps DEF Service!Next, Service!Ready, Service!vars, Ready, Held
<1>3. CASE Send
  BY <1>3, RepliesAreHeld DEF Service!Next, Service!Reply, Ready, Held
<1>4. CASE Recv
  BY <1>4, ReceiveService DEF Service!Next, Service!Receive, Service!Forget, Ready, Held
<1>5. CASE RecvNothing \/ DeviceDrops
  <2>1. Held' \subseteq Held
    BY <1>5, ForgetStep DEF Held
  <2>2. wire' = wire /\ Ready' = Ready
    BY <1>5 DEF RecvNothing, DeviceDrops, Ready
  <2>3. QED
    BY <2>1, <2>2 DEF Service!Next, Service!Forget, Ready, Held
<1>6. QED
  BY <1>1, <1>2, <1>3, <1>4, <1>5 DEF Next

(* rep.c and respondent.c, cooked or raw, keep the promise of ReplyService:*)
(* a reply reaches the connection its request came by, or nobody; never    *)
(* the peer that took the place, and the memory, of the one that left.     *)
THEOREM AnswersCorrectly == Spec => ImplementsService
<1>1. Init => Service!Init
  BY InitService
<1>2. IInv /\ [Next]_vars => [Service!Next]_(Service!vars)
  BY StepService
<1>3. QED
  BY <1>1, <1>2, Invariant, PTL DEF Spec, ImplementsService, Service!Spec

-----------------------------------------------------------------------------
(* The device, which moves messages between two such sockets.              *)

Msgs == Sockets \X Nat

DeviceTypeInv ==
    /\ in \in [Sockets -> Seq(Msgs)] /\ arrived \in [Sockets -> Nat]
    /\ got \in [Sockets -> Seq(Msgs)] /\ sent \in [Sockets -> Seq(Msgs)]
    /\ held \in Seq(Msgs)

WayRight == way \in IF mode = "loopback" THEN {<<1, 1>>, <<2, 2>>}
                   ELSE {<<1, 2>>, <<2, 1>>}

(* The thread holds a message only between its two calls, only a device    *)
(* of two ways polls, and a direction leads to the opposite socket.        *)
ThreadInv ==
    /\ pc \in {"entry", "poll", "recv"} => held = <<>>
    /\ pc = "entry" => /\ mode = None
                       /\ \A s \in Sockets : got[s] = <<>> /\ sent[s] = <<>>
    /\ pc = "poll" => mode = "twoway"
    /\ WayRight

DeviceInv == DeviceTypeInv /\ ThreadInv /\ Relayed

-----------------------------------------------------------------------------
(* With nothing in the hands of the thread the two sides are equal.        *)
LEMMA NothingHeld ==
  ASSUME DeviceTypeInv, held = <<>>
  PROVE  Relayed <=> \A s \in Sockets : got[s] = sent[Opposite(s)]
<1>1. \A s \in Sockets : Opposite(s) \in Sockets
  BY DEF Opposite, Other, Sockets
<1>2. \A s \in Sockets : sent[Opposite(s)] \o <<>> = sent[Opposite(s)]
  BY <1>1, ConcatEmptySeq DEF DeviceTypeInv
<1>3. QED
  BY <1>2 DEF Relayed

LEMMA NothingHeldNext ==
  ASSUME DeviceTypeInv', held' = <<>>
  PROVE  Relayed' <=> \A s \in Sockets : got'[s] = sent'[Opposite(s)']
<1>1. \A s \in Sockets : Opposite(s)' \in Sockets
  BY DEF Opposite, Other, Sockets
<1>2. \A s \in Sockets : sent'[Opposite(s)'] \o <<>> = sent'[Opposite(s)']
  BY <1>1, ConcatEmptySeq DEF DeviceTypeInv
<1>3. QED
  BY <1>2 DEF Relayed

(* The sockets that grid_device_entry settles on are there.                *)
LEMMA EntryWay ==
  ASSUME Verdict \in Modes
  PROVE  /\ \E x \in Sockets : ~Missing(x)
         /\ Verdict # "loopback" => \E x \in Sockets : ~Missing(x) /\ end[x].rcv
<1>1. \/ ~Missing(1) \/ ~Missing(2)
  BY DEF Verdict, Modes
<1>2. ASSUME Verdict # "loopback"
      PROVE  \E x \in Sockets : ~Missing(x) /\ end[x].rcv
  <2>1. ~Missing(1) /\ ~Missing(2) /\ Verdict = Kind(end[1], end[2])
    BY <1>1, <1>2 DEF Verdict, Modes, LoopbackKind
  <2>2. end[1].rcv \/ end[2].rcv
    BY <1>2, <2>1 DEF Kind, Modes
  <2>3. QED
    BY <2>1, <2>2 DEF Sockets
<1>3. QED
  BY <1>1, <1>2 DEF Sockets

-----------------------------------------------------------------------------
LEMMA DeviceInitInv == DeviceInit => DeviceInv
<1> SUFFICES ASSUME DeviceInit PROVE DeviceInv
  OBVIOUS
<1>1. DeviceTypeInv
  BY DEF DeviceInit, DeviceTypeInv, Sockets
<1>2. ThreadInv
  BY DEF DeviceInit, ThreadInv, WayRight, None, Sockets
<1>3. \A s \in Sockets : Opposite(s) \in Sockets
  BY DEF Opposite, Other, Sockets
<1>4. \A s \in Sockets : got[s] = sent[Opposite(s)]
  BY <1>3 DEF DeviceInit
<1>5. QED
  BY <1>1, <1>2, <1>4, NothingHeld DEF DeviceInit, DeviceInv

(* Steps that move no message and leave the thread nothing to hold.        *)
LEMMA QuietStep ==
  ASSUME DeviceInv, DeviceTypeInv', ThreadInv', held = <<>>,
         UNCHANGED <<got, sent, held, mode>>
  PROVE  DeviceInv'
<1>1. \A s \in Sockets : got[s] = sent[Opposite(s)]
  BY NothingHeld DEF DeviceInv
<1>2. \A s \in Sockets : got'[s] = sent'[Opposite(s)']
  BY <1>1 DEF Opposite
<1>3. QED
  BY <1>2, NothingHeldNext DEF DeviceInv

LEMMA EntryStep == ASSUME DeviceInv, Entry PROVE DeviceInv'
<1>1. /\ pc = "entry" /\ held = <<>> /\ mode = None
      /\ UNCHANGED <<in, arrived, got, sent, held>>
      /\ \A s \in Sockets : got[s] = <<>> /\ sent[s] = <<>>
  BY DEF Entry, sockets, DeviceInv, ThreadInv
<1>2. WayRight'
  <2>1. CASE Verdict \in Modes
    <3> DEFINE lone == CHOOSE x \in Sockets : ~Missing(x)
               s == CHOOSE x \in Sockets : ~Missing(x) /\ end[x].rcv
    <3>1. lone \in Sockets /\ (Verdict # "loopback" => s \in Sockets)
      BY <2>1, EntryWay
    <3>2. /\ mode' = Verdict
          /\ way' = IF Verdict = "loopback" THEN <<lone, lone>> ELSE <<s, Other(s)>>
      BY <2>1 DEF Entry
    <3> HIDE DEF lone, s
    <3>3. QED
      BY <2>1, <3>1, <3>2 DEF WayRight, Other, Sockets
  <2>2. CASE Verdict \notin Modes
    <3>1. UNCHANGED <<mode, way>>
      BY <2>2 DEF Entry
    <3>2. QED
      BY <3>1 DEF DeviceInv, ThreadInv, WayRight
  <2>3. QED
    BY <2>1, <2>2
<1>3. DeviceTypeInv'
  BY <1>1, <1>2 DEF DeviceInv, DeviceTypeInv
<1>4. pc' # "entry" /\ (pc' = "poll" => mode' = "twoway")
  BY DEF Entry, Return
<1>5. ThreadInv'
  BY <1>1, <1>2, <1>4 DEF ThreadInv
<1>6. \A s \in Sockets : got'[s] = sent'[Opposite(s)']
  BY <1>1 DEF Opposite, Other, Sockets
<1>7. QED
  BY <1>1, <1>3, <1>5, <1>6, NothingHeldNext DEF DeviceInv

(* grid_device_twoway polls, or finds a direction not ready.               *)
LEMMA TurnKeepsWay ==
  ASSUME DeviceInv, Turn, mode' = mode
  PROVE  /\ WayRight'
         /\ pc' \in {"poll", "recv"} /\ (pc' = "poll" => mode = "twoway")
  BY DEF Turn, DeviceInv, ThreadInv, WayRight

LEMMA PollStep == ASSUME DeviceInv, Poll \/ Skip PROVE DeviceInv'
<1>1. /\ pc \in {"poll", "recv"} /\ held = <<>>
      /\ UNCHANGED <<in, arrived, mode, got, sent, held>>
  BY DEF Poll, Skip, sockets, DeviceInv, ThreadInv
<1>2. /\ WayRight'
      /\ pc' \in {"poll", "recv"} /\ (pc' = "poll" => mode' = "twoway")
  <2>1. CASE Skip
    BY <1>1, <2>1, TurnKeepsWay DEF Skip
  <2>2. CASE Poll
    BY <1>1, <2>2 DEF Poll, DeviceInv, ThreadInv, WayRight
  <2>3. QED
    BY <2>1, <2>2
<1>3. DeviceTypeInv'
  BY <1>1, <1>2 DEF DeviceInv, DeviceTypeInv
<1>4. ThreadInv'
  BY <1>1, <1>2 DEF ThreadInv
<1>5. QED
  BY <1>1, <1>3, <1>4, QuietStep

(* grid_device_mvmsg: the message received is the one in hand ...          *)
LEMMA ReceiveStep == ASSUME DeviceInv, Receive PROVE DeviceInv'
<1>1. /\ pc = "recv" /\ held = <<>> /\ pc' \in {"send", "over"}
      /\ UNCHANGED <<arrived, mode, way, sent>>
  BY DEF Receive, Return, DeviceInv, ThreadInv
<1>2. WayRight'
  BY <1>1 DEF DeviceInv, ThreadInv, WayRight
<1>3. CASE UNCHANGED <<in, got, held>>
  <2>1. DeviceTypeInv' /\ ThreadInv'
    BY <1>1, <1>2, <1>3 DEF DeviceInv, DeviceTypeInv, ThreadInv
  <2>2. QED
    BY <1>1, <1>3, <2>1, QuietStep
<1>4. CASE /\ in[From] # <<>>
           /\ in' = [in EXCEPT ![From] = Tail(@)]
           /\ got' = [got EXCEPT ![From] = Append(@, Head(in[From]))]
           /\ held' = <<Head(in[From])>>
  <2> DEFINE m == Head(in[From])
  <2>1. From \in Sockets /\ in[From] \in Seq(Msgs) /\ in[From] # <<>>
    BY <1>4 DEF From, Sockets, DeviceInv, DeviceTypeInv, ThreadInv, WayRight
  <2>2. m \in Msgs /\ Tail(in[From]) \in Seq(Msgs)
    BY <2>1, HeadTailProperties
  <2>3. /\ in' = [in EXCEPT ![From] = Tail(@)] /\ held' = <<m>>
        /\ got' = [got EXCEPT ![From] = Append(@, m)]
    BY <1>4
  <2> HIDE DEF m
  <2>4. in' \in [Sockets -> Seq(Msgs)] /\ <<m>> \in Seq(Msgs)
    BY <2>1, <2>2, <2>3 DEF DeviceInv, DeviceTypeInv
  <2>5. \A s \in Sockets : Append(got[s], m) \in Seq(Msgs)
    BY <2>2, AppendProperties DEF DeviceInv, DeviceTypeInv
  <2>6. DeviceTypeInv'
    BY <1>1, <2>1, <2>3, <2>4, <2>5 DEF DeviceInv, DeviceTypeInv
  <2>7. ThreadInv'
    BY <1>1, <1>2, <1>4 DEF Receive, ThreadInv, DeviceInv
  <2>8. \A s \in Sockets : got[s] = sent[Opposite(s)]
    BY <1>1, NothingHeld DEF DeviceInv
  <2>9. Relayed'
    <3> SUFFICES ASSUME NEW s \in Sockets
                 PROVE  got'[s] = sent'[Opposite(s)']
                                      \o (IF way'[1] = s THEN held' ELSE <<>>)
      BY DEF Relayed
    <3>1. /\ Opposite(s)' = Opposite(s) /\ Opposite(s) \in Sockets
          /\ sent' = sent /\ way' = way
      BY <1>1 DEF Opposite, Other, Sockets
    <3>2. got[s] = sent[Opposite(s)] /\ sent[Opposite(s)] \in Seq(Msgs)
      BY <2>8, <3>1 DEF DeviceInv, DeviceTypeInv
    <3>3. CASE s = From
      <4>1. got'[s] = Append(got[s], m)
        BY <2>1, <2>3, <3>3 DEF DeviceInv, DeviceTypeInv
      <4>2. Append(sent[Opposite(s)], m) = sent[Opposite(s)] \o <<m>>
        BY <2>2, <3>2, AppendIsConcat
      <4>3. QED
        BY <2>3, <3>1, <3>2, <3>3, <4>1, <4>2 DEF From
    <3>4. CASE s # From
      <4>1. got'[s] = got[s]
        BY <2>1, <2>3, <3>4 DEF DeviceInv, DeviceTypeInv
      <4>2. sent[Opposite(s)] \o <<>> = sent[Opposite(s)]
        BY <3>2, ConcatEmptySeq
      <4>3. QED
        BY <3>1, <3>2, <3>4, <4>1, <4>2 DEF From
    <3>5. QED
      BY <3>3, <3>4
  <2>10. QED
    BY <2>6, <2>7, <2>9 DEF DeviceInv
<1>5. QED
  BY <1>3, <1>4 DEF Receive

(* ... and it goes to the opposite socket, or is lost with the device.     *)
LEMMA RelayStep == ASSUME DeviceInv, PassOn PROVE DeviceInv'
<1>1. /\ pc = "send" /\ UNCHANGED <<in, arrived, mode, got>>
  BY DEF PassOn
<1>2. CASE pc' = "over" /\ UNCHANGED <<sent, held, way>>
  BY <1>1, <1>2 DEF DeviceInv, DeviceTypeInv, ThreadInv, WayRight, Relayed, Opposite
<1>3. CASE sent' = Deliver /\ held' = <<>> /\ Turn
  <2>1. WayRight' /\ pc' \in {"poll", "recv"} /\ (pc' = "poll" => mode' = "twoway")
    BY <1>1, <1>3, TurnKeepsWay
  <2>2. From \in Sockets /\ To \in Sockets /\ To = Opposite(From)
    BY DEF From, To, Sockets, DeviceInv, ThreadInv, WayRight, Opposite, Other
  <2>3. sent[To] \o held \in Seq(Msgs) /\ <<>> \in Seq(Msgs)
    BY <2>2, ConcatProperties DEF DeviceInv, DeviceTypeInv
  <2>4. sent' = [sent EXCEPT ![To] = @ \o held] /\ sent' \in [Sockets -> Seq(Msgs)]
    BY <1>3, <2>2, <2>3 DEF Deliver, DeviceInv, DeviceTypeInv
  <2>5. DeviceTypeInv'
    BY <1>1, <1>3, <2>3, <2>4 DEF DeviceInv, DeviceTypeInv
  <2>6. ThreadInv'
    BY <1>3, <2>1 DEF ThreadInv
  <2>7. \A s \in Sockets : got'[s] = sent'[Opposite(s)']
    <3> SUFFICES ASSUME NEW s \in Sockets PROVE got[s] = sent'[Opposite(s)]
      BY <1>1 DEF Opposite
    <3>1. Opposite(s) \in Sockets /\ (s # From => Opposite(s) # To)
      BY <2>2 DEF Opposite, Other, Sockets
    <3>2. got[s] = sent[Opposite(s)] \o (IF From = s THEN held ELSE <<>>)
      BY DEF DeviceInv, Relayed, From
    <3>3. CASE s = From
      BY <2>2, <2>4, <3>2, <3>3 DEF DeviceInv, DeviceTypeInv
    <3>4. CASE s # From
      <4>1. sent[Opposite(s)] \o <<>> = sent[Opposite(s)]
        BY <3>1, ConcatEmptySeq DEF DeviceInv, DeviceTypeInv
      <4>2. sent'[Opposite(s)] = sent[Opposite(s)]
        BY <2>4, <3>1, <3>4 DEF DeviceInv, DeviceTypeInv
      <4>3. QED
        BY <3>2, <3>4, <4>1, <4>2
    <3>5. QED
      BY <3>3, <3>4
  <2>8. QED
    BY <1>3, <2>5, <2>6, <2>7, NothingHeldNext DEF DeviceInv
<1>4. QED
  BY <1>2, <1>3 DEF PassOn, Return

(* The thread is interrupted, or only the sockets change.                  *)
LEMMA OutsideStep ==
  ASSUME DeviceInv,
         \/ Interrupt \/ Term
         \/ \E s \in Sockets : Arrive(s) \/ Drain(s) \/ Leave(s)
  PROVE  DeviceInv'
<1>1. UNCHANGED <<mode, way, got, sent, held>> /\ pc' \in {pc, "over"}
  BY DEF Interrupt, Return, Term, Arrive, Drain, Leave, device
<1>2. in' \in [Sockets -> Seq(Msgs)] /\ arrived' \in [Sockets -> Nat]
  <2>1. CASE Interrupt \/ Term
    BY <2>1 DEF Interrupt, Term, sockets, DeviceInv, DeviceTypeInv
  <2>2. ASSUME NEW s \in Sockets, Arrive(s)
        PROVE  in' \in [Sockets -> Seq(Msgs)] /\ arrived' \in [Sockets -> Nat]
    <3>1. /\ arrived' = [arrived EXCEPT ![s] = @ + 1]
          /\ in' = [in EXCEPT ![s] = Append(@, <<s, arrived'[s]>>)]
      BY <2>2 DEF Arrive
    <3>2. arrived' \in [Sockets -> Nat] /\ <<s, arrived'[s]>> \in Msgs
      BY <3>1 DEF DeviceInv, DeviceTypeInv, Msgs
    <3>3. Append(in[s], <<s, arrived'[s]>>) \in Seq(Msgs)
      BY <3>2, AppendProperties DEF DeviceInv, DeviceTypeInv
    <3>4. QED
      BY <3>1, <3>2, <3>3 DEF DeviceInv, DeviceTypeInv
  <2>3. ASSUME NEW s \in Sockets, Drain(s) \/ Leave(s)
        PROVE  in' \in [Sockets -> Seq(Msgs)] /\ arrived' \in [Sockets -> Nat]
    <3>1. <<>> \in Seq(Msgs)
      OBVIOUS
    <3>2. QED
      BY <2>3, <3>1, ZenonT(60) DEF Drain, Leave, DeviceInv, DeviceTypeInv
  <2>4. QED
    BY <2>1, <2>2, <2>3
<1>3. QED
  BY <1>1, <1>2 DEF DeviceInv, DeviceTypeInv, ThreadInv, WayRight, Relayed, Opposite

LEMMA DeviceStepInv == ASSUME DeviceInv, [DeviceNext]_deviceVars PROVE DeviceInv'
<1>1. CASE UNCHANGED deviceVars
  BY <1>1 DEF deviceVars, DeviceInv, DeviceTypeInv, ThreadInv, WayRight, Relayed, Opposite
<1>2. CASE DeviceNext
  BY <1>2, EntryStep, PollStep, ReceiveStep, RelayStep, OutsideStep DEF DeviceNext, Thread
<1>3. QED
  BY <1>1, <1>2

(* device.c passes every message it receives to the opposite socket, once  *)
(* and in order, for any number of messages, whatever peers leave and      *)
(* whenever grid_term or a signal ends it.                                 *)
THEOREM DeviceRelays == DeviceSpec => []Relayed
<1>1. DeviceInit => DeviceInv
  BY DeviceInitInv
<1>2. DeviceInv /\ [DeviceNext]_deviceVars => DeviceInv'
  BY DeviceStepInv
<1>3. DeviceInv => Relayed
  BY DEF DeviceInv
<1>4. QED
  BY <1>1, <1>2, <1>3, PTL DEF DeviceSpec

-----------------------------------------------------------------------------
(* What the caller passed, and what the device may have come to.           *)
EndInv == /\ end \in [Sockets -> Open \cup Absent]
          /\ result \in Verdicts \cup Documented

(* The checks of the protocols leave a device of two ways or of one: two   *)
(* sockets whose directions fit have one in common.                        *)
LEMMA EntryHasVerdict ==
  ASSUME EndInv
  PROVE  Verdict \in Modes \cup {"EBADF", "EINVAL", "getsockopt"}
<1>1. \A s \in Sockets : end[s].open => end[s].rcv \in BOOLEAN /\ end[s].snd \in BOOLEAN
                                      /\ (end[s].rcv \/ end[s].snd)
  <2> SUFFICES ASSUME NEW s \in Sockets, end[s].open
               PROVE  /\ end[s].rcv \in BOOLEAN /\ end[s].snd \in BOOLEAN
                      /\ (end[s].rcv \/ end[s].snd)
    OBVIOUS
  <2>1. end[s] \in Open
    BY DEF EndInv, Absent
  <2>2. QED
    BY <2>1 DEF Open, Directions
<1>2. ASSUME Option(1), Option(2), ~Mismatched(end[1], end[2])
      PROVE  Kind(end[1], end[2]) \in Modes
  <2>1. end[1].open /\ end[2].open
    BY <1>2 DEF Option
  <2>2. end[1].rcv = end[2].snd /\ end[1].snd = end[2].rcv
    BY <1>2 DEF Mismatched
  <2>3. /\ end[1].rcv \in BOOLEAN /\ end[1].snd \in BOOLEAN
        /\ (end[1].rcv \/ end[1].snd)
    BY <1>1, <2>1 DEF Sockets
  <2>4. QED
    BY <2>2, <2>3 DEF Kind, Modes
<1>3. QED
  BY <1>2 DEF Verdict, LoopbackKind, Modes

LEMMA EndStep == ASSUME EndInv, [DeviceNext]_deviceVars PROVE EndInv'
<1>1. end' = end
  BY DEF DeviceNext, deviceVars, Thread, Entry, Poll, Skip, Receive, PassOn,
         Interrupt, Term,
         Arrive, Drain, Leave, sockets, device
<1>2. result' \in Verdicts \cup Documented
  <2>1. CASE UNCHANGED result
    BY <2>1 DEF EndInv
  <2>2. CASE Entry
    BY <2>2, EntryHasVerdict DEF Entry, Return, EndInv, Verdicts, Documented
  <2>3. CASE Receive \/ PassOn \/ Interrupt
    BY <2>3 DEF Receive, PassOn, Interrupt, Return, EndInv, Verdicts, Documented
  <2>4. QED
    BY <2>1, <2>2, <2>3
       DEF DeviceNext, deviceVars, Thread, Poll, Skip, Term, Arrive, Drain,
           Leave, device
<1>3. QED
  BY <1>1, <1>2 DEF EndInv

(* The assertion at the end of grid_device_entry is never reached, and the *)
(* loops fail none but those the README describes.                         *)
THEOREM DeviceHasVerdict == ASSUME Excused = Documented PROVE DeviceSpec => []HasVerdict
<1>1. DeviceInit => EndInv
  BY DEF DeviceInit, EndInv, Verdicts
<1>2. EndInv /\ [DeviceNext]_deviceVars => EndInv'
  BY EndStep
<1>3. EndInv => HasVerdict
  BY DEF EndInv, HasVerdict
<1>4. QED
  BY <1>1, <1>2, <1>3, PTL DEF DeviceSpec
=============================================================================
