--------------------------------- MODULE Sub ---------------------------------
(***************************************************************************)
(* The SUB socket: src/src/protocols/pubsub/xsub.c, with its trie of       *)
(* topics (Trie) and the messages its fair queue offers.  Which of several *)
(* pipes is read first is left open (Balancer says how it is chosen).      *)
(***************************************************************************)
EXTENDS Trie

CONSTANTS
    Pipes,      \* connections to publishers
    Topics,     \* topics the user subscribes to
    Messages,   \* bodies of messages, as far as topics tell them apart
    MaxSubs,    \* bound: subscriptions at a time
    AllowWide   \* may one topic have many others that continue it?

ASSUME SubAssumption == /\ Topics \subseteq Seq(0..255)
                        /\ Messages \subseteq Seq(0..255)
                        /\ MaxSubs \in Nat /\ AllowWide \in BOOLEAN

VARIABLES
    trie,       \* grid_xsub.trie.root
    offered,    \* pipe -> the message its fair queue item offers, or {}
    failed,     \* what ended the process or made a legal call fail, or "none"
    subs,       \* ghost: topic -> how often the user subscribed to it
    last        \* ghost: what grid_recv just discarded and returned

vars == <<trie, offered, failed, subs, last>>

Running == failed = "none"
Subscribed == {t \in Topics : subs[t] > 0}

(* A subscribed topic that more than SPARSE_MAX characters continue.       *)
Continuations(t, T) == {u[Len(t) + 1] : u \in {v \in T : IsStrictPrefix(t, v)}}
Wide(T) == \E t \in T : Cardinality(Continuations(t, T)) > SPARSE_MAX

TypeOK ==
    /\ trie.refcount \in -1..MaxSubs
    /\ offered \in [Pipes -> {{}} \cup {{m} : m \in Messages}]
    /\ failed \in {"none", "EINVAL", "NULL", "assert"}
    /\ subs \in [Topics -> 0..MaxSubs]
    /\ last \in [discarded : SUBSET Messages, got : {{}} \cup {{m} : m \in Messages}]

NoVerdict == [discarded |-> {}, got |-> {}]
Idle == last' = NoVerdict

(* grid_xsub_init *)
Init ==
    /\ trie = Null
    /\ offered = [p \in Pipes |-> {}]
    /\ failed = "none"
    /\ subs = [t \in Topics |-> 0]
    /\ last = NoVerdict

(* GRID_SUB_SUBSCRIBE *)
SetSubscribe(t) ==
    /\ Running
    /\ FoldFunction(+, 0, subs) < MaxSubs
    /\ AllowWide \/ ~Wide(Subscribed \cup {t})
    /\ trie' = Subscribe(trie, t)
    /\ subs' = [subs EXCEPT ![t] = @ + 1]
    /\ Idle
    /\ UNCHANGED <<offered, failed>>

(* GRID_SUB_UNSUBSCRIBE of a topic the user is subscribed to.              *)
SetUnsubscribe(t) ==
    /\ Running /\ subs[t] > 0
    /\ LET r == Unsubscribe(trie, t)
       IN  /\ trie' = r.node
           /\ failed' = IF r.rc \in {"0", "1"} THEN "none" ELSE r.rc
    /\ subs' = [subs EXCEPT ![t] = @ - 1]
    /\ Idle
    /\ UNCHANGED offered

(* grid_xsub_in, once the last message of the pipe was taken.              *)
In(p) ==
    /\ Running /\ offered[p] = {}
    /\ \E m \in Messages : offered' = [offered EXCEPT ![p] = {m}]
    /\ Idle
    /\ UNCHANGED <<trie, failed, subs>>

(* grid_xsub_rm *)
Rm(p) ==
    /\ Running /\ offered[p] # {}
    /\ offered' = [offered EXCEPT ![p] = {}]
    /\ Idle
    /\ UNCHANGED <<trie, failed, subs>>

Verdict(p) == UNION {Match(trie, m) : m \in offered[p]}

(* grid_xsub_recv: messages are discarded until one matches ...            *)
RecvMatch ==
    \E discard \in SUBSET {p \in Pipes : FALSE \in Verdict(p)},
       p \in {q \in Pipes : TRUE \in Verdict(q)} :
        /\ offered' = [q \in Pipes |-> IF q \in discard \cup {p} THEN {} ELSE offered[q]]
        /\ last' = [discarded |-> UNION {offered[q] : q \in discard \ {p}},
                    got |-> offered[p]]

(* ... or none is left and EAGAIN returned.                                *)
RecvNothing ==
    /\ \A p \in Pipes : offered[p] # {} => FALSE \in Verdict(p)
    /\ offered' = [p \in Pipes |-> {}]
    /\ last' = [discarded |-> UNION {offered[p] : p \in Pipes}, got |-> {}]

Recv ==
    /\ Running
    /\ RecvMatch \/ RecvNothing
    /\ UNCHANGED <<trie, failed, subs>>

Next == \/ \E t \in Topics : SetSubscribe(t) \/ SetUnsubscribe(t)
        \/ \E p \in Pipes : In(p) \/ Rm(p)
        \/ Recv

Spec == Init /\ [][Next]_vars

-----------------------------------------------------------------------------
(* Properties.                                                             *)

(* How often the trie says a topic is subscribed to.                       *)
RECURSIVE RefCount(_, _)
RefCount(node, t) ==
    IF node = Null \/ ~IsPrefix(node.prefix, t) THEN 0
    ELSE LET rest == Drop(t, Len(node.prefix))
         IN  IF rest = << >> THEN node.refcount
             ELSE RefCount(ChildAt(node, Head(rest)), Tail(rest))

(* Whatever was split, merged, made dense or sparse on the way, the trie   *)
(* holds the topics as often as the user subscribed to them, and a topic   *)
(* the user is subscribed to can be given up.                              *)
TopicsKept ==
    /\ failed = "none"
    /\ \A t \in Topics : RefCount(trie, t) = subs[t]

(* Every node obeys trie.h: the limits of prefix and array, a dense node   *)
(* bounded by its first and last child, with nbr counting its children,    *)
(* and no node that leads to no subscription.                              *)
RECURSIVE WellFormed(_)
WellFormed(node) ==
    /\ Len(node.prefix) <= PREFIX_MAX
    /\ IF node.dense
       THEN /\ node.nbr = Cardinality(Kids(node))
            /\ node.nbr > SPARSE_MAX
            /\ node.min = Min(Kids(node)) /\ node.max = Max(Kids(node))
       ELSE Cardinality(Kids(node)) <= SPARSE_MAX
    /\ Kids(node) = {} => HasSubscribers(node)
    /\ \A c \in Kids(node) : WellFormed(node.children[c])
TrieWellFormed == trie # Null => WellFormed(trie)

(* The trie is sound in both ways.                                         *)
TrieConsistent == TypeOK /\ TopicsKept /\ TrieWellFormed

Wanted(m) == \E t \in Subscribed : IsPrefix(t, m)

(* The user gets the messages that begin with a topic subscribed to and no *)
(* other, but for messages that end inside of one: there trie.c reads on   *)
(* behind the message.                                                     *)
FilterRight ==
    [][/\ \A m \in last'.discarded : ~Wanted(m)
       /\ \A m \in last'.got : Wanted(m) \/ \E t \in Subscribed : IsStrictPrefix(m, t)]_last

(* man/grid_pubsub.txt:36: a message that matches any of the topics is     *)
(* delivered.                                                              *)
AnyTopicDelivers == \A t \in Subscribed : Match(trie, t) = {TRUE}
=============================================================================
