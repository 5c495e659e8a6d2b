-------------------------------- MODULE Trie --------------------------------
(***************************************************************************)
(* The patricia trie of src/src/protocols/pubsub/trie.c, which holds the   *)
(* topics of a SUB socket, as operators on nodes.  A node is                *)
(*                                                                         *)
(*   refcount  subscriptions to the string that ends here                  *)
(*   prefix    the characters it adds, but for the one its parent keeps    *)
(*   dense     type = GRID_TRIE_DENSE_TYPE                                 *)
(*   min, max, nbr   the fields of a dense node                            *)
(*   children  character -> child; a NULL slot of a dense node is a        *)
(*             character between min and max that is not in the domain     *)
(***************************************************************************)
EXTENDS Integers, FiniteSetsExt, SequencesExt

CONSTANTS
    PREFIX_MAX,     \* GRID_TRIE_PREFIX_MAX (10 in the code)
    SPARSE_MAX      \* GRID_TRIE_SPARSE_MAX (8 in the code)

ASSUME MaximaAssumption == PREFIX_MAX \in Nat /\ SPARSE_MAX \in Nat \ {0, 1}

NoChildren == << >>
Node(ref, prefix, children) ==
    [refcount |-> ref, prefix |-> prefix, dense |-> FALSE,
     min |-> 0, max |-> 0, nbr |-> 0, children |-> children]
Null == Node(-1, << >>, NoChildren)

(* grid_node_has_subscribers *)
HasSubscribers(node) == node.refcount > 0

(* grid_node_check_prefix: how many characters match.                      *)
CheckPrefix(node, data) ==
    Max({n \in 0..Len(node.prefix) : n <= Len(data) /\
             SubSeq(node.prefix, 1, n) = SubSeq(data, 1, n)})

Drop(data, n) == SubSeq(data, n + 1, Len(data))

(* grid_node_next, *n: the child under c, or NULL.                         *)
Kids(node)     == DOMAIN node.children
ChildAt(node, c) == IF c \in Kids(node) THEN node.children[c] ELSE Null
HasSlot(node, c) == c \in Kids(node) \/ (node.dense /\ c \in node.min..node.max)

(* Mutant: a node is merged although it is a subscription.                 *)
CompactSubscribed(node) ==
    IF node.dense \/ Cardinality(Kids(node)) # 1 THEN node
    ELSE LET c  == CHOOSE k \in Kids(node) : TRUE
             ch == node.children[c]
         IN  IF Len(node.prefix) + Len(ch.prefix) + 1 > PREFIX_MAX THEN node
             ELSE [ch EXCEPT !.prefix = node.prefix \o <<c>> \o @]

(* grid_node_compact *)
Compact(node) ==
    IF HasSubscribers(node) \/ node.dense \/ Cardinality(Kids(node)) # 1 THEN node
    ELSE LET c  == CHOOSE k \in Kids(node) : TRUE
             ch == node.children[c]
         IN  IF Len(node.prefix) + Len(ch.prefix) + 1 > PREFIX_MAX THEN node
             ELSE [ch EXCEPT !.prefix = node.prefix \o <<c>> \o @]

-----------------------------------------------------------------------------
(* grid_trie_subscribe.                                                    *)

(* Step 4: the nodes for the rest of a subscription.                       *)
RECURSIVE Fresh(_)
Fresh(data) ==
    IF Len(data) <= PREFIX_MAX THEN Node(1, data, NoChildren)
    ELSE Node(0, SubSeq(data, 1, PREFIX_MAX),
              data[PREFIX_MAX + 1] :> Fresh(Drop(data, PREFIX_MAX + 1)))

(* Step 3 in a dense node: the range is extended to fit c.                 *)
AddDense(node, c, child) ==
    [node EXCEPT !.min = Min({@, c}), !.max = Max({@, c}), !.nbr = @ + 1,
                 !.children = @ @@ (c :> child)]

(* Step 3 in a full sparse node: it becomes a dense one, whose refcount is *)
(* set to zero.                                                            *)
ToDense(node, c, child) ==
    LET kids == Kids(node) \cup {c}
    IN  [refcount |-> 0, prefix |-> node.prefix, dense |-> TRUE,
         min |-> Min(kids), max |-> Max(kids), nbr |-> Cardinality(kids),
         children |-> node.children @@ (c :> child)]

(* Step 3: another child.                                                  *)
AddChild(node, c, child) ==
    IF node.dense THEN AddDense(node, c, child)
    ELSE IF Cardinality(Kids(node)) < SPARSE_MAX
    THEN [node EXCEPT !.children = @ @@ (c :> child)]
    ELSE ToDense(node, c, child)

(* Step 2: the prefix is split after pos characters.                       *)
Split(node, pos) ==
    LET ch == Compact([node EXCEPT !.prefix = Drop(@, pos + 1)])
    IN  Node(0, SubSeq(node.prefix, 1, pos), node.prefix[pos + 1] :> ch)

(* Steps 3 to 5 at a node whose prefix was matched.                        *)
SubscribeHere(node, rest) ==
    IF rest = << >> THEN [node EXCEPT !.refcount = @ + 1]
    ELSE AddChild(node, Head(rest), Fresh(Tail(rest)))

RECURSIVE Subscribe(_, _)
Subscribe(node, data) ==
    IF node = Null THEN Fresh(data)
    ELSE LET pos  == CheckPrefix(node, data)
             rest == Drop(data, pos)
         IN  IF pos < Len(node.prefix) THEN SubscribeHere(Split(node, pos), rest)
             ELSE IF rest # << >> /\ Head(rest) \in Kids(node)
             THEN [node EXCEPT !.children[Head(rest)] = Subscribe(@, Tail(rest))]
             ELSE SubscribeHere(node, rest)

-----------------------------------------------------------------------------
(* grid_trie_match: the results it may have.  At the end of the data the   *)
(* code goes on with what is in memory behind it.                          *)

(* Mutant: only the string itself matches.                                 *)
MatchedExactly(node, rest) == HasSubscribers(node) /\ rest = << >>
Matched(node, rest) == HasSubscribers(node)

RECURSIVE Match(_, _)
Match(node, data) ==
    IF node = Null THEN {FALSE}
    ELSE IF CheckPrefix(node, data) # Len(node.prefix) THEN {FALSE}
    ELSE LET rest == Drop(data, Len(node.prefix))
         IN  IF Matched(node, rest) THEN {TRUE}
             ELSE IF rest # << >> THEN Match(ChildAt(node, Head(rest)), Tail(rest))
             ELSE IF Kids(node) = {} THEN {FALSE} ELSE BOOLEAN

-----------------------------------------------------------------------------
(* grid_node_unsubscribe.  rc is 0 or 1 as the code returns it, "EINVAL",  *)
(* "NULL" if it follows a null pointer or "assert" if an assertion fails.  *)

Outcome(node, rc) == [node |-> node, rc |-> rc]

(* The label "found". *)
Found(node) ==
    IF node = Null \/ ~HasSubscribers(node) THEN Outcome(node, "EINVAL")
    ELSE LET left == [node EXCEPT !.refcount = @ - 1]
         IN  IF HasSubscribers(left) THEN Outcome(left, "0")
             ELSE IF Kids(left) = {} THEN Outcome(Null, "1")
             ELSE Outcome(Compact(left), "1")

Without(children, c) == [k \in DOMAIN children \ {c} |-> children[k]]

(* A child is gone from a sparse node.                                     *)
PruneSparse(node, c) ==
    LET left == [node EXCEPT !.children = Without(@, c)]
    IN  IF Kids(left) = {} /\ ~HasSubscribers(left) THEN Null ELSE Compact(left)

(* ... from a dense one that stays dense.                                  *)
TrimDense(node, c) ==
    LET left == Without(node.children, c)
    IN  [node EXCEPT !.children = left,
                     !.nbr = @ - 1,
                     !.min = IF c = @ THEN Min(DOMAIN left) ELSE @,
                     !.max = IF c = @ /\ c # node.min THEN Max(DOMAIN left) ELSE @]

(* ... and from one that becomes sparse; again the refcount is zero.       *)
ToSparse(node, c) ==
    LET left == Without(node.children, c)
    IN  IF Cardinality(DOMAIN left) # SPARSE_MAX THEN Outcome(node, "assert")
        ELSE Outcome(Node(0, node.prefix, left), "1")

Prune(node, c) ==
    IF ~node.dense THEN Outcome(PruneSparse(node, c), "1")
    ELSE IF node.nbr > SPARSE_MAX + 1 THEN Outcome(TrimDense(node, c), "1")
    ELSE ToSparse(node, c)

RECURSIVE Unsubscribe(_, _)
Unsubscribe(node, data) ==
    IF data = << >> THEN Found(node)
    ELSE IF node = Null THEN Outcome(node, "NULL")
    ELSE IF CheckPrefix(node, data) # Len(node.prefix) THEN Outcome(node, "0")
    ELSE LET rest == Drop(data, Len(node.prefix))
             c    == Head(rest)
         IN  IF rest = << >> THEN Found(node)
             ELSE IF ~HasSlot(node, c) THEN Outcome(node, "0")
             ELSE LET r == Unsubscribe(ChildAt(node, c), Tail(rest))
                  IN  IF r.rc \in {"NULL", "assert"} THEN Outcome(node, r.rc)
                      ELSE IF r.node = Null THEN Prune(node, c)
                      ELSE Outcome([node EXCEPT !.children[c] = r.node],
                                   IF r.rc = "0" THEN "0" ELSE "1")
=============================================================================
