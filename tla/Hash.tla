-------------------------------- MODULE Hash --------------------------------
(***************************************************************************)
(* The hash map of src/src/utils/hash.c, as operators on one record:       *)
(*                                                                         *)
(*   slots    the number of slots                                          *)
(*   items    the number of items                                          *)
(*   array    slot -> its items [key, val]                                 *)
(*                                                                         *)
(* The items of a slot are a list; as no two of them have the same key,    *)
(* nobody can tell their order, and it is left out.  grid_hash_key is left *)
(* open: any function of the key will do.                                  *)
(***************************************************************************)
EXTENDS Integers

CONSTANTS
    InitialSlots,   \* GRID_HASH_INITIAL_SLOTS (32 in the code)
    HashKey(_)      \* grid_hash_key

ASSUME InitialSlotsAssumption == InitialSlots \in Nat \ {0}

(* grid_hash_init *)
EmptyHash == [slots |-> InitialSlots, items |-> 0,
              array |-> [i \in 0..(InitialSlots - 1) |-> {}]]

SlotOf(h, key) == HashKey(key) % h.slots

Matches(h, key) == {item \in h.array[SlotOf(h, key)] : item.key = key}

(* What grid_hash_get returns.                                             *)
HashHas(h, key) == Matches(h, key) # {}
HashGet(h, key) == (CHOOSE item \in Matches(h, key) : TRUE).val

(* Mutant: items stay in the slots they were in.                           *)
RehashInPlace(h) ==
    [h EXCEPT !.slots = 2 * @,
              !.array = [i \in 0..(2 * h.slots - 1) |->
                            IF i < h.slots THEN h.array[i] ELSE {}]]

(* grid_hash_rehash: slots are doubled, so the items of a new slot come    *)
(* from one old slot.                                                      *)
Rehash(h) ==
    LET new == 2 * h.slots
    IN  [slots |-> new, items |-> h.items,
         array |-> [i \in 0..(new - 1) |->
                       {item \in h.array[i % h.slots] : HashKey(item.key) % new = i}]]

(* grid_hash_insert; it asserts that the key is not in use.                *)
HashInsert(h, key, val) ==
    LET grown == [slots |-> h.slots, items |-> h.items + 1,
                  array |-> [h.array EXCEPT ![SlotOf(h, key)] =
                                @ \cup {[key |-> key, val |-> val]}]]
    IN  IF grown.items * 2 > grown.slots THEN Rehash(grown) ELSE grown

(* grid_hash_erase *)
HashErase(h, key) ==
    [slots |-> h.slots, items |-> h.items - 1,
     array |-> [h.array EXCEPT ![SlotOf(h, key)] = @ \ Matches(h, key)]]
=============================================================================
