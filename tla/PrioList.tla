------------------------------ MODULE PrioList ------------------------------
(***************************************************************************)
(* The prioritised list of pipes of src/src/protocols/utils/priolist.c, on *)
(* which the load balancer lb.c and the fair queue fq.c are built, as      *)
(* operators on one record:                                                *)
(*                                                                         *)
(*   pipes    slot -> the list of its active pipes                         *)
(*   cursor   slot -> the pipe to be used next in the slot, or None        *)
(*   current  the slot to be used next, or -1                              *)
(*                                                                         *)
(* Slot 1 has the highest priority.                                        *)
(***************************************************************************)
EXTENDS Integers, SequencesExt

CONSTANTS
    Pipes,      \* identities of the pipes
    Slots       \* GRID_PRIOLIST_SLOTS (16 in the code)

ASSUME SlotsAssumption == Slots \in Nat \ {0}

None == "none"
ASSUME PipesAssumption == None \notin Pipes

Priorities == 1..Slots

(* grid_priolist_init *)
EmptyList == [pipes   |-> [s \in Priorities |-> << >>],
              cursor  |-> [s \in Priorities |-> None],
              current |-> -1]

First(seq) == IF seq = << >> THEN None ELSE Head(seq)

(* grid_list_erase, of a pipe that is in the list (grid_list_item_isinlist)*)
(* or is not.                                                              *)
At(seq, p) == CHOOSE i \in DOMAIN seq : seq[i] = p
Erase(seq, p) == IF Contains(seq, p) THEN RemoveAt(seq, At(seq, p)) ELSE seq

(* grid_list_next, wrapping over to the first pipe.                        *)
After(seq, p) ==
    IF At(seq, p) = Len(seq) THEN First(seq) ELSE seq[At(seq, p) + 1]

(* The pipe the cursor moves to when p is erased from its slot.            *)
AfterErase(seq, p) ==
    IF After(seq, p) = p THEN None ELSE After(seq, p)

(* The slot to be used from slot s downwards.                              *)
NonEmptyFrom(pipes, s) ==
    LET candidates == {k \in s..Slots : pipes[k] # << >>}
    IN  IF candidates = {} THEN -1 ELSE Min(candidates)

(* Mutant: the cursor of the slot is left on the erased pipe.              *)
PrioListRmDangling(l, p, prio) ==
    LET pipes == [l.pipes EXCEPT ![prio] = Erase(@, p)]
    IN  [l EXCEPT !.pipes = pipes,
                  !.current = IF @ = prio THEN NonEmptyFrom(pipes, prio) ELSE @]

(* grid_priolist_rm of a pipe with priority prio, active or not            *)
PrioListRm(l, p, prio) ==
    LET pipes == [l.pipes EXCEPT ![prio] = Erase(@, p)]
    IN  IF l.cursor[prio] # p THEN [l EXCEPT !.pipes = pipes]
        ELSE [pipes   |-> pipes,
              cursor  |-> [l.cursor EXCEPT ![prio] = AfterErase(l.pipes[prio], p)],
              current |-> IF l.current # prio THEN l.current
                          ELSE NonEmptyFrom(pipes, prio)]

(* Mutant: a more urgent slot that gets its first pipe is not switched to. *)
PrioListActivateLate(l, p, prio) ==
    [pipes   |-> [l.pipes EXCEPT ![prio] = Append(@, p)],
     cursor  |-> IF l.pipes[prio] # << >> THEN l.cursor
                 ELSE [l.cursor EXCEPT ![prio] = p],
     current |-> IF l.current = -1 THEN prio ELSE l.current]

(* grid_priolist_activate *)
PrioListActivate(l, p, prio) ==
    LET pipes == [l.pipes EXCEPT ![prio] = Append(@, p)]
    IN  IF l.pipes[prio] # << >> THEN [l EXCEPT !.pipes = pipes]
        ELSE [pipes   |-> pipes,
              cursor  |-> [l.cursor EXCEPT ![prio] = p],
              current |-> IF l.current = -1 \/ l.current > prio THEN prio
                          ELSE l.current]

(* grid_priolist_is_active, grid_priolist_getpipe *)
PrioListIsActive(l) == l.current # -1
PrioListGetPipe(l)  == l.cursor[l.current]

(* grid_priolist_advance, once a message went through the current pipe:    *)
(* the pipe is released unless it is ready for another one.                *)
PrioListAdvance(l, release) ==
    LET s     == l.current
        p     == l.cursor[s]
        pipes == IF release THEN [l.pipes EXCEPT ![s] = Erase(@, p)] ELSE l.pipes
    IN  [pipes   |-> pipes,
         cursor  |-> [l.cursor EXCEPT ![s] = IF release THEN AfterErase(l.pipes[s], p)
                                             ELSE After(l.pipes[s], p)],
         current |-> NonEmptyFrom(pipes, s)]
=============================================================================
