---------------------------- MODULE AbstractLists ----------------------------
(***************************************************************************)
(* What an intrusive list promises its caller, for several lists over one  *)
(* set of elements: each list is a sequence of distinct elements and an    *)
(* element is in at most one list.  insert puts a free element before a   *)
(* position, erase drops one, clear empties, and a move assignment hands   *)
(* the source's elements to the target and leaves the source empty; a      *)
(* list moved onto itself keeps its elements.  op records the call so      *)
(* that a step of an implementation is matched with the same call here.    *)
(***************************************************************************)
EXTENDS Naturals, Sequences, SequencesExt

CONSTANTS Lists, Elements

VARIABLES lists, op

avars == <<lists, op>>

InAnyList(e) == \E l \in Lists : e \in ToSet(lists[l])

Init ==
    /\ lists = [l \in Lists |-> <<>>]
    /\ op.name = "init"

Insert ==
    /\ op'.name = "insert"
    /\ ~InAnyList(op'.value)
    /\ op'.index \in 1 .. Len(lists[op'.list]) + 1
    /\ lists' = [lists EXCEPT ![op'.list] = InsertAt(@, op'.index, op'.value)]

Erase ==
    /\ op'.name = "erase"
    /\ op'.index \in 1 .. Len(lists[op'.list])
    /\ lists' = [lists EXCEPT ![op'.list] = RemoveAt(@, op'.index)]

Clear ==
    /\ op'.name = "clear"
    /\ lists' = [lists EXCEPT ![op'.list] = <<>>]

Move ==
    /\ op'.name = "move"
    /\ lists' = IF op'.source = op'.list THEN lists
                ELSE [lists EXCEPT ![op'.list] = lists[op'.source],
                                   ![op'.source] = <<>>]

Next == Insert \/ Erase \/ Clear \/ Move

Spec == Init /\ [][Next]_avars

=============================================================================
