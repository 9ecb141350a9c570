-------------------------- MODULE AbstractSequence --------------------------
(***************************************************************************)
(* What turbokit's growable arrays promise their caller: an ordered       *)
(* sequence of values.  append adds at the end, insert places a value     *)
(* before a position, set overwrites one, erase drops a run of positions, *)
(* resize truncates or pads with default-constructed values, clear        *)
(* empties, and reserve, a copy assignment from itself, or a call that    *)
(* throws out_of_range leave the contents alone.  op records the call and *)
(* its arguments so that a step of an implementation is matched with the  *)
(* abstract step of the same call.                                        *)
(***************************************************************************)
EXTENDS Naturals, Sequences, SequencesExt

CONSTANTS Values, Default

VARIABLES contents, op

svars == <<contents, op>>

Init ==
    /\ contents = <<>>
    /\ op.name = "init"

Push ==
    /\ op'.name = "append"
    /\ contents' = Append(contents, op'.value)

Insert ==
    /\ op'.name = "insert"
    /\ op'.index \in 1 .. Len(contents) + 1
    /\ contents' = InsertAt(contents, op'.index, op'.value)

\* Removes op'.count values starting at position op'.index.
Erase ==
    /\ op'.name = "erase"
    /\ op'.index + op'.count - 1 <= Len(contents)
    /\ contents' = SubSeq(contents, 1, op'.index - 1)
                   \o SubSeq(contents, op'.index + op'.count, Len(contents))

\* Overwrites the value at position op'.index.
Assign ==
    /\ op'.name = "set"
    /\ op'.index \in 1 .. Len(contents)
    /\ contents' = [contents EXCEPT ![op'.index] = op'.value]

Resize ==
    /\ op'.name = "resize"
    /\ contents' = IF op'.count <= Len(contents)
                   THEN SubSeq(contents, 1, op'.count)
                   ELSE contents \o [i \in 1 .. op'.count - Len(contents) |-> Default]

Clear ==
    /\ op'.name = "clear"
    /\ contents' = <<>>

Keep ==
    /\ op'.name \in {"reserve", "assign_self", "throw"}
    /\ UNCHANGED contents

Next == Push \/ Insert \/ Erase \/ Assign \/ Resize \/ Clear \/ Keep

Spec == Init /\ [][Next]_svars

=============================================================================
