---------------------------- MODULE AbstractMap ----------------------------
(***************************************************************************)
(* What turbokit::HashMap promises its caller (spec.md sections 4.3, 4.4,  *)
(* 6 and 8): a finite map from keys to values with a size.  insert never  *)
(* overwrites and reports whether it stored the entry; remove(key) drops  *)
(* the key if present; reserve leaves the contents alone; clear empties   *)
(* the map.  op records the call taken and its result, so that a step of *)
(* the table is matched with the abstract step of the same call.          *)
(***************************************************************************)
EXTENDS Naturals

CONSTANTS Keys, Values, Absent

VARIABLES contents, size, op

vars == <<contents, size, op>>

Init ==
    /\ contents = [k \in Keys |-> Absent]
    /\ size = 0
    /\ op.name = "init"

Insert(k, v) ==
    /\ op'.name = "insert" /\ op'.key = k /\ op'.value = v
    /\ op'.result = (contents[k] = Absent)
    /\ IF contents[k] = Absent
       THEN /\ contents' = [contents EXCEPT ![k] = v]
            /\ size' = size + 1
       ELSE UNCHANGED <<contents, size>>

Remove(k) ==
    /\ op'.name = "remove" /\ op'.key = k
    /\ op'.result = (contents[k] # Absent)
    /\ contents' = [contents EXCEPT ![k] = Absent]
    /\ size' = IF contents[k] = Absent THEN size ELSE size - 1

Reserve ==
    /\ op'.name = "reserve"
    /\ UNCHANGED <<contents, size>>

Clear ==
    /\ op'.name = "clear"
    /\ contents' = [k \in Keys |-> Absent]
    /\ size' = 0

Next ==
    \/ \E k \in Keys, v \in Values : Insert(k, v)
    \/ \E k \in Keys : Remove(k)
    \/ Reserve
    \/ Clear

Spec == Init /\ [][Next]_vars

=============================================================================
