------------------------------- MODULE KeyMap -------------------------------
(***************************************************************************)
(* What the tree of a store promises: a map from keys to values, where a   *)
(* call changes one key and leaves every other at its value.               *)
(***************************************************************************)
CONSTANTS Keys, Vals, None

VARIABLE map

Init == map = [k \in Keys |-> None]

Put(k, v) ==
    /\ map'[k] = v
    /\ \A l \in Keys \ {k} : map'[l] = map[l]

Insert(k, v) == Put(k, v)
Delete(k) == Put(k, None)

Next == \E k \in Keys : Delete(k) \/ \E v \in Vals : Insert(k, v)

Spec == Init /\ [][Next]_map
=============================================================================
