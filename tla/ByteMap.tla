------------------------------ MODULE ByteMap ------------------------------
(***************************************************************************)
(* What a node of the tree promises about its children, whatever their     *)
(* layout: a map from bytes to children, where a child is added at a free  *)
(* byte, and replaced or removed at a taken one.                           *)
(***************************************************************************)
CONSTANTS Keys, Children, None

VARIABLE map

Init == map = [k \in Keys |-> None]

Add(k, c) == map[k] = None /\ map' = [map EXCEPT ![k] = c]
Replace(k, c) == map[k] # None /\ map' = [map EXCEPT ![k] = c]
Remove(k) == map[k] # None /\ map' = [map EXCEPT ![k] = None]

Next ==
    \E k \in Keys :
        \/ \E c \in Children : Add(k, c) \/ Replace(k, c)
        \/ Remove(k)

Spec == Init /\ [][Next]_map
=============================================================================
