------------------------------- MODULE MCTree -------------------------------
(***************************************************************************)
(* An instance of one node on its own, and one of the radix tree.          *)
(*                                                                         *)
(* The keys of the tree share and end inside each other's prefixes and     *)
(* begin alike, as those of a store do with "/".  A node has up to five    *)
(* children, and the layouts have 2, 3 and 4 places.  The node on its own  *)
(* has layouts of 2, 3 and 5 places for 6 bytes, so that every one of them *)
(* fills up, grows, shrinks and reuses a slot.  A behaviour is one of the  *)
(* tree or one of the node.                                                *)
(***************************************************************************)
EXTENDS ArtChildren

CONSTANTS Keys, Vals, None  \* of RadixTree

VARIABLES root,
          driven  \* "tree" or "node"

MCKeys == { <<0>>, <<0, 0, 0>>, <<0, 0, 1, 1>>, <<0, 1>>,
            <<0, 2, 0>>, <<0, 3>>, <<0, 4, 4>> }

Tree == INSTANCE RadixTree WITH Cap48 <- 4

ASSUME Tree!KeysAssumption

MCInit == Init /\ Tree!Init /\ driven \in {"tree", "node"}

MCNext ==
    \/ driven = "node" /\ Next /\ UNCHANGED <<root, driven>>
    \/ driven = "tree" /\ Tree!Next /\ UNCHANGED <<node, driven>>

MCSpec == MCInit /\ [][MCNext]_<<root, node, driven>>

-----------------------------------------------------------------------------
\* The tree is as shallow as its keys allow, and ranges over it are exact.
TreeWellFormed == Tree!WellFormed

\* The tree is a map from keys to values.
ImplementsKeyMap == Tree!ImplementsKeyMap
=============================================================================
