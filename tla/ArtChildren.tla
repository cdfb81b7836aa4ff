---------------------------- MODULE ArtChildren ----------------------------
(***************************************************************************)
(* One node of the tree and everything that insertNode and deleteNode do   *)
(* to its children, in any order: it is a ByteMap, in whatever layout the  *)
(* order has left it.                                                      *)
(***************************************************************************)
EXTENDS ArtNode

CONSTANT Children \* what the node may have as children

ChildrenAssumption == Nil \notin Children

ASSUME ChildrenAssumption

VARIABLE node

Init == node = EmptyNode

Add(key, child) ==
    /\ ChildAt(node, key) = Nil
    /\ node' = AddChild(node, key, child)

Replace(key, child) ==
    /\ ChildAt(node, key) # Nil
    /\ node' = ReplaceChild(node, key, child)

Cut(key) ==
    /\ ChildAt(node, key) # Nil
    /\ node' = RemoveChild(node, key)

Next ==
    \/ \E key \in Bytes, child \in Children : Add(key, child)
    \/ \E key \in Bytes, child \in Children : Replace(key, child)
    \/ \E key \in Bytes : Cut(key)

Spec == Init /\ [][Next]_node

-----------------------------------------------------------------------------
(* Properties *)

\* What the four layouts hold is a map from bytes to children: no change of
\* layout, reused slot or shifted place loses, doubles or moves a child.
Map == INSTANCE ByteMap WITH Keys <- Bytes, None <- Nil,
                             map <- [k \in Bytes |-> ChildAt(node, k)]
ImplementsByteMap == Map!Spec

\* eachChild visits every child once, in the order of the bytes, so that
\* RangePrefix lists keys in order in every layout.
VisitsInOrder ==
    /\ ToSet(Edges(node)) = Taken(node)
    /\ \A i \in 2 .. Len(Edges(node)) : Edges(node)[i - 1] < Edges(node)[i]

\* The count that decides about growing and shrinking is the number of
\* children, and the layout is the smallest that holds them: no sequence of
\* inserts and deletes leaves a node in a larger one, and the searches of
\* onlyChild through a node48 or node256 are never needed.
Snug ==
    /\ node.count = Cardinality(Taken(node))
    /\ node.layout = CASE node.count <= Cap4 -> "node4"
                       [] node.count \in Cap4 + 1 .. Cap16 -> "node16"
                       [] node.count \in Cap16 + 1 .. Cap48 -> "node48"
                       [] node.count > Cap48 -> "node256"

\* The node is in the smallest layout and in order, whatever has led to it.
WellFormed == Snug /\ VisitsInOrder
=============================================================================
