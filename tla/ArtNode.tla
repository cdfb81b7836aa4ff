------------------------------ MODULE ArtNode ------------------------------
(***************************************************************************)
(* The children of one node of goheap/tree.go.  A node maps bytes to       *)
(* children in one of four layouts, and moves to the next when it is full  *)
(* and back when what is left fits:                                        *)
(*                                                                         *)
(*    node4, node16   sorted keys, with the children beside them           *)
(*    node48          the slot of every byte, 0 for none, and the slots    *)
(*    node256         a child for every byte                               *)
(*                                                                         *)
(* The array of a node4 or node16 is the sequence of its used places.  The *)
(* capacities and the number of bytes are parameters: 4, 16, 48 and 256 in *)
(* the code.                                                               *)
(***************************************************************************)
EXTENDS Integers, SequencesExt

CONSTANTS Cap4, Cap16, Cap48, \* the places of the three small layouts
          MaxByte,            \* bound: bytes are 0 .. MaxByte
          Nil                 \* no child

CapAssumption ==
    /\ Cap4 \in Nat /\ Cap16 \in Nat /\ Cap48 \in Nat /\ MaxByte \in Nat
    /\ 1 < Cap4 /\ Cap4 < Cap16 /\ Cap16 < Cap48 /\ Cap48 <= MaxByte

ASSUME CapAssumption

Bytes == 0 .. MaxByte

Layouts == {"node4", "node16", "node48", "node256"}

\* A full node grows before it takes another child; a node256 never is.
Full(n) ==
    \/ n.layout = "node4" /\ n.count = Cap4
    \/ n.layout = "node16" /\ n.count = Cap16
    \/ n.layout = "node48" /\ n.count = Cap48

IsSortedLayout(n) == n.layout \in {"node4", "node16"}

SortedNode(layout, keys, children) ==
    [layout |-> layout, count |-> Len(keys), keys |-> keys, children |-> children]

Node48(count, index, children) ==
    [layout |-> "node48", count |-> count, index |-> index, children |-> children]

Node256(count, children) ==
    [layout |-> "node256", count |-> count, children |-> children]

\* &node4{}
EmptyNode == SortedNode("node4", << >>, << >>)

-----------------------------------------------------------------------------
(* Reading *)

\* The place of a key in a sorted node.
PlaceOf(n, key) == CHOOSE i \in 1 .. n.count : n.keys[i] = key

HasPlace(n, key) == \E i \in 1 .. n.count : n.keys[i] = key

\* child
ChildAt(n, key) ==
    CASE IsSortedLayout(n) ->
            IF HasPlace(n, key) THEN n.children[PlaceOf(n, key)] ELSE Nil
      [] n.layout = "node48" ->
            IF n.index[key] = 0 THEN Nil ELSE n.children[n.index[key]]
      [] n.layout = "node256" -> n.children[key]

\* The bytes that have a child.
Taken(n) == {k \in Bytes : ChildAt(n, k) # Nil}

\* The same in the order of eachChild: the i-th has i - 1 others below it.
Edges(n) ==
    IF IsSortedLayout(n) THEN SubSeq(n.keys, 1, n.count)
    ELSE [i \in 1 .. Cardinality(Taken(n)) |->
            CHOOSE k \in Taken(n) : Cardinality({l \in Taken(n) : l < k}) = i - 1]

\* onlyChild, and the byte that leads there.
OnlyEdge(n) == Edges(n)[1]

-----------------------------------------------------------------------------
(* Changing the layout *)

\* grow4, grow16 and grow48
Grow(n) ==
    CASE n.layout = "node4" -> SortedNode("node16", n.keys, n.children)
      [] n.layout = "node16" ->
            Node48(n.count,
                   [k \in Bytes |-> IF HasPlace(n, k) THEN PlaceOf(n, k) ELSE 0],
                   [slot \in 1 .. Cap48 |->
                        IF slot <= n.count THEN n.children[slot] ELSE Nil])
      [] n.layout = "node48" -> Node256(n.count, [k \in Bytes |-> ChildAt(n, k)])

\* shrink256, shrink48 and shrink16: the children move in the order of their
\* bytes, into the first places.
Shrink(n) ==
    LET edges == Edges(n)
        children == [i \in 1 .. Len(edges) |-> ChildAt(n, edges[i])]
    IN  CASE n.layout = "node16" -> SortedNode("node4", edges, children)
          [] n.layout = "node48" -> SortedNode("node16", edges, children)
          [] n.layout = "node256" -> Grow(SortedNode("node16", edges, children))

\* Mutant: a node shrinks one child late.
MutFitsSmaller(n) ==
    \/ n.layout = "node16" /\ n.count < Cap4
    \/ n.layout = "node48" /\ n.count < Cap16
    \/ n.layout = "node256" /\ n.count < Cap48

FitsSmaller(n) ==
    \/ n.layout = "node16" /\ n.count <= Cap4
    \/ n.layout = "node48" /\ n.count <= Cap16
    \/ n.layout = "node256" /\ n.count <= Cap48

-----------------------------------------------------------------------------
(* Adding, replacing and removing a child *)

\* Mutant: the slot after the last one counted.
MutFirstFree(n) == n.count + 1

\* firstFree
FirstFree(n) ==
    CHOOSE slot \in 1 .. Cap48 :
        /\ n.children[slot] = Nil
        /\ \A s \in 1 .. slot - 1 : n.children[s] # Nil

\* Mutant: a new key goes to the end.
MutPlaceFor(n, key) == n.count + 1

\* Where a new key goes: after the keys that are not greater.
PlaceFor(n, key) == Cardinality({i \in 1 .. n.count : n.keys[i] <= key}) + 1

\* addChild to a node that has room
AddToRoom(n, key, child) ==
    CASE IsSortedLayout(n) ->
            SortedNode(n.layout, InsertAt(n.keys, PlaceFor(n, key), key),
                       InsertAt(n.children, PlaceFor(n, key), child))
      [] n.layout = "node48" ->
            Node48(n.count + 1, [n.index EXCEPT ![key] = FirstFree(n)],
                   [n.children EXCEPT ![FirstFree(n)] = child])
      [] n.layout = "node256" ->
            Node256(IF n.children[key] = Nil THEN n.count + 1 ELSE n.count,
                    [n.children EXCEPT ![key] = child])

\* addChild, for a key that has no child
AddChild(n, key, child) == AddToRoom(IF Full(n) THEN Grow(n) ELSE n, key, child)

\* replaceChild, for a key that has one: it panics for any other
ReplaceChild(n, key, child) ==
    CASE IsSortedLayout(n) -> [n EXCEPT !.children[PlaceOf(n, key)] = child]
      [] n.layout = "node48" -> [n EXCEPT !.children[n.index[key]] = child]
      [] n.layout = "node256" -> [n EXCEPT !.children[key] = child]

\* removeChild, for a key that has one, before the node shrinks
CutChild(n, key) ==
    CASE IsSortedLayout(n) ->
            SortedNode(n.layout, RemoveAt(n.keys, PlaceOf(n, key)),
                       RemoveAt(n.children, PlaceOf(n, key)))
      [] n.layout = "node48" ->
            Node48(n.count - 1, [n.index EXCEPT ![key] = 0],
                   [n.children EXCEPT ![n.index[key]] = Nil])
      [] n.layout = "node256" ->
            Node256(n.count - 1, [n.children EXCEPT ![key] = Nil])

\* removeChild
RemoveChild(n, key) ==
    LET cut == CutChild(n, key)
    IN  IF FitsSmaller(cut) THEN Shrink(cut) ELSE cut
=============================================================================
