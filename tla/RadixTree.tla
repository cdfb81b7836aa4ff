----------------------------- MODULE RadixTree -----------------------------
(***************************************************************************)
(* The radix tree of goheap/tree.go, which holds every key of a store.     *)
(*                                                                         *)
(* A node covers the bytes of its prefix, may hold the value of the key    *)
(* that ends there, and has children by the next byte, in the layouts of   *)
(* ArtNode.  Insert splits a node whose prefix the key leaves half way;    *)
(* Delete merges a node that has neither a value nor two children with     *)
(* what is left of it.  A key's remaining bytes are handed down here where *)
(* the code hands down the depth.                                          *)
(***************************************************************************)
EXTENDS ArtNode

CONSTANTS Keys, \* the keys used
          Vals, \* the values used
          None  \* no value

\* Of the keys and values of an instance.
KeysAssumption ==
    /\ Keys \subseteq Seq(Bytes)
    /\ None \notin Vals

VARIABLE root

\* What is left of a key below a prefix of it.
Beyond(prefix, key) == SubSeq(key, Len(prefix) + 1, Len(key))

\* newLeaf
Leaf(prefix, val) == [prefix |-> prefix, val |-> val, kids |-> EmptyNode]

-----------------------------------------------------------------------------
RECURSIVE Lookup(_, _)

\* get: the value of a key below node n.
Lookup(n, key) ==
    IF n = Nil THEN None
    ELSE LET rest == Beyond(n.prefix, key)
         IN  CASE ~ IsPrefix(n.prefix, key) -> None
               [] key = n.prefix -> n.val
               [] OTHER -> Lookup(ChildAt(n.kids, Head(rest)), Tail(rest))

-----------------------------------------------------------------------------
(* insertNode *)

\* Mutant: the node below keeps the byte that leads to it.
MutSplit(n, common, rest, val) ==
    LET old == Beyond(common, n.prefix)
        one == AddChild(EmptyNode, Head(old), [n EXCEPT !.prefix = old])
    IN  IF rest = << >>
        THEN [prefix |-> common, val |-> val, kids |-> one]
        ELSE [prefix |-> common, val |-> None,
              kids |-> AddChild(one, Head(rest), Leaf(Tail(rest), val))]

\* A new node above n for the bytes they have in common, which holds the value
\* itself if the key ends there.
Split(n, common, rest, val) ==
    LET old == Beyond(common, n.prefix)
        one == AddChild(EmptyNode, Head(old), [n EXCEPT !.prefix = Tail(old)])
    IN  IF rest = << >>
        THEN [prefix |-> common, val |-> val, kids |-> one]
        ELSE [prefix |-> common, val |-> None,
              kids |-> AddChild(one, Head(rest), Leaf(Tail(rest), val))]

RECURSIVE InsertNode(_, _, _)

InsertNode(n, key, val) ==
    IF n = Nil THEN Leaf(key, val)
    ELSE LET common == LongestCommonPrefix({n.prefix, key})
             rest == Beyond(common, key)
             child == ChildAt(n.kids, Head(rest))
         IN  CASE common # n.prefix -> Split(n, common, rest, val)
               [] common = n.prefix /\ rest = << >> -> [n EXCEPT !.val = val]
               [] OTHER ->
                    [n EXCEPT !.kids =
                        IF child = Nil
                        THEN AddChild(@, Head(rest), Leaf(Tail(rest), val))
                        ELSE ReplaceChild(@, Head(rest),
                                          InsertNode(child, Tail(rest), val))]

-----------------------------------------------------------------------------
(* deleteNode *)

\* Mutant: an only child is left where it is.
MutCompact(n) == IF n.val = None /\ n.kids.count = 0 THEN Nil ELSE n

\* compactNode
Compact(n) ==
    CASE n.val # None -> n
      [] n.val = None /\ n.kids.count = 0 -> Nil
      [] n.val = None /\ n.kids.count = 1 ->
            LET edge == OnlyEdge(n.kids)
            IN  [ChildAt(n.kids, edge) EXCEPT !.prefix = n.prefix \o <<edge>> \o @]
      [] OTHER -> n

RECURSIVE DeleteNode(_, _)

\* What is left of n, and whether the key was there: only then is anything
\* above it changed.
DeleteNode(n, key) ==
    LET kept == [node |-> n, deleted |-> FALSE]
        Changed(m) == [node |-> Compact(m), deleted |-> TRUE]
    IN  IF n = Nil THEN kept
        ELSE LET rest == Beyond(n.prefix, key)
                 edge == Head(rest)
                 below == DeleteNode(ChildAt(n.kids, edge), Tail(rest))
             IN  CASE ~ IsPrefix(n.prefix, key) -> kept
                   [] key = n.prefix ->
                        IF n.val = None THEN kept ELSE Changed([n EXCEPT !.val = None])
                   [] OTHER ->
                        IF ~ below.deleted THEN kept
                        ELSE Changed([n EXCEPT !.kids =
                                IF below.node = Nil THEN RemoveChild(@, edge)
                                ELSE ReplaceChild(@, edge, below.node)])

-----------------------------------------------------------------------------
(* RangePrefix, for a callback that never stops it *)

RECURSIVE Walk(_, _)

\* walkNode: the pairs of n, which is reached by path, and of all below it.
Walk(n, path) ==
    LET edges == Edges(n.kids)
        Below(edge) ==
            LET child == ChildAt(n.kids, edge)
            IN  Walk(child, path \o <<edge>> \o child.prefix)
    IN  (IF n.val = None THEN << >> ELSE << <<path, n.val>> >>)
            \o FlattenSeq([i \in 1 .. Len(edges) |-> Below(edges[i])])

\* Mutant: a prefix that ends inside a node's own misses the node.
MutRangeFrom(n, prefix, path) ==
    IF n # Nil /\ prefix = n.prefix THEN Walk(n, path \o n.prefix) ELSE << >>

RECURSIVE RangeFrom(_, _, _)

\* rangePrefixNode
RangeFrom(n, prefix, path) ==
    IF n = Nil THEN << >>
    ELSE LET rest == Beyond(n.prefix, prefix)
         IN  CASE IsPrefix(prefix, n.prefix) -> Walk(n, path \o n.prefix)
               [] IsStrictPrefix(n.prefix, prefix) ->
                    RangeFrom(ChildAt(n.kids, Head(rest)), Tail(rest),
                              path \o n.prefix \o <<Head(rest)>>)
               [] OTHER -> << >>

RangePrefix(prefix) == RangeFrom(root, prefix, << >>)

-----------------------------------------------------------------------------
Init == root = Nil

Insert(key, val) == root' = InsertNode(root, key, val)

Delete(key) == root' = DeleteNode(root, key).node

Next ==
    \/ \E key \in Keys, val \in Vals : Insert(key, val)
    \/ \E key \in Keys : Delete(key)

Spec == Init /\ [][Next]_root

-----------------------------------------------------------------------------
(* Properties *)

Value(key) == Lookup(root, key)

\* The tree is a map: splits, merges and changes of layout keep every key at
\* its value, and Insert and Delete touch no key but their own.
Map == INSTANCE KeyMap WITH map <- [k \in Keys |-> Value(k)]
ImplementsKeyMap == Map!Spec

\* The order of keys by bytes.
Less(k, l) ==
    \/ IsStrictPrefix(k, l)
    \/ \E n \in 1 .. Min({Len(k), Len(l)}) :
          SubSeq(k, 1, n - 1) = SubSeq(l, 1, n - 1) /\ k[n] < l[n]

\* The prefixes asked for: those of a key, and one byte beyond.
Queries == UNION {{SubSeq(k, 1, n) : n \in 0 .. Len(k)} : k \in Keys}
               \cup {Append(k, b) : k \in Keys, b \in Bytes}

\* RangePrefix, by which DelTree finds what to delete and an overlay's layers
\* are compared, visits exactly the keys with the prefix, in order, wherever
\* in a node the prefix ends.
RangeExact ==
    \A prefix \in Queries :
        LET found == {k \in Keys : IsPrefix(prefix, k) /\ Value(k) # None}
            pairs == RangePrefix(prefix)
        IN  /\ ToSet(pairs) = {<<k, Value(k)>> : k \in found}
            /\ \A i \in 2 .. Len(pairs) : Less(pairs[i - 1][1], pairs[i][1])

RECURSIVE NodesOf(_)
NodesOf(n) ==
    IF n = Nil THEN {}
    ELSE {n} \cup UNION {NodesOf(ChildAt(n.kids, edge)) : edge \in ToSet(Edges(n.kids))}

\* Every node holds a value or parts two subtrees, so that the shape of the
\* tree depends on its keys alone and deletes leave no chains behind.
Compressed == \A n \in NodesOf(root) : n.val # None \/ n.kids.count > 1

\* The tree is as shallow as its keys allow, and ranges over it are exact.
WellFormed == Compressed /\ RangeExact
=============================================================================
