------------------------------ MODULE Display ------------------------------
(***************************************************************************)
(* What "kvspace tree", "list" and "dump" print of a store: FprintTree,    *)
(* the names that FprintList shows of a directory, and Walk.  They know    *)
(* the store by its Get and List alone, which are parameters here, and     *)
(* each backend has its own.  Between their calls nobody writes.           *)
(*                                                                         *)
(* A line is the path it is about and whether it shows the value.  Names   *)
(* of the form [i,j], which are printed as rows, do not occur.             *)
(***************************************************************************)
EXTENDS KVValues

CONSTANTS ListAll(_, _),   \* List(d, expandExt = TRUE) in store t
          ListOwn(_, _),   \* List(d, expandExt = FALSE)
          Read(_, _)       \* Get of the file or directory p

Line(p, value) == [path |-> p, value |-> value]

\* An index in the order it is stored in: any order, always the same one.
InOrder(S) == SetToSeq(S)

\* Mutant: the children of the target are stripped from the front.
MutStripExtChildren(t, d) ==
    LET own == InOrder(ListOwn(t, d))
        all == own \o InOrder(ListAll(t, d) \ ListOwn(t, d))
        far == Target(Read(t, d))
    IN  IF far = NoPath THEN all
        ELSE SubSeq(all, Cardinality(ListOwn(t, far)) + 1, Len(all))

\* StripExtChildren: List appends the names of an overlay's target that it does
\* not have itself, and as many names as the target has are cut off the end.
StripExtChildren(t, d) ==
    LET own == InOrder(ListOwn(t, d))
        all == own \o InOrder(ListAll(t, d) \ ListOwn(t, d))
        far == Target(Read(t, d))
    IN  IF far = NoPath THEN all
        ELSE SubSeq(all, 1, Len(all) - Cardinality(ListOwn(t, far)))

\* The children of d that are printed.
Printed(t, d, showExt) ==
    IF showExt THEN ListAll(t, d) ELSE Range(StripExtChildren(t, d))

Absents(v) == v.kind = "absent"

\* Mutant: a directory counts as one if it lists something itself.
MutHasDir(t, dir) == ListOwn(t, dir) # {}

\* A name has a directory: one that lists something, or whose key is there.
HasDir(t, dir) == ListOwn(t, dir) # {} \/ ~ Absents(Read(t, dir))

\* Every name on a line; the directories among them are printed below it.  The
\* order is by name, a file before the directory of the same name.
RECURSIVE FprintTree(_, _, _)
FprintTree(t, d, showExt) ==
    LET kids == Printed(t, d, showExt)
        Entry(c) ==
            LET p == Append(d, c)
            IN  IF c.dir /\ HasDir(t, p)
                THEN <<Line(p, FALSE)>> \o FprintTree(t, p, showExt)
                ELSE <<Line(p, ~ Absents(Read(t, p)))>>
        Both(name) ==
            FlattenSeq([i \in 1 .. 2 |->
                LET c == [name |-> name, dir |-> i = 2]
                IN  IF c \in kids THEN Entry(c) ELSE << >>])
        names == InOrder({c.name : c \in kids})
    IN  FlattenSeq([i \in 1 .. Len(names) |-> Both(names[i])])

\* Mutant: the path of the child is forgotten.
RECURSIVE MutWalk(_, _, _)
MutWalk(t, d, depth) ==
    LET Visit(c) == <<Append(d, c)>> \o (IF c.dir THEN << >> ELSE MutWalk(t, d, depth - 1))
        kids == InOrder(ListOwn(t, d))
    IN  IF depth = 0 THEN <<NoPath>>
        ELSE FlattenSeq([i \in 1 .. Len(kids) |-> Visit(kids[i])])

\* The paths that Walk of d calls fn with: its children, and below a file what
\* List finds of the directory of the same name, which for a link is its target.
\* Walk adds a slash to the path of a directory too, which has one, and below it
\* List finds nothing.
RECURSIVE Walk(_, _, _)
Walk(t, d, depth) ==
    LET Seen(p) == IF Absents(Read(t, p)) THEN << >> ELSE <<p>>
        Visit(c) ==
            LET p == Append(d, c)
            IN  Seen(p) \o (IF c.dir THEN << >> ELSE Walk(t, AsDir(p), depth - 1))
        kids == InOrder(ListOwn(t, d))
    IN  IF depth = 0 THEN <<NoPath>>
        ELSE FlattenSeq([i \in 1 .. Len(kids) |-> Visit(kids[i])])

-----------------------------------------------------------------------------
(* Properties, of a store t *)

PathsOf(lines) == [i \in DOMAIN lines |-> lines[i].path]

\* Get finds p, and every directory on the way to it.
Reached(t, p) == \A n \in 1 .. Len(p) : ~ Absents(Read(t, Ancestor(p, n)))

\* "kvspace tree" of the whole store has a line for every key that a client can
\* reach from the root, with the value if it is a file, and none twice.
TreeExact(t) ==
    LET lines == FprintTree(t, Root, TRUE)
    IN  /\ IsInjective(PathsOf(lines))
        /\ \A p \in Paths \ {Root} : Reached(t, p) => Line(p, ~ IsDir(p)) \in Range(lines)

\* With --showext=false the children of an overlay that are printed first are
\* its own, all of them and no others.
OverlayOwn(t) ==
    \A d \in Dirs :
        Target(Read(t, d)) # NoPath => Range(StripExtChildren(t, d)) = ListOwn(t, d)

\* Walk ends, its recursion being no deeper than depth, and visits no path twice.
WalkEnds(t, depth) ==
    \A d \in Dirs :
        LET visited == Walk(t, d, depth)
        IN  NoPath \notin Range(visited) /\ IsInjective(visited)
============================================================================
