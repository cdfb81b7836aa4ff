---------------------------- MODULE GoheapReads ----------------------------
(***************************************************************************)
(* What the calls of goheap read of a tree t of keys: the operators of Get *)
(* and List.  They hold store.mu.RLock, so that t is never the tree in the *)
(* middle of a call that changes it.                                       *)
(***************************************************************************)
EXTENDS KVValues

\* The depths at which an ExtIndex directory lies on the way to dir d.
ExtDepths(t, d) == {n \in 0 .. Len(d) : ValueAt(t, Ancestor(d, n)).kind = "extindex"}

\* extFallbackPathLocked: where the nearest overlay above p, or p itself,
\* reads what it does not hold; NoPath if there is none.
Fallback(t, p) ==
    LET depths == ExtDepths(t, DirOf(p))
        n == Max(depths)
    IN  IF depths = {} THEN NoPath
        ELSE ValueAt(t, Ancestor(p, n)).ext \o Relative(p, Ancestor(p, n))

\* Get(dir, name): the local value, else that of the nearest overlay's target.
Get(t, p) ==
    LET far == Fallback(t, Parent(p))
    IN  IF Present(t, p) \/ p = Root \/ far = NoPath THEN ValueAt(t, p)
        ELSE ValueAt(t, Append(far, ChildName(p)))

\* readDirIndexLocked
DirIndex(t, d) == ValueAt(t, d).kids

\* Mutant: the target is listed only where the overlay lists nothing.
MutList(t, d) ==
    IF DirIndex(t, d) # {} \/ Fallback(t, d) = NoPath THEN DirIndex(t, d)
    ELSE DirIndex(t, Fallback(t, d))

\* List(dir, expandExt = TRUE)
List(t, d) ==
    DirIndex(t, d) \cup
        (IF Fallback(t, d) = NoPath THEN {} ELSE DirIndex(t, Fallback(t, d)))
=============================================================================
