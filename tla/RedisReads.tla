----------------------------- MODULE RedisReads ------------------------------
(***************************************************************************)
(* What the calls of the backend redis read of the keys t on the server:   *)
(* the links on a path, the index of a directory, and the operators of Get *)
(* and List.                                                               *)
(***************************************************************************)
EXTENDS KVValues

CONSTANT MaxHops \* bound: the links one after the other that a List follows

ASSUME HopsAssumption == MaxHops \in Nat

AsFile(p) == IF p = Root THEN Root ELSE [p EXCEPT ![Len(p)].dir = FALSE]

Slash(p) == IF p = Root THEN Root ELSE AsDir(p)

\* The depths at which p passes through a link: its key is spelled as a file.
LinkDepths(t, p) ==
    {n \in 1 .. Len(p) : ValueAt(t, AsFile(Ancestor(p, n))).kind = "ptr"}

Follows(t, p) == LinkDepths(t, p) # {}

\* resolveOne: the first link on the path is replaced by its target.  The
\* slash that ends the path is trimmed, and with a link on the way it is lost.
Pass(t, p) ==
    LET n == Min(LinkDepths(t, p))
        target == ValueAt(t, AsFile(Ancestor(p, n))).ext
        rest == SubSeq(p, n + 1, Len(p))
    IN  IF ~ Follows(t, p) THEN p
        ELSE IF rest = << >> THEN target
        ELSE AsFile(Slash(target) \o rest)

\* resolvePath as the reads of List and GetOne use it, in one step.
ResolvePath(t, p) ==
    LET hop[n \in 0 .. MaxHops] == IF n = 0 THEN p ELSE Pass(t, hop[n - 1])
    IN  IF Follows(t, p) THEN hop[MaxHops] ELSE p

\* readDirIndex
DirIndex(t, d) == ValueAt(t, d).kids

\* The key of a directory may hold any value; reading one that is no index panics.
NoIndex(t, d) == ValueAt(t, d).kind \in {"data", "ptr"}

\* List(d, expandExt = FALSE, resolve = TRUE)
ListOwn(t, d) ==
    LET r == ResolvePath(t, d) IN IF IsDir(r) THEN DirIndex(t, r) ELSE {}

ListPanics(t, d) ==
    LET r == ResolvePath(t, d) IN IsDir(r) /\ NoIndex(t, r)

\* Get(dir, name): directories only locally, files with one level of fallback.
Get(t, p) ==
    LET dir == ResolvePath(t, Parent(p))
        v == ValueAt(t, dir)
        own == ValueAt(t, Append(Slash(dir), Last(p)))
    IN  IF p = Root THEN ValueAt(t, Root)
        ELSE IF own.kind = "absent" /\ ~ IsDir(p) /\ v.kind = "extindex"
        THEN ValueAt(t, Append(v.ext, Last(p)))
        ELSE own

\* Mutant: the overlay's own names hide its target's.
MutList(t, d) ==
    LET own == ListOwn(t, d)
        v == ValueAt(t, ResolvePath(t, d))
    IN  IF v.kind = "extindex" /\ own = {} THEN DirIndex(t, v.ext) ELSE own

\* List(d, expandExt = TRUE, resolve = TRUE)
List(t, d) ==
    LET own == ListOwn(t, d)
        v == ValueAt(t, ResolvePath(t, d))
    IN  IF v.kind = "extindex" THEN own \cup DirIndex(t, v.ext) ELSE own
==============================================================================
