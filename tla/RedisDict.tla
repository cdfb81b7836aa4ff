------------------------------ MODULE RedisDict ------------------------------
(***************************************************************************)
(* Dict directories in the backend redis, for calls that do not overlap:   *)
(* what concurrent calls do to an index is the subject of RedisStore.  The *)
(* connection may break while the pipeline of a Set is sent, after which   *)
(* some of its commands have been executed and the rest never are; Spec is *)
(* without such breaks, BreakingSpec with them.                            *)
(***************************************************************************)
EXTENDS DictKeys

\* The key of a new dict directory is first set to an index of kind dict with
\* no names.  Its bytes are those of a Dict value, and as such they are read.
Hollow(t) == DictOf(t) \in has /\ t \notin asIndex /\ kids[t] = {}

\* Mutant: of a dict directory that is there the list is not read.
MutSetMembers(S) ==
    /\ \A t \in Touched(S) : ~ Hollow(t)
    /\ has' = has \cup {DictOf(t) : t \in Touched(S)}
    /\ index' = index \cup {DictOf(t) : t \in Touched(S)}
    /\ members' = members \cup S
    /\ kids' = [t \in Names |->
                   IF t \in Touched(S) THEN MembersOf(t, S) ELSE kids[t]]
    /\ asIndex' = asIndex \ Touched(S)

\* Set of members: their names join those that their dict directory has, and
\* it becomes one of kind dict whatever its kind was.  The value of a hollow one
\* is of no kind that Set expects, and it panics before it sends anything.
SetMembers(S) ==
    /\ \A t \in Touched(S) : ~ Hollow(t)
    /\ has' = has \cup {DictOf(t) : t \in Touched(S)}
    /\ index' = index \cup {DictOf(t) : t \in Touched(S)}
    /\ members' = members \cup S
    /\ kids' = [t \in Names |-> kids[t] \cup MembersOf(t, S)]
    /\ asIndex' = asIndex \ Touched(S)

\* Mutant: the members come first in the pipeline.
MutSetCut(S) ==
    /\ \A t \in Touched(S) : ~ Hollow(t)
    /\ \E P \in SUBSET S, D \in SUBSET Touched(S) :
          /\ has' = has \cup {DictOf(t) : t \in D}
          /\ members' = members \cup P
    /\ UNCHANGED <<index, kids, asIndex>>

\* The same pipeline cut off: the members P are written, the dict directories D
\* have a key, and when P is all of S, also the lists L and, if named, the index
\* of "/a/", in the order of a Go map.
SetCut(S) ==
    /\ \A t \in Touched(S) : ~ Hollow(t)
    /\ \E P \in SUBSET S, D, L \in SUBSET Touched(S), named \in BOOLEAN :
          /\ Touched(P) \subseteq D
          /\ P # S => L = {} /\ ~ named
          /\ has' = has \cup {DictOf(t) : t \in D}
          /\ index' = IF named THEN index \cup {DictOf(t) : t \in D} ELSE index
          /\ members' = members \cup P
          /\ kids' = [t \in Names |-> IF t \in L THEN kids[t] \cup MembersOf(t, S)
                                     ELSE kids[t]]
          /\ asIndex' = asIndex \ L

\* Mkindex enters the name of the directory "/a/t/" or "/a/t./" in its parent
\* and writes no key for it.
Mkindex(e) ==
    /\ e.sort # "file"
    /\ index' = index \cup {IF e.sort = "dict" THEN [e EXCEPT !.sort = "dictdir"] ELSE e}
    /\ UNCHANGED <<has, members, kids, asIndex>>

\* The sorts of the entries of one name that go, and those that are unlisted.
\* Del of "/a/t." goes to "/a/t/" (resolveParent), with which the file "/a/t"
\* is deleted, as "/a/t." is with "/a/t./".
DelSorts(sort) ==
    CASE sort = "file" -> {"file"}
      [] sort \in {"dir", "dict"} -> {"file", "dir"}
      [] OTHER -> {"dict", "dictdir"}

\* removeChild takes a name out with and without the "/".
DelNames(sort) == IF sort = "dictdir" THEN {"dict", "dictdir"} ELSE {"file", "dir"}

Del(e) == Delete(Of(e.name, DelSorts(e.sort)), {}, Of(e.name, DelNames(e.sort)))

\* collectKeys: all keys that begin with the path.
DelTreeSorts(sort) ==
    CASE sort = "file" -> Sorts
      [] sort = "dict" -> {"dict", "dictdir"}
      [] OTHER -> {sort}

DelTreeMembers(e) == {m \in members : m.dict = e.name /\ e.sort \in {"file", "dict"}}

\* Mutant: only the name itself is unlisted.
MutDelTreeNames(sort) == IF sort = "dict" THEN {"file"} ELSE {sort}

\* parentName cuts "/" or "." off, and removeChild takes the name that is left,
\* and the same with a ".", out of the parent.
DelTreeNames(sort) == IF sort = "dictdir" THEN {"dict", "dictdir"} ELSE Sorts

DelTree(e) ==
    Delete(Of(e.name, DelTreeSorts(e.sort)), DelTreeMembers(e),
           Of(e.name, DelTreeNames(e.sort)))

Next ==
    \/ \E S \in Batches : SetMembers(S)
    \/ \E m \in Member : DelMember(m)
    \/ \E e \in [name: Names, sort: Used] :
          \/ e.sort # "dict" /\ SetEntry(e)
          \/ Mkindex(e)
          \/ Del(e)
          \/ DelTree(e)
    \/ \E t \in Names, names \in Lists : SetDict(t, names)

BreakingNext == Next \/ \E S \in Batches : SetCut(S)

Spec == Init /\ [][Next]_vars
BreakingSpec == Init /\ [][BreakingNext]_vars

-----------------------------------------------------------------------------
(* Properties *)

\* While no connection breaks the dict directories that are there are those that
\* "/a/" lists.
DictsListed == \A t \in Names : DictOf(t) \in index <=> DictOf(t) \in has

\* What a broken call leaves is a directory that nobody lists, or one that does
\* not list its members, but no name and no member whose directory is missing.
DictsKept ==
    \A t \in Names : DictOf(t) \in index \/ t \in Touched(members) => DictOf(t) \in has

\* While no connection breaks: a dict directory lists every member that is there,
\* "/a/" every dict directory, and neither a name nor a member is without its
\* directory, whatever Set, Del and DelTree of redis/kvspace.go cut off a name
\* and put on it.
RedisDicts == MembersListed /\ DictsListed /\ DictsKept
==============================================================================
