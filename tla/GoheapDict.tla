----------------------------- MODULE GoheapDict -----------------------------
(***************************************************************************)
(* Dict directories in goheap.  Every call runs under store.mu, so that it *)
(* is one step; a Set keeps the indexes it touches in a cache that is      *)
(* written back at its end.                                                *)
(***************************************************************************)
EXTENDS DictKeys

\* Mutant: the dict directory is not entered in its parent.
MutSetMembers(S) ==
    /\ has' = has \cup {DictOf(t) : t \in Touched(S)}
    /\ members' = members \cup S
    /\ kids' = [t \in Names |->
                   IF t \notin Touched(S) THEN kids[t] ELSE MembersOf(t, S)]
    /\ UNCHANGED <<asIndex, index>>

\* Set of members.  The cache takes a key of kind dict for a missing one, and
\* so a dict directory begins anew with the members of this call; one whose
\* key holds an index is loaded.
SetMembers(S) ==
    /\ has' = has \cup {DictOf(t) : t \in Touched(S)}
    /\ index' = index \cup {DictOf(t) : t \in Touched(S)}
    /\ members' = members \cup S
    /\ kids' = [t \in Names |->
                   IF t \notin Touched(S) THEN kids[t]
                   ELSE IF t \in asIndex THEN kids[t] \cup MembersOf(t, S)
                   ELSE MembersOf(t, S)]
    /\ UNCHANGED asIndex

\* Mkindex makes the directory "/a/t/" or "/a/t./": ensureDirCachedLocked adds
\* the "/" whatever the path ends with.
Mkindex(e) ==
    /\ e.sort # "file"
    /\ SetEntry(IF e.sort = "dict" THEN [e EXCEPT !.sort = "dictdir"] ELSE e)

\* resolveParentLocked: the path of a dict directory, which has no "/" to cut
\* off, gets one all the same.
Deleted(e) == IF e.sort = "dict" THEN [e EXCEPT !.sort = "dictdir"] ELSE e

Del(e) == Delete({Deleted(e)}, {}, {Deleted(e)})

\* collectTreeKeysLocked: with a file go the keys that go on with "/" or ".".
Collected(e) ==
    CASE e.sort = "file" -> Of(e.name, Sorts)
      [] e.sort = "dict" -> Of(e.name, {"dict", "dictdir"})
      [] OTHER -> {e}

\* Mutant: what goes with a file does not include its members.
MutCollectedMembers(e) == {m \in members : m.dict = e.name /\ e.sort = "dict"}

CollectedMembers(e) == {m \in members : m.dict = e.name /\ e.sort \in {"file", "dict"}}

\* DelTree deletes what it collects, and takes the names of those keys, and its
\* own name, out of the indexes.
DelTree(e) == Delete(Collected(e), CollectedMembers(e), Collected(e))

Next ==
    \/ \E S \in Batches : SetMembers(S)
    \/ \E m \in Member : DelMember(m)
    \/ \E e \in [name: Names, sort: Used] :
          \/ e.sort # "dict" /\ SetEntry(e)
          \/ Mkindex(e)
          \/ Del(e)
          \/ DelTree(e)
    \/ \E t \in Names, names \in Lists : SetDict(t, names)

Spec == Init /\ [][Next]_vars
=============================================================================
