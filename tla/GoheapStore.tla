---------------------------- MODULE GoheapStore ----------------------------
(***************************************************************************)
(* The in-process store of goheap/backend.go: one radix tree of keys, read *)
(* under store.mu.RLock and changed under store.mu.Lock.                   *)
(*                                                                         *)
(* A directory's key holds an index of its children; an ExtIndex directory *)
(* overlays a read-only directory (its target): what is absent below it is *)
(* read from the target, and what the target holds may be neither written  *)
(* nor deleted through the overlay.  The bindings are kept twice, in the   *)
(* ExtIndex values of the tree and in the map exts, and Set keeps a third  *)
(* copy of the indexes it touches, the cache it writes back when it        *)
(* returns.  What can go wrong is that these copies, the keys and the two  *)
(* layers of an overlay part company.                                      *)
(*                                                                         *)
(* A call that loops (Set over its pairs and their ancestors, Mkindex,     *)
(* ExtIndex, Del over its keys) is a first step that takes the lock and    *)
(* one step per iteration; op is its stack frame.  No other call runs      *)
(* while op is not Idle, because all of them need the lock.                *)
(***************************************************************************)
EXTENDS GoheapReads, FiniteSets

CONSTANTS Batches,       \* the argument lists of Set
          DelCalls,      \* the argument lists of Del
          DelTreeCalls,  \* the arguments of DelTree
          MkindexCalls,  \* the arguments of Mkindex
          ExtIndexCalls, \* the pairs <<path, extpath>> of ExtIndex
          DelExtCalls    \* the arguments of DelExtIndex

VARIABLES tree,    \* store.tree: the value of every key, Absent where there is none
          exts,    \* store.exts: the target of every ExtIndex directory
          indexes, \* the dirty entries of the running call's indexCache
          op       \* the frame of the call that holds store.mu

vars == <<tree, exts, indexes, op>>

-----------------------------------------------------------------------------
(* The frame of the call that holds the lock *)

Pair == [key: Paths, val: Value]

Calls == {"none", "Set", "Mkindex", "ExtIndex", "Del"}
Frame == [call: Calls,
          at: Int,              \* Ancestor(dir, at) is the next directory to ensure
          dir: Dirs,            \* the directory ensureDir makes
          pairs: Seq(Pair),     \* Set: the pairs still to apply
          keys: Seq(Paths),     \* Del: the keys still to delete
          path: Paths]          \* ExtIndex: the new overlay

CallsAssumption ==
    /\ Batches \subseteq Seq(Pair)
    /\ DelCalls \subseteq Seq(Paths)
    /\ DelTreeCalls \subseteq Paths
    /\ MkindexCalls \subseteq Dirs
    /\ ExtIndexCalls \subseteq Dirs \X Dirs
    /\ DelExtCalls \subseteq Paths

ASSUME CallsAssumption

\* No file is set to None.  Set would take it and store no bytes: a key that is
\* listed and that Get does not find.
NoneAssumption ==
    \A batch \in Batches : \A i \in DOMAIN batch :
        IsDir(batch[i].key) \/ batch[i].val.kind # "absent"

ASSUME NoneAssumption

NotEnsuring == -1

Idle == [call |-> "none", at |-> NotEnsuring, dir |-> Root, pairs |-> << >>,
         keys |-> << >>, path |-> Root]

NoCache == [p \in Paths |-> Absent]

Returned == op = Idle

-----------------------------------------------------------------------------
(* Indexes: the cache over the tree *)

\* indexCachedLocked: the cache entry, loaded from the tree if there is none.
\* Only a dirty entry can differ from the tree, so the cache keeps those.
View(t, c, p) ==
    IF p \in Paths /\ c[p] # Absent THEN c[p] ELSE ValueAt(t, p)

\* Mutant: a cached index is written back as an ordinary one.
MutAddChild(t, c, parent, name) ==
    LET kids == View(t, c, parent).kids
    IN  IF name \in kids THEN c
        ELSE [c EXCEPT ![parent] = IndexOf(kids \cup {name})]

\* addChildCachedLocked
AddChild(t, c, parent, name) ==
    LET v == View(t, c, parent)
        dir == IF v.kind = "absent" THEN IndexOf({}) ELSE v
    IN  IF name \in v.kids THEN c
        ELSE [c EXCEPT ![parent] = [dir EXCEPT !.kids = @ \cup {name}]]

\* flushIndexesLocked
Flush(t, c) == [p \in Paths |-> IF c[p] # Absent THEN c[p] ELSE t[p]]

\* Mutant: the names are looked up without the "/" of directories.
MutRemoveNames(t, S) ==
    [d \in Paths |->
        IF t[d].kind \in DirKinds
        THEN [t[d] EXCEPT !.kids =
                @ \ {[ChildName(p) EXCEPT !.dir = FALSE] :
                         p \in {q \in S \ {Root} : Parent(q) = d}}]
        ELSE t[d]]

\* removeChildLocked for every key of S that is gone: its name leaves the
\* index of its parent, if that still has one.
RemoveNames(t, S) ==
    [d \in Paths |->
        IF t[d].kind \in DirKinds
        THEN [t[d] EXCEPT !.kids =
                @ \ {ChildName(p) : p \in {q \in S \ {Root} : Parent(q) = d}}]
        ELSE t[d]]

-----------------------------------------------------------------------------
(* Overlays *)

\* Mutant: only directories are protected.
MutReadOnly(t, c, p) ==
    LET q == Fallback(t, p)
    IN  /\ IsDir(p) /\ ~ Present(t, p)
        /\ q # NoPath
        /\ Present(t, q) \/ ChildName(q) \in View(t, c, Parent(q)).kids

\* checkExtMutationLocked: p is not there, and its overlay's target has the
\* key or lists the name.
ReadOnly(t, c, p) ==
    LET q == Fallback(t, p)
    IN  /\ ~ Present(t, p)
        /\ q # NoPath
        /\ \/ Present(t, q)
           \/ ChildName(q) \in View(t, c, Parent(q)).kids

\* extBindingsLocked
Bound(e) == {l \in Dirs : e[l] # NoPath}

\* The name checkExtTargetMutation looks for in the overlay's index: the
\* first component below the target, spelled as a directory iff the whole
\* path is one.
FirstName(rel) == [name |-> rel[1].name, dir |-> Last(rel).dir]

\* Mutant: the target itself is protected, what is below it is not.
MutTargetConflict(t, e, c, p, newKids, withCache) ==
    \E l \in Bound(e) : p = e[l] /\ View(t, c, l).kids \cap newKids # {}

\* checkExtTargetMutationLocked: making key p in the target of an overlay
\* would give both layers the same name.  For a directory's new index it is
\* asked of the names that replace the old ones.
TargetConflict(t, e, c, p, newKids, withCache) ==
    \E l \in Bound(e) :
        /\ Under(p, e[l])
        /\ LET rel == Relative(p, e[l])
           IN  IF rel = << >>
               THEN View(t, c, l).kids \cap newKids # {}
               ELSE \/ withCache /\ FirstName(rel) \in View(t, c, l).kids
                    \/ \E n \in 1 .. Len(rel) : Present(t, l \o Ancestor(rel, n))

\* The part of validateExtTargetsLocked about directories: every target is an
\* ordinary index, no overlay lies on the way to it, and none below it.
Uncascaded(t, e) ==
    \A l \in Bound(e) :
        /\ t[e[l]].kind = "index"
        /\ ExtDepths(t, e[l]) = {}
        /\ \A o \in Bound(e) : ~ Under(o, e[l])

\* firstIndexCollision and firstExactSubtreeCollisionLocked: the two layers of
\* an overlay list no common name and hold no common key.
LayersApart(t, e) ==
    \A l \in Bound(e) :
        /\ t[l].kids \cap t[e[l]].kids = {}
        /\ \A p \in Keys(t) \ {l} :
              Under(p, l) => ~ Present(t, e[l] \o Relative(p, l))

\* validateExtTargetsLocked
ValidExts(t, e) == Uncascaded(t, e) /\ LayersApart(t, e)

\* Mutant: the loss of an overlay is checked instead.
MutBreaksExts(t, S, t2, e2) ==
    (\E p \in S : t[p].kind = "extindex") /\ ~ ValidExts(t2, e2)

\* Deleting the keys S, which leaves t2 and e2, takes an overlay's target away:
\* only the loss of an ordinary index is checked for it.
BreaksExts(t, S, t2, e2) ==
    (\E p \in S : t[p].kind = "index") /\ ~ ValidExts(t2, e2)

-----------------------------------------------------------------------------
(* Making directories *)

\* ensureSingleDirCachedLocked (with the cache) and the check of
\* canEnsureDirLocked (without it) refuse directory d.
DirRefused(t, e, c, d, withCache) ==
    IF Present(t, d) THEN t[d].kind \notin DirKinds
    ELSE d # Root /\ ( \/ TargetConflict(t, e, c, d, {}, withCache)
                       \/ ReadOnly(t, c, d) )

\* Mutant: the last directory is not checked.
MutCanEnsureDir(t, e, dir) ==
    \A n \in 0 .. Len(dir) - 1 : ~ DirRefused(t, e, NoCache, Ancestor(dir, n), FALSE)

\* canEnsureDirLocked
CanEnsureDir(t, e, dir) ==
    \A n \in 0 .. Len(dir) : ~ DirRefused(t, e, NoCache, Ancestor(dir, n), FALSE)

EnsuringDir == op.at \in 0 .. Len(op.dir)
EnsuredDir == op.at = Len(op.dir) + 1
NextDir == Ancestor(op.dir, op.at)

\* One iteration of ensureDirCachedLocked: the directory is made if it is not
\* there, and its parent lists it either way.
EnsureDir ==
    /\ EnsuringDir
    /\ ~ DirRefused(tree, exts, indexes, NextDir, TRUE)
    /\ tree' = IF Present(tree, NextDir) THEN tree
               ELSE [tree EXCEPT ![NextDir] = IndexOf({})]
    /\ indexes' = IF NextDir = Root THEN indexes
                  ELSE AddChild(tree, indexes, Parent(NextDir), ChildName(NextDir))
    /\ op' = [op EXCEPT !.at = @ + 1]
    /\ UNCHANGED exts

\* A return from a call that has an index cache: flushIndexesLocked, deferred.
FlushAndReturn ==
    /\ tree' = Flush(tree, indexes)
    /\ indexes' = NoCache
    /\ op' = Idle
    /\ UNCHANGED exts

-----------------------------------------------------------------------------
(* Set *)

\* Mutant: a file may hold an index.
MutValidPair(pair) == IsDir(pair.key) => pair.val.kind = "index"

\* The checks Set makes before it takes the lock: a directory takes an Index,
\* a file anything else but the two kinds of directories.
ValidPair(pair) ==
    IF IsDir(pair.key) THEN pair.val.kind = "index"
    ELSE pair.val.kind \in {"data", "ptr"}

\* ValidatePtr: what a link names is not there, or is of the kind the link has;
\* a link has the kind of some data, because Set reserves those of indexes.
ValidLink(t, v) == v.kind = "ptr" => Get(t, v.ext).kind \notin DirKinds

\* The first n pairs of the batch are valid and no more: what Set prepares.
PreparedPairs(t, batch, n) ==
    /\ \A i \in 1 .. n : ValidPair(batch[i]) /\ ValidLink(t, batch[i].val)
    /\ n < Len(batch) =>
          ~ (ValidPair(batch[n + 1]) /\ ValidLink(t, batch[n + 1].val))

\* A batch whose first pair is invalid changes nothing.
SetBegin(batch) ==
    /\ Returned
    /\ \E n \in 1 .. Len(batch) :
          /\ PreparedPairs(tree, batch, n)
          /\ op' = [Idle EXCEPT !.call = "Set", !.pairs = SubSeq(batch, 1, n)]
    /\ UNCHANGED <<tree, exts, indexes>>

\* SplitIndex gives a directory's key itself as the directory to ensure.
PairDir(pair) == IF IsDir(pair.key) THEN pair.key ELSE Parent(pair.key)

SetNextPair == op.call = "Set" /\ op.at = NotEnsuring /\ op.pairs # << >>

\* Mutant: the error returns without the flush.
MutSetConflict ==
    /\ SetNextPair
    /\ LET pair == Head(op.pairs)
       IN  TargetConflict(tree, exts, indexes, pair.key, pair.val.kids, TRUE)
    /\ indexes' = NoCache
    /\ op' = Idle
    /\ UNCHANGED <<tree, exts>>

\* checkExtTargetMutationLocked refuses the pair: the pairs before it stay.
SetConflict ==
    /\ SetNextPair
    /\ LET pair == Head(op.pairs)
       IN  TargetConflict(tree, exts, indexes, pair.key, pair.val.kids, TRUE)
    /\ FlushAndReturn

SetPair ==
    /\ SetNextPair
    /\ LET pair == Head(op.pairs)
       IN  /\ ~ TargetConflict(tree, exts, indexes, pair.key, pair.val.kids, TRUE)
           /\ op' = [op EXCEPT !.at = 0, !.dir = PairDir(pair)]
    /\ UNCHANGED <<tree, exts, indexes>>

\* checkExtMutationLocked, and replaceDirectoryCachedLocked for an ExtIndex.
WriteRefused(pair) ==
    \/ ReadOnly(tree, indexes, pair.key)
    \/ IsDir(pair.key) /\ View(tree, indexes, pair.key).kind # "index"

\* The pair is written: a directory's index to the cache, a file to the tree,
\* where the cached index of its parent gets its name.
SetWrite ==
    /\ op.call = "Set" /\ EnsuredDir
    /\ LET pair == Head(op.pairs)
       IN  /\ ~ WriteRefused(pair)
           /\ IF IsDir(pair.key)
              THEN /\ indexes' = [indexes EXCEPT ![pair.key] = pair.val]
                   /\ UNCHANGED tree
              ELSE /\ indexes' = AddChild(tree, indexes, Parent(pair.key),
                                          ChildName(pair.key))
                   /\ tree' = [tree EXCEPT ![pair.key] = pair.val]
    /\ op' = [Idle EXCEPT !.call = "Set", !.pairs = Tail(op.pairs)]
    /\ UNCHANGED exts

SetRefused ==
    /\ op.call = "Set"
    /\ \/ EnsuringDir /\ DirRefused(tree, exts, indexes, NextDir, TRUE)
       \/ EnsuredDir /\ WriteRefused(Head(op.pairs))
    /\ FlushAndReturn

SetReturn ==
    /\ op.call = "Set" /\ op.at = NotEnsuring /\ op.pairs = << >>
    /\ FlushAndReturn

-----------------------------------------------------------------------------
(* Mkindex *)

MkindexBegin(dir) ==
    /\ Returned
    /\ op' = [Idle EXCEPT !.call = "Mkindex", !.at = 0, !.dir = dir]
    /\ UNCHANGED <<tree, exts, indexes>>

\* Mkindex returns when every ancestor is there, or at the first refused one.
MkindexReturn ==
    /\ op.call = "Mkindex"
    /\ \/ EnsuredDir
       \/ EnsuringDir /\ DirRefused(tree, exts, indexes, NextDir, TRUE)
    /\ FlushAndReturn

-----------------------------------------------------------------------------
(* ExtIndex and DelExtIndex *)

\* Mutant: the bindings are checked without the new one.
MutExtIndexBegin(path, extpath) ==
    LET bound == [tree EXCEPT ![path] = ExtIndexOf(tree[path].kids, extpath)]
        ext2 == [exts EXCEPT ![path] = extpath]
    IN  /\ Returned
        /\ ~ ReadOnly(tree, NoCache, path)
        /\ ValidExts(tree, exts)
        /\ path # Root
        /\ CanEnsureDir(bound, ext2, Parent(path))
        /\ tree' = bound
        /\ exts' = ext2
        /\ op' = [Idle EXCEPT !.call = "ExtIndex", !.at = 0, !.dir = Parent(path),
                              !.path = path]
        /\ UNCHANGED indexes

\* The overlay is bound, checked, and unbound again if the check fails, which
\* leaves nothing changed; then the directories above it are made.  The code
\* can also restore the tree when that fails in the middle, which it never does:
\* EnsureSucceeds.
ExtIndexBegin(path, extpath) ==
    LET bound == [tree EXCEPT ![path] = ExtIndexOf(tree[path].kids, extpath)]
        ext2 == [exts EXCEPT ![path] = extpath]
    IN  /\ Returned
        /\ ~ ReadOnly(tree, NoCache, path)
        /\ Present(tree, path) => tree[path].kind \in DirKinds
        /\ ValidExts(bound, ext2)
        /\ CanEnsureDir(bound, ext2, Parent(path))
        /\ tree' = bound
        /\ exts' = ext2
        /\ op' = [Idle EXCEPT !.call = "ExtIndex", !.at = 0, !.dir = Parent(path),
                              !.path = path]
        /\ UNCHANGED indexes

\* The directories are made and listed, and the overlay is entered in its parent.
ExtIndexReturn ==
    /\ op.call = "ExtIndex" /\ EnsuredDir
    /\ tree' = Flush(tree, AddChild(tree, indexes, Parent(op.path), ChildName(op.path)))
    /\ indexes' = NoCache
    /\ op' = Idle
    /\ UNCHANGED exts

DelExtIndex(path) ==
    /\ Returned
    /\ tree[path].kind = "extindex"
    /\ tree' = [tree EXCEPT ![path] = IndexOf(@.kids)]
    /\ exts' = [exts EXCEPT ![path] = NoPath]
    /\ UNCHANGED <<indexes, op>>

-----------------------------------------------------------------------------
(* Del, DelTree and Clear *)

DelBegin(keys) ==
    /\ Returned
    /\ op' = [Idle EXCEPT !.call = "Del", !.keys = keys]
    /\ UNCHANGED <<tree, exts, indexes>>

\* delResolvedLocked for the next key.  If an index goes and the remaining
\* overlays are no longer valid, the key is put back and Del stops; exts is
\* not put back.
DelKey ==
    /\ op.call = "Del" /\ op.keys # << >>
    /\ LET key == Head(op.keys)
           cut == Without(tree, {key})
           ext2 == [exts EXCEPT ![key] = NoPath]
           invalid == BreaksExts(tree, {key}, cut, ext2)
       IN  IF ReadOnly(tree, NoCache, key)
           THEN op' = Idle /\ UNCHANGED <<tree, exts>>
           ELSE /\ exts' = ext2
                /\ tree' = IF invalid THEN [cut EXCEPT ![key] = tree[key]]
                           ELSE RemoveNames(cut, {key})
                /\ op' = IF invalid THEN Idle ELSE [op EXCEPT !.keys = Tail(@)]
    /\ UNCHANGED indexes

DelReturn ==
    /\ op.call = "Del" /\ op.keys = << >>
    /\ op' = Idle
    /\ UNCHANGED <<tree, exts, indexes>>

\* collectTreeKeysLocked: the keys at and below a directory; for a file, its
\* key and those of the directory of the same name.  Of a link DelTree deletes
\* the link alone.
Doomed(t, prefix) ==
    IF t[prefix].kind = "ptr" THEN {prefix}
    ELSE {p \in Keys(t) : IF IsDir(prefix) THEN Under(p, prefix)
                          ELSE p = prefix \/ Under(p, AsDir(prefix))}

\* All keys go or, when that leaves an overlay invalid, none.
DelTree(prefix) ==
    LET doomed == Doomed(tree, prefix)
        cut == Without(tree, doomed)
        ext2 == [p \in Paths |-> IF p \in doomed THEN NoPath ELSE exts[p]]
    IN  /\ Returned
        /\ ~ ReadOnly(tree, NoCache, prefix)
        /\ ~ BreaksExts(tree, doomed, cut, ext2)
        /\ tree' = RemoveNames(cut, IF doomed = {} THEN {prefix} ELSE doomed)
        /\ exts' = ext2
        /\ UNCHANGED <<indexes, op>>

Clear ==
    /\ Returned
    /\ tree' = NoCache
    /\ exts' = [p \in Paths |-> NoPath]
    /\ UNCHANGED <<indexes, op>>

-----------------------------------------------------------------------------
Init ==
    /\ tree = NoCache
    /\ exts = [p \in Paths |-> NoPath]
    /\ indexes = NoCache
    /\ op = Idle

\* A step of the store that is called with these arguments of Set, Del, DelTree
\* and ExtIndex.
NextOf(batches, dels, trees, mounts) ==
    \/ \E batch \in batches : SetBegin(batch)
    \/ SetConflict
    \/ SetPair
    \/ SetWrite
    \/ SetRefused
    \/ SetReturn
    \/ EnsureDir
    \/ \E dir \in MkindexCalls : MkindexBegin(dir)
    \/ MkindexReturn
    \/ \E call \in mounts : ExtIndexBegin(call[1], call[2])
    \/ ExtIndexReturn
    \/ \E path \in DelExtCalls : DelExtIndex(path)
    \/ \E keys \in dels : DelBegin(keys)
    \/ DelKey
    \/ DelReturn
    \/ \E prefix \in trees : DelTree(prefix)
    \/ Clear

Next == NextOf(Batches, DelCalls, DelTreeCalls, ExtIndexCalls)

Spec == Init /\ [][Next]_vars

-----------------------------------------------------------------------------
(* Properties *)

\* Every variable has its type, the keys of directories hold indexes and no
\* others do, and overlays have directories as targets.
TypeOK ==
    /\ tree \in [Paths -> Value]
    /\ \A p \in Paths :
          /\ tree[p].kind \in
                {"absent"} \cup IF p \in Dirs THEN DirKinds ELSE {"data", "ptr"}
          /\ tree[p].kind = "extindex" => tree[p].ext \in Dirs
    /\ exts \in [Paths -> Paths \cup {NoPath}]
    /\ indexes \in [Paths -> Value]
    /\ op \in Frame

\* The two records of the bindings agree: exts has the target of every
\* ExtIndex value of the tree and nothing else, through rebinding, rollbacks,
\* deletes that are undone and the write-back of cached indexes.
ExtsMirror == \A p \in Paths : exts[p] = Target(tree[p])

Overlays == {l \in Dirs : tree[l].kind = "extindex"}

\* No sequence of calls makes an overlay of an overlay, or takes the target
\* of an overlay away: what ErrExtCascade and ErrExtTarget refuse when an
\* overlay is bound stays excluded under every other call.
NoCascade ==
    \A l \in Overlays :
        /\ tree[tree[l].ext].kind = "index"
        /\ \A o \in Overlays : ~ Under(o, tree[l].ext) /\ ~ Under(tree[l].ext, o)

\* The layers of an overlay never hold the same key: what validateExtTargets
\* asks of a new overlay (ErrExtCollision) is kept by the calls that write.
LayersDisjoint ==
    Returned =>
        \A l \in Overlays : \A p \in Keys(tree) \ {l} :
            Under(p, l) => ~ Present(tree, tree[l].ext \o Relative(p, l))

\* Between calls an index names exactly the keys there are: every key but the
\* root is listed by its parent, and what is listed is there.
Coherent ==
    Returned =>
        /\ \A p \in Keys(tree) \ {Root} : ChildName(p) \in DirIndex(tree, Parent(p))
        /\ \A d \in Dirs : \A name \in DirIndex(tree, d) : Present(tree, Append(d, name))

\* Between calls no index names a key that is not there, whatever raw indexes
\* and bare deletes of directories the clients use.
NoDanglingNames ==
    Returned =>
        \A d \in Dirs : \A name \in DirIndex(tree, d) : Present(tree, Append(d, name))

\* The directories above a new overlay are never refused once canEnsureDir has
\* let them pass, though ensureDir checks more than it did (the cached indexes)
\* and on a tree it has changed: ExtIndex is never left half done.
EnsureSucceeds ==
    op.call = "ExtIndex" /\ EnsuringDir =>
        ~ DirRefused(tree, exts, indexes, NextDir, TRUE)

\* Through any overlay, List and Get agree: a client that descends by List
\* reaches exactly the keys that Get finds.
ListMatchesGet ==
    Returned =>
        \A p \in Paths \ {Root} :
            (ChildName(p) \in List(tree, Parent(p))) <=> (Get(tree, p).kind # "absent")

\* A step that deletes a key and brings another to light in its place.
Uncovering ==
    \E p \in Paths :
        /\ Present(tree, p) /\ ~ Present(tree', p) /\ exts' = exts
        /\ Get(tree', p).kind # "absent"

=============================================================================
