------------------------- MODULE GoheapStoreProofs -------------------------
(***************************************************************************)
(* Proofs about GoheapStore and GoheapClients, for all names, paths and    *)
(* calls.                                                                  *)
(*                                                                         *)
(* What the store keeps whatever is called (Spec):                         *)
(*                                                                         *)
(*    TypeOK, ExtsMirror and NoCascade, from IInv, which adds to them what *)
(*    a running call knows: CacheInv (a dirty index is that of a directory *)
(*    and has the same kind and target as the tree's value, so that        *)
(*    writing it back moves no overlay) and FrameInv (the pairs still to   *)
(*    apply have been validated);                                          *)
(*                                                                         *)
(*    EnsureSucceeds, from Making: the directories that ExtIndex still has *)
(*    to make would not be refused now.                                    *)
(*                                                                         *)
(* What it keeps for clients of one kind (ClientsSpec), where each part    *)
(* rests on those before it:                                               *)
(*                                                                         *)
(*    FilesDisjoint and NothingUncovered, from Layered: the layers of an   *)
(*    overlay hold no common key in the middle of a call either, the       *)
(*    directories above every key are there, and what Set has asked before *)
(*    it makes directories is still so;                                    *)
(*                                                                         *)
(*    NamesKept, from Naming: what an index names, in the tree or in the   *)
(*    cache, is there;                                                     *)
(*                                                                         *)
(*    FilesCoherent and with it FilesListed, from Listing: the index that  *)
(*    is read through the cache names every key.                           *)
(***************************************************************************)
EXTENDS GoheapClients, KVPathsProofs

-----------------------------------------------------------------------------
(* Values and indexes *)

LEMMA ValueTypes ==
  /\ Absent \in Value /\ Absent.kind = "absent"
  /\ \A kids \in SUBSET Child :
        /\ IndexOf(kids) \in Value
        /\ IndexOf(kids).kind = "index"
        /\ \A p \in Paths :
              /\ ExtIndexOf(kids, p) \in Value
              /\ ExtIndexOf(kids, p).kind = "extindex"
              /\ ExtIndexOf(kids, p).ext = p
BY DEF Absent, Plain, Value, Kinds, IndexOf, ExtIndexOf

\* The kinds of values a key may have.
KeyKinds(p) == {"absent"} \cup IF p \in Dirs THEN DirKinds ELSE {"data", "ptr"}

Stored(t) ==
    /\ t \in [Paths -> Value]
    /\ \A p \in Paths :
          /\ t[p].kind \in KeyKinds(p)
          /\ t[p].kind = "extindex" => t[p].ext \in Dirs

\* A dirty index of a directory, with the kind and the target of its value.
Dirty(t, c) ==
    \A p \in Paths : c[p] # Absent =>
        /\ p \in Dirs
        /\ c[p].kind \in DirKinds
        /\ t[p].kind = "extindex" <=> c[p].kind = "extindex"
        /\ c[p].kind = "extindex" => c[p].ext = t[p].ext

CacheInv ==
    /\ Returned \/ op.call = "Del" => indexes = NoCache
    /\ Dirty(tree, indexes)

FrameInv ==
    /\ \A i \in 1 .. Len(op.pairs) : ValidPair(op.pairs[i])
    /\ op.call = "Set" /\ op.at # NotEnsuring => op.pairs # << >>
    /\ op.call = "Del" => op.at = NotEnsuring
    /\ op.call = "ExtIndex" => op.path \in Dirs \ {Root}

IInv == TypeOK /\ ExtsMirror /\ Uncascaded(tree, exts) /\ CacheInv /\ FrameInv

LEMMA IdleFrame == Idle \in Frame
BY PathsAssumption
   DEF Idle, Frame, Calls, NotEnsuring, Dirs, IsDir, Root, PathsAssumption

LEMMA NoCacheType == NoCache \in [Paths -> Value] /\ \A t : Dirty(t, NoCache)
BY ValueTypes DEF NoCache, Dirty

LEMMA AddChildKeeps ==
  ASSUME NEW t, Stored(t), NEW c \in [Paths -> Value], Dirty(t, c),
         NEW d \in Dirs, NEW name \in Child
  PROVE  AddChild(t, c, d, name) \in [Paths -> Value] /\ Dirty(t, AddChild(t, c, d, name))
<1> DEFINE v == View(t, c, d)
           w == IF v.kind = "absent" THEN IndexOf({}) ELSE v
           u == [w EXCEPT !.kids = @ \cup {name}]
<1>1. d \in Paths /\ t[d] \in Value /\ t[d].kind \in {"absent"} \cup DirKinds
  BY DEF Stored, KeyKinds, Dirs
<1>2. v \in Value /\ v.kind \in {"absent"} \cup DirKinds
  BY <1>1 DEF View, ValueAt, Dirty
<1>3. w \in Value /\ w.kind \in DirKinds
  BY <1>2, ValueTypes DEF DirKinds
<1>4. u \in Value /\ u.kind = w.kind /\ u.ext = w.ext
  BY <1>3 DEF Value
<1>5. /\ t[d].kind = "extindex" <=> w.kind = "extindex"
      /\ w.kind = "extindex" => w.ext = t[d].ext
  BY <1>1, ValueTypes DEF View, ValueAt, Dirty, DirKinds
<1>6. AddChild(t, c, d, name) \in {c, [c EXCEPT ![d] = u]}
  BY DEF AddChild
<1> HIDE DEF v, w, u
<1>7. [c EXCEPT ![d] = u] \in [Paths -> Value] /\ Dirty(t, [c EXCEPT ![d] = u])
  BY <1>1, <1>3, <1>4, <1>5 DEF Dirty
<1> QED  BY <1>6, <1>7

\* Writing back the cache moves no overlay and keeps every index an index.
LEMMA FlushKeeps ==
  ASSUME NEW t, Stored(t), NEW c \in [Paths -> Value], Dirty(t, c)
  PROVE  /\ Stored(Flush(t, c))
         /\ \A p \in Paths :
               /\ Target(Flush(t, c)[p]) = Target(t[p])
               /\ t[p].kind \in DirKinds => Flush(t, c)[p].kind = t[p].kind
               /\ Flush(t, c)[p].kind = "extindex" => t[p].kind = "extindex"
BY DEF Stored, KeyKinds, Dirty, Flush, Target, DirKinds

LEMMA RemoveNamesKeeps ==
  ASSUME NEW t, Stored(t), NEW S
  PROVE  /\ Stored(RemoveNames(t, S))
         /\ \A p \in Paths :
               /\ RemoveNames(t, S)[p].kind = t[p].kind
               /\ RemoveNames(t, S)[p].ext = t[p].ext
<1> SUFFICES ASSUME NEW d \in Paths
             PROVE  /\ RemoveNames(t, S)[d] \in Value
                    /\ RemoveNames(t, S)[d].kind = t[d].kind
                    /\ RemoveNames(t, S)[d].ext = t[d].ext
  BY DEF Stored, KeyKinds, RemoveNames
<1> DEFINE gone == {ChildName(p) : p \in {q \in S \ {Root} : Parent(q) = d}}
<1>1. t[d] \in Value
  BY DEF Stored
<1>2. \/ RemoveNames(t, S)[d] = t[d]
      \/ RemoveNames(t, S)[d] = [t[d] EXCEPT !.kids = @ \ gone]
  BY DEF RemoveNames
<1> HIDE DEF gone
<1> QED  BY <1>1, <1>2 DEF Value

LEMMA WithoutKeeps ==
  ASSUME NEW t, Stored(t), NEW S
  PROVE  Stored(Without(t, S))
BY ValueTypes DEF Stored, KeyKinds, Without

\* Overlays that stay, over targets that stay indexes, stay uncascaded as
\* long as no key becomes an overlay.
LEMMA UncascadedKept ==
  ASSUME NEW t, NEW t2,
         NEW e \in [Paths -> Paths \cup {NoPath}], NEW e2 \in [Paths -> Paths \cup {NoPath}],
         Uncascaded(t, e),
         \A p \in Paths : e2[p] = e[p] \/ e2[p] = NoPath,
         \A p \in Paths : t2[p].kind = "extindex" => t[p].kind = "extindex",
         \A l \in Bound(e2) : t2[e2[l]].kind = "index"
  PROVE  Uncascaded(t2, e2)
<1>1. ASSUME NEW l \in Bound(e2)
      PROVE  l \in Bound(e) /\ e2[l] = e[l] /\ e2[l] \in Paths
  BY <1>1 DEF Bound, Dirs
<1>2. ASSUME NEW l \in Bound(e2)
      PROVE  ExtDepths(t2, e2[l]) = {}
  BY <1>1, <1>2, AncestorPath DEF ExtDepths, ValueAt, Uncascaded
<1>3. ASSUME NEW l \in Bound(e2), NEW o \in Bound(e2)
      PROVE  ~ Under(o, e2[l])
  BY <1>1, <1>3 DEF Uncascaded
<1> QED  BY <1>2, <1>3 DEF Uncascaded

LEMMA UncascadedSame ==
  ASSUME NEW t, NEW t2, NEW e \in [Paths -> Paths \cup {NoPath}], Uncascaded(t, e),
         \A p \in Paths : t2[p].kind = t[p].kind
  PROVE  Uncascaded(t2, e)
<1>1. \A l \in Bound(e) : e[l] \in Paths /\ t[e[l]].kind = "index"
  BY DEF Bound, Dirs, Uncascaded
<1>2. \A l \in Bound(e) : t2[e[l]].kind = "index"
  BY <1>1
<1> QED  BY <1>2, UncascadedKept

-----------------------------------------------------------------------------
(* The invariant and its steps *)

LEMMA InitInv == Init => IInv
<1> SUFFICES ASSUME Init PROVE IInv
  OBVIOUS
<1>1. tree \in [Paths -> Value] /\ indexes = NoCache /\ op = Idle
  BY NoCacheType DEF Init
<1>2. \A p \in Paths : tree[p] = Absent /\ exts[p] = NoPath
  BY DEF Init, NoCache
<1>3. TypeOK
  BY <1>1, <1>2, IdleFrame, NoCacheType, ValueTypes DEF Init, TypeOK
<1>4. ExtsMirror
  BY <1>2, ValueTypes DEF ExtsMirror, Target
<1>5. Uncascaded(tree, exts)
  BY <1>2 DEF Uncascaded, Bound, Dirs
<1>6. CacheInv /\ FrameInv
  BY <1>1, NoCacheType DEF CacheInv, FrameInv, Idle, Returned
<1> QED  BY <1>3, <1>4, <1>5, <1>6 DEF IInv

\* What IInv says, in the terms of the lemmas.
LEMMA IInvFacts ==
  ASSUME IInv
  PROVE  /\ Stored(tree)
         /\ exts \in [Paths -> Paths \cup {NoPath}]
         /\ indexes \in [Paths -> Value]
         /\ Dirty(tree, indexes)
         /\ \A p \in Paths : exts[p] = Target(tree[p])
         /\ Uncascaded(tree, exts)
         /\ \A l \in Bound(exts) : exts[l] \in Paths /\ tree[exts[l]].kind = "index"
BY DEF IInv, TypeOK, ExtsMirror, CacheInv, Stored, KeyKinds, Uncascaded,
       Bound, Dirs

\* A step that only changes the frame.
LEMMA FrameStep ==
  ASSUME IInv, UNCHANGED <<tree, exts, indexes>>, op' \in Frame, FrameInv',
         Returned' \/ op'.call = "Del" => indexes = NoCache
  PROVE  IInv'
BY DEF IInv, TypeOK, ExtsMirror, Uncascaded, Bound, ExtDepths, ValueAt, CacheInv,
       Dirty, Returned

\* A return that leaves the overlays as they are and flushes the cache.
LEMMA FlushStep ==
  ASSUME IInv, NEW c \in [Paths -> Value], Dirty(tree, c), tree' = Flush(tree, c),
         exts' = exts, indexes' = NoCache, op' = Idle
  PROVE  IInv'
<1> USE IInvFacts
<1>1. Stored(tree')
  BY FlushKeeps
<1>2. TypeOK'
  BY <1>1, IdleFrame, NoCacheType DEF TypeOK, Stored, KeyKinds
<1>3. ExtsMirror'
  BY FlushKeeps DEF ExtsMirror
<1>4. Uncascaded(tree', exts')
  <2>1. \A l \in Bound(exts') : tree'[exts'[l]].kind = "index"
    BY FlushKeeps DEF DirKinds
  <2>2. \A p \in Paths : tree'[p].kind = "extindex" => tree[p].kind = "extindex"
    BY FlushKeeps
  <2> QED  BY <2>1, <2>2, UncascadedKept
<1>5. CacheInv' /\ FrameInv'
  BY NoCacheType DEF CacheInv, FrameInv, Idle, Returned
<1> QED  BY <1>2, <1>3, <1>4, <1>5 DEF IInv

LEMMA EnsureDirStep ==
  ASSUME IInv, EnsureDir
  PROVE  IInv'
<1> USE IInvFacts
<1> DEFINE d == NextDir
<1>1. op \in Frame /\ op.dir \in Dirs /\ op.at \in 0 .. Len(op.dir)
  BY DEF EnsureDir, EnsuringDir, IInv, TypeOK, Frame
<1>2. d \in Dirs /\ d \in Paths /\ (d # Root => Parent(d) \in Dirs /\ ChildName(d) \in Child)
  <2>1. op.dir \in Paths
    BY <1>1 DEF Dirs
  <2>2. d \in Dirs /\ d \in Paths
    BY <1>1, <2>1, AncestorDir DEF NextDir, Dirs
  <2> QED  BY <2>2, ParentDir, ChildNameType
<1>3. tree' = tree \/ (tree[d].kind = "absent" /\ tree' = [tree EXCEPT ![d] = IndexOf({})])
  BY <1>2 DEF EnsureDir, Present, ValueAt
<1>4. exts' = exts /\ op' = [op EXCEPT !.at = @ + 1]
  BY DEF EnsureDir
<1>5. indexes' \in [Paths -> Value] /\ Dirty(tree, indexes')
  BY <1>2, AddChildKeeps DEF EnsureDir
<1> HIDE DEF d
<1>6. IndexOf({}) \in Value /\ IndexOf({}).kind = "index"
  BY ValueTypes
<1>7. Stored(tree')
  BY <1>2, <1>3, <1>6 DEF Stored, KeyKinds, DirKinds
<1>8. op' \in Frame
  BY <1>1, <1>4 DEF Frame
<1>9. TypeOK'
  BY <1>4, <1>5, <1>7, <1>8 DEF TypeOK, Stored, KeyKinds
<1>10. ExtsMirror'
  BY <1>2, <1>3, <1>4, <1>6 DEF ExtsMirror, Target, Stored
<1>11. Uncascaded(tree', exts')
  <2>1. \A l \in Bound(exts') : tree'[exts'[l]].kind = "index"
    BY <1>2, <1>3, <1>4, <1>6 DEF Stored
  <2>2. \A p \in Paths : tree'[p].kind = "extindex" => tree[p].kind = "extindex"
    BY <1>2, <1>3, <1>6 DEF Stored
  <2> QED  BY <1>4, <2>1, <2>2, UncascadedKept
<1>12. CacheInv'
  <2>1. Dirty(tree', indexes')
    BY <1>2, <1>3, <1>5, <1>6 DEF Dirty, Stored
  <2>2. op.call # "Del"
    BY <1>1 DEF IInv, FrameInv, NotEnsuring
  <2>3. op'.call # "Del" /\ op'.at # NotEnsuring
    BY <1>1, <1>4, <2>2 DEF Frame, NotEnsuring
  <2> QED  BY <2>1, <2>3 DEF CacheInv, Returned, Idle
<1>13. FrameInv'
  BY <1>1, <1>4 DEF IInv, FrameInv, Frame, NotEnsuring
<1> QED  BY <1>9, <1>10, <1>11, <1>12, <1>13 DEF IInv

LEMMA SetBeginStep ==
  ASSUME IInv, NEW batch \in Batches, SetBegin(batch)
  PROVE  IInv'
<1>1. PICK n \in 1 .. Len(batch) :
        /\ PreparedPairs(tree, batch, n)
        /\ op' = [Idle EXCEPT !.call = "Set", !.pairs = SubSeq(batch, 1, n)]
  BY DEF SetBegin
<1>2. batch \in Seq(Pair)
  BY CallsAssumption DEF CallsAssumption
<1>3. /\ SubSeq(batch, 1, n) \in Seq(Pair)
      /\ Len(SubSeq(batch, 1, n)) = n
      /\ \A i \in 1 .. n : SubSeq(batch, 1, n)[i] = batch[i]
  BY <1>2
<1>4. op' \in Frame
  BY <1>1, <1>3, IdleFrame DEF Frame, Calls
<1>5. op'.call = "Set" /\ op'.at = NotEnsuring /\ op'.pairs = SubSeq(batch, 1, n)
  BY <1>1 DEF Idle
<1>6. FrameInv'
  BY <1>1, <1>3, <1>5 DEF FrameInv, PreparedPairs
<1> QED  BY <1>4, <1>5, <1>6, FrameStep DEF SetBegin, CacheInv, IInv

LEMMA SetPairStep ==
  ASSUME IInv, SetPair
  PROVE  IInv'
<1> DEFINE pair == Head(op.pairs)
<1>1. op \in Frame /\ op.call = "Set" /\ op.pairs # << >> /\ ~ Returned
  BY DEF SetPair, SetNextPair, IInv, TypeOK, Returned, Idle
<1>2. pair \in Pair /\ pair.key \in Paths
  <2>1. op.pairs \in Seq(Pair)
    BY <1>1 DEF Frame
  <2>2. pair \in Pair
    BY <1>1, <2>1
  <2> QED  BY <2>2 DEF Pair
<1>3. PairDir(pair) \in Dirs
  BY <1>2, ParentDir DEF PairDir, Dirs
<1>4. op' = [op EXCEPT !.at = 0, !.dir = PairDir(pair)]
  BY DEF SetPair
<1> HIDE DEF pair
<1>5. op' \in Frame /\ op'.call = "Set" /\ op'.pairs = op.pairs
  <2> DEFINE dir == PairDir(pair)
  <2>1. dir \in Dirs /\ op' = [op EXCEPT !.at = 0, !.dir = dir]
    BY <1>3, <1>4
  <2> HIDE DEF dir
  <2>2. op' = [call |-> op.call, at |-> 0, dir |-> dir, pairs |-> op.pairs,
               keys |-> op.keys, path |-> op.path]
    BY <1>1, <2>1 DEF Frame
  <2>3. op'.call = "Set" /\ op'.pairs = op.pairs
    BY <1>1, <2>2
  <2>4. op' \in Frame
    BY <1>1, <2>1, <2>2 DEF Frame
  <2> QED  BY <2>3, <2>4
<1>6. FrameInv'
  BY <1>1, <1>5 DEF IInv, FrameInv
<1>7. ~ Returned'
  BY <1>5 DEF Returned, Idle
<1> QED  BY <1>5, <1>6, <1>7, FrameStep DEF SetPair

LEMMA SetWriteStep ==
  ASSUME IInv, SetWrite
  PROVE  IInv'
<1> USE IInvFacts
<1> DEFINE pair == Head(op.pairs)
           key == pair.key
<1>1. op \in Frame /\ op.call = "Set" /\ op.at # NotEnsuring /\ op.pairs # << >>
  <2>1. op \in Frame /\ op.call = "Set" /\ EnsuredDir
    BY DEF SetWrite, IInv, TypeOK
  <2>2. op.at # NotEnsuring
    BY <2>1, PathSeq DEF EnsuredDir, NotEnsuring, Frame, Dirs
  <2> QED  BY <2>1, <2>2 DEF IInv, FrameInv
<1>2. pair \in Pair /\ key \in Paths /\ pair.val \in Value
  <2>1. op.pairs \in Seq(Pair)
    BY <1>1 DEF Frame
  <2>2. pair \in Pair
    BY <1>1, <2>1
  <2> QED  BY <2>2 DEF Pair
<1>3. ValidPair(pair)
  <2>1. 1 \in 1 .. Len(op.pairs) /\ pair = op.pairs[1]
    BY <1>1 DEF Frame
  <2> QED  BY <2>1 DEF IInv, FrameInv
<1>4. exts' = exts /\ op' = [Idle EXCEPT !.call = "Set", !.pairs = Tail(op.pairs)]
  BY DEF SetWrite
<1>5. op' \in Frame /\ FrameInv' /\ op'.call = "Set"
  <2>1. /\ Tail(op.pairs) \in Seq(Pair)
        /\ Len(Tail(op.pairs)) = Len(op.pairs) - 1
        /\ \A i \in 1 .. Len(op.pairs) - 1 : Tail(op.pairs)[i] = op.pairs[i + 1]
    BY <1>1 DEF Frame
  <2>2. op' \in Frame
    BY <1>4, <2>1, IdleFrame DEF Frame, Calls
  <2>3. op'.call = "Set" /\ op'.at = NotEnsuring /\ op'.pairs = Tail(op.pairs)
    BY <1>4 DEF Idle
  <2>4. Len(op.pairs) \in Nat
    BY <1>1 DEF Frame
  <2>5. ASSUME NEW i \in 1 .. Len(Tail(op.pairs)) PROVE ValidPair(Tail(op.pairs)[i])
    <3>1. i + 1 \in 1 .. Len(op.pairs) /\ Tail(op.pairs)[i] = op.pairs[i + 1]
      BY <2>1, <2>4
    <3> QED  BY <3>1 DEF IInv, FrameInv
  <2> QED  BY <2>2, <2>3, <2>5 DEF FrameInv
<1>6. CASE IsDir(key)
  <2>1. tree' = tree /\ indexes' = [indexes EXCEPT ![key] = pair.val] /\ key \in Dirs
    BY <1>2, <1>6 DEF SetWrite, Dirs
  <2>2. pair.val.kind = "index" /\ tree[key].kind # "extindex"
    BY <1>2, <1>3, <1>6
       DEF SetWrite, WriteRefused, ValidPair, View, ValueAt, Dirty
  <2> HIDE DEF pair, key
  <2>3. indexes' \in [Paths -> Value] /\ Dirty(tree', indexes')
    BY <1>2, <2>1, <2>2 DEF Dirty, DirKinds
  <2>4. TypeOK' /\ ExtsMirror' /\ Uncascaded(tree', exts')
    BY <1>4, <1>5, <2>1, <2>3
       DEF IInv, TypeOK, ExtsMirror, Uncascaded, Bound, ExtDepths, ValueAt
  <2> QED  BY <1>5, <2>3, <2>4 DEF IInv, CacheInv, Returned, Idle
<1>7. CASE ~ IsDir(key)
  <2>1. /\ tree' = [tree EXCEPT ![key] = pair.val]
        /\ indexes' = AddChild(tree, indexes, Parent(key), ChildName(key))
        /\ key \notin Dirs /\ key # Root
    BY <1>7 DEF SetWrite, Dirs, IsDir
  <2>2. pair.val.kind \in {"data", "ptr"} /\ tree[key].kind \notin DirKinds
    BY <1>2, <1>3, <1>7, <2>1 DEF ValidPair, Stored, KeyKinds, DirKinds
  <2>3. indexes' \in [Paths -> Value] /\ Dirty(tree, indexes')
    BY <1>2, <2>1, ParentDir, ChildNameType, AddChildKeeps
  <2> HIDE DEF pair, key
  <2>4. Stored(tree')
    BY <1>2, <2>1, <2>2 DEF Stored, KeyKinds
  <2>5. \A p \in Paths : Target(tree'[p]) = Target(tree[p])
    BY <1>2, <2>1, <2>2 DEF Stored, Target, DirKinds
  <2>6. TypeOK' /\ ExtsMirror'
    BY <1>4, <1>5, <2>3, <2>4, <2>5 DEF TypeOK, ExtsMirror, Stored, KeyKinds
  <2>7. Uncascaded(tree', exts')
    <3>1. \A l \in Bound(exts') : tree'[exts'[l]].kind = "index"
      BY <1>2, <1>4, <2>1, <2>2 DEF Stored, DirKinds
    <3>2. \A p \in Paths : tree'[p].kind = "extindex" => tree[p].kind = "extindex"
      BY <1>2, <2>1, <2>2 DEF Stored
    <3> QED  BY <1>4, <3>1, <3>2, UncascadedKept
  <2>8. Dirty(tree', indexes')
    BY <1>2, <2>1, <2>3 DEF Dirty, Stored
  <2> QED  BY <1>5, <2>6, <2>7, <2>8 DEF IInv, CacheInv, Returned, Idle
<1> QED  BY <1>6, <1>7

LEMMA FlushReturnStep ==
  ASSUME IInv, FlushAndReturn
  PROVE  IInv'
BY IInvFacts, FlushStep DEF FlushAndReturn

LEMMA MkindexBeginStep ==
  ASSUME IInv, NEW dir \in MkindexCalls, MkindexBegin(dir)
  PROVE  IInv'
<1>1. dir \in Dirs
  BY CallsAssumption DEF CallsAssumption
<1>2. op' = [call |-> "Mkindex", at |-> 0, dir |-> dir, pairs |-> << >>,
             keys |-> << >>, path |-> Root]
  BY DEF MkindexBegin, Idle
<1>3. op' \in Frame /\ op'.call = "Mkindex" /\ op'.pairs = << >>
  BY <1>1, <1>2, PathsAssumption DEF Frame, Calls, PathsAssumption
<1>4. FrameInv' /\ ~ Returned'
  BY <1>3 DEF FrameInv, Returned, Idle
<1> QED  BY <1>3, <1>4, FrameStep DEF MkindexBegin

LEMMA ExtIndexBeginStep ==
  ASSUME IInv, NEW path \in Dirs, NEW extpath \in Dirs, ExtIndexBegin(path, extpath)
  PROVE  IInv'
<1> USE IInvFacts
<1> DEFINE v == ExtIndexOf(tree[path].kids, extpath)
<1>1. path \in Paths /\ extpath \in Paths
  BY DEF Dirs
<1>2. v \in Value /\ v.kind = "extindex" /\ v.ext = extpath
  <2>1. tree[path].kids \in SUBSET Child
    BY <1>1 DEF Stored, Value
  <2> QED  BY <1>1, <2>1, ValueTypes
<1>3. /\ tree' = [tree EXCEPT ![path] = v]
      /\ exts' = [exts EXCEPT ![path] = extpath]
      /\ indexes' = indexes /\ Returned
      /\ op' = [Idle EXCEPT !.call = "ExtIndex", !.at = 0, !.dir = Parent(path), !.path = path]
      /\ ValidExts(tree', exts')
  BY DEF ExtIndexBegin
<1> HIDE DEF v
<1>4. Stored(tree')
  BY <1>1, <1>2, <1>3 DEF Stored, KeyKinds, DirKinds
<1>5. path # Root
  <2>1. path \in Bound(exts') /\ exts'[path] = extpath
    BY <1>1, <1>3, PathsAssumption DEF Bound, PathsAssumption
  <2>2. ExtDepths(tree', extpath) = {}
    BY <1>3, <2>1 DEF ValidExts, Uncascaded
  <2>3. 0 \in 0 .. Len(extpath) /\ Ancestor(extpath, 0) = Root
    BY <1>1, PathSeq, AncestorSeq
  <2>4. tree'[Root].kind # "extindex"
    BY <2>2, <2>3, PathsAssumption DEF ExtDepths, ValueAt, PathsAssumption
  <2> QED  BY <1>1, <1>2, <1>3, <2>4 DEF Stored
<1>6. op' \in Frame /\ FrameInv' /\ ~ Returned' /\ op'.call # "Del"
  <2>1. Parent(path) \in Dirs
    BY <1>1, ParentDir
  <2>2. op' = [call |-> "ExtIndex", at |-> 0, dir |-> Parent(path), pairs |-> << >>,
               keys |-> << >>, path |-> path]
    BY <1>3 DEF Idle
  <2>3. op' \in Frame
    BY <1>1, <2>1, <2>2 DEF Frame, Calls
  <2>4. op'.call = "ExtIndex" /\ op'.path = path /\ op'.pairs = << >>
    BY <2>2
  <2> QED  BY <1>5, <2>3, <2>4 DEF FrameInv, Returned, Idle
<1>7. TypeOK'
  BY <1>1, <1>3, <1>4, <1>6 DEF TypeOK, Stored, KeyKinds
<1>8. ExtsMirror'
  BY <1>1, <1>2, <1>3 DEF ExtsMirror, Target, Stored
<1>9. Uncascaded(tree', exts')
  BY <1>3 DEF ValidExts
<1>10. CacheInv'
  <2>1. indexes' = NoCache
    BY <1>3 DEF IInv, CacheInv
  <2> QED  BY <2>1, NoCacheType DEF CacheInv
<1> QED  BY <1>6, <1>7, <1>8, <1>9, <1>10 DEF IInv

LEMMA ExtIndexReturnStep ==
  ASSUME IInv, ExtIndexReturn
  PROVE  IInv'
<1>1. op.path \in Dirs /\ op.path # Root /\ op.path \in Paths
  BY DEF ExtIndexReturn, IInv, FrameInv, Dirs
<1>2. Parent(op.path) \in Dirs /\ ChildName(op.path) \in Child
  BY <1>1, ParentDir, ChildNameType
<1> DEFINE c == AddChild(tree, indexes, Parent(op.path), ChildName(op.path))
<1>3. c \in [Paths -> Value] /\ Dirty(tree, c)
  BY <1>2, IInvFacts, AddChildKeeps
<1>4. tree' = Flush(tree, c) /\ exts' = exts /\ indexes' = NoCache /\ op' = Idle
  BY DEF ExtIndexReturn
<1> HIDE DEF c
<1> QED  BY <1>3, <1>4, FlushStep

LEMMA DelBeginStep ==
  ASSUME IInv, NEW keys \in DelCalls, DelBegin(keys)
  PROVE  IInv'
<1>1. keys \in Seq(Paths)
  BY CallsAssumption DEF CallsAssumption
<1>2. op' \in Frame
  BY <1>1, IdleFrame DEF DelBegin, Frame, Calls
<1>3. op'.call = "Del" /\ op'.at = NotEnsuring /\ op'.pairs = << >>
  BY DEF DelBegin, Idle
<1>4. indexes = NoCache
  BY DEF DelBegin, IInv, CacheInv
<1> QED  BY <1>2, <1>3, <1>4, FrameStep DEF DelBegin, FrameInv

\* A step that removes overlays and keys, none of them a target of an overlay
\* that stays, and returns or goes on deleting.
LEMMA RemovalStep ==
  ASSUME IInv, Stored(tree'), exts' \in [Paths -> Paths \cup {NoPath}],
         \A p \in Paths : exts'[p] = Target(tree'[p]),
         Uncascaded(tree', exts'),
         indexes = NoCache, indexes' = NoCache,
         op' \in Frame, FrameInv'
  PROVE  IInv'
BY NoCacheType DEF IInv, TypeOK, ExtsMirror, CacheInv, Stored, KeyKinds

LEMMA DelKeyStep ==
  ASSUME IInv, DelKey
  PROVE  IInv'
<1> USE IInvFacts
<1> DEFINE key == Head(op.keys)
           cut == Without(tree, {key})
           ext2 == [exts EXCEPT ![key] = NoPath]
           invalid == BreaksExts(tree, {key}, cut, ext2)
<1>1. op \in Frame /\ op.call = "Del" /\ op.keys # << >>
  BY DEF DelKey, IInv, TypeOK
<1>2. key \in Paths
  <2>1. op.keys \in Seq(Paths)
    BY <1>1 DEF Frame
  <2> QED  BY <1>1, <2>1
<1>3. indexes = NoCache /\ indexes' = NoCache
  BY <1>1 DEF DelKey, IInv, CacheInv
<1>4. FrameInv' /\ op' \in Frame
  <2>1. op' = Idle \/ op' = [op EXCEPT !.keys = Tail(@)]
    BY DEF DelKey
  <2>2. CASE op' = Idle
    BY <2>2, IdleFrame DEF FrameInv, Idle
  <2>3. CASE op' = [op EXCEPT !.keys = Tail(@)]
    <3>1. Tail(op.keys) \in Seq(Paths)
      BY <1>1 DEF Frame
    <3>2. op' \in Frame /\ op'.call = "Del" /\ op'.at = op.at /\ op'.pairs = op.pairs
      BY <1>1, <2>3, <3>1 DEF Frame
    <3> QED  BY <1>1, <3>2 DEF IInv, FrameInv
  <2> QED  BY <2>1, <2>2, <2>3
<1>5. CASE ReadOnly(tree, NoCache, key)
  <2>1. tree' = tree /\ exts' = exts
    BY <1>5 DEF DelKey
  <2> QED  BY <1>3, <1>4, <2>1, RemovalStep
<1>6. CASE ~ ReadOnly(tree, NoCache, key) /\ invalid
  <2>1. tree' = [cut EXCEPT ![key] = tree[key]] /\ exts' = ext2
    BY <1>6 DEF DelKey
  <2>2. tree' = tree
    BY <1>2, <2>1 DEF Without, Stored
  <2>3. exts' = exts
    BY <1>2, <1>6, <2>1 DEF BreaksExts, Target
  <2> QED  BY <1>3, <1>4, <2>2, <2>3, RemovalStep
<1>7. CASE ~ ReadOnly(tree, NoCache, key) /\ ~ invalid
  <2>1. tree' = RemoveNames(cut, {key}) /\ exts' = ext2
    BY <1>7 DEF DelKey
  <2>2. Stored(cut) /\ cut \in [Paths -> Value] /\ ext2 \in [Paths -> Paths \cup {NoPath}]
    BY WithoutKeeps DEF Stored
  <2>3. \A p \in Paths : cut[p] = IF p = key THEN Absent ELSE tree[p]
    BY DEF Without
  <2>4. \A p \in Paths : ext2[p] = Target(cut[p])
    BY <1>2, <2>3, ValueTypes DEF Target
  <2>5. Uncascaded(cut, ext2)
    <3>1. CASE tree[key].kind = "index"
      BY <1>7, <3>1 DEF BreaksExts, ValidExts
    <3>2. CASE tree[key].kind # "index"
      <4> HIDE DEF cut, ext2, key
      <4>1. \A l \in Bound(ext2) : l \in Bound(exts) /\ ext2[l] = exts[l]
        BY <1>2 DEF ext2, Bound, Dirs
      <4>2. \A l \in Bound(ext2) : cut[ext2[l]].kind = "index"
        BY <2>3, <3>2, <4>1
      <4>3. \A p \in Paths : cut[p].kind = "extindex" => tree[p].kind = "extindex"
        BY <2>3, ValueTypes
      <4>4. \A p \in Paths : ext2[p] = exts[p] \/ ext2[p] = NoPath
        BY <1>2 DEF ext2
      <4> QED  BY <2>2, <4>2, <4>3, <4>4, UncascadedKept
    <3> QED  BY <3>1, <3>2
  <2> HIDE DEF cut, ext2, key
  <2>6. Stored(tree') /\ \A p \in Paths : tree'[p].kind = cut[p].kind /\ tree'[p].ext = cut[p].ext
    BY <2>1, <2>2, RemoveNamesKeeps
  <2>7. \A p \in Paths : exts'[p] = Target(tree'[p])
    BY <2>1, <2>4, <2>6 DEF Target
  <2>8. Uncascaded(tree', exts')
    <3>1. Uncascaded(tree', ext2)
      BY <2>2, <2>5, <2>6, UncascadedSame
    <3> QED  BY <2>1, <3>1
  <2> QED  BY <1>3, <1>4, <2>1, <2>2, <2>6, <2>7, <2>8, RemovalStep
<1> QED  BY <1>5, <1>6, <1>7

LEMMA DelTreeStep ==
  ASSUME IInv, NEW prefix \in Paths, DelTree(prefix)
  PROVE  IInv'
<1> USE IInvFacts
<1> DEFINE doomed == Doomed(tree, prefix)
           cut == Without(tree, doomed)
           ext2 == [p \in Paths |-> IF p \in doomed THEN NoPath ELSE exts[p]]
           gone == IF doomed = {} THEN {prefix} ELSE doomed
<1>1. /\ tree' = RemoveNames(cut, gone) /\ exts' = ext2
      /\ indexes' = indexes /\ op' = op /\ Returned
      /\ ~ BreaksExts(tree, doomed, cut, ext2)
  BY DEF DelTree
<1>2. doomed \subseteq Paths
  BY DEF Doomed, Keys
<1>3. indexes = NoCache /\ indexes' = NoCache
  BY <1>1 DEF IInv, CacheInv
<1>4. op' \in Frame /\ FrameInv'
  BY <1>1 DEF IInv, TypeOK, FrameInv
<1> HIDE DEF doomed, gone
<1>5. Stored(cut) /\ cut \in [Paths -> Value] /\ ext2 \in [Paths -> Paths \cup {NoPath}]
  BY WithoutKeeps DEF Stored
<1>6. \A p \in Paths :
         /\ cut[p] = IF p \in doomed THEN Absent ELSE tree[p]
         /\ ext2[p] = IF p \in doomed THEN NoPath ELSE exts[p]
  BY DEF Without
<1>7. \A p \in Paths : ext2[p] = Target(cut[p])
  BY <1>6, ValueTypes DEF Target
<1> HIDE DEF cut, ext2
<1>8. Uncascaded(cut, ext2)
  <2>1. CASE \E p \in doomed : tree[p].kind = "index"
    BY <1>1, <2>1 DEF BreaksExts, ValidExts
  <2>2. CASE ~ \E p \in doomed : tree[p].kind = "index"
    <3>1. \A l \in Bound(ext2) : l \in Bound(exts) /\ ext2[l] = exts[l]
      BY <1>6 DEF Bound, Dirs
    <3>2. \A l \in Bound(ext2) : cut[ext2[l]].kind = "index"
      BY <1>6, <2>2, <3>1
    <3>3. \A p \in Paths : cut[p].kind = "extindex" => tree[p].kind = "extindex"
      BY <1>6, ValueTypes
    <3> QED  BY <1>5, <1>6, <3>2, <3>3, UncascadedKept
  <2> QED  BY <2>1, <2>2
<1>9. Stored(tree') /\ \A p \in Paths : tree'[p].kind = cut[p].kind /\ tree'[p].ext = cut[p].ext
  BY <1>1, <1>5, RemoveNamesKeeps
<1>10. \A p \in Paths : exts'[p] = Target(tree'[p])
  BY <1>1, <1>7, <1>9 DEF Target
<1>11. Uncascaded(tree', exts')
  <2>1. Uncascaded(tree', ext2)
    BY <1>5, <1>8, <1>9, UncascadedSame
  <2> QED  BY <1>1, <2>1
<1>12. exts' \in [Paths -> Paths \cup {NoPath}]
  BY <1>1, <1>5
<1> QED  BY <1>3, <1>4, <1>9, <1>10, <1>11, <1>12, RemovalStep

LEMMA DelExtIndexStep ==
  ASSUME IInv, NEW path \in Paths, DelExtIndex(path)
  PROVE  IInv'
<1> USE IInvFacts
<1> DEFINE v == IndexOf(tree[path].kids)
<1>1. v \in Value /\ v.kind = "index"
  <2>1. tree[path].kids \in SUBSET Child
    <3>1. tree[path] \in Value
      BY DEF Stored
    <3> QED  BY <3>1 DEF Value
  <2> QED  BY <2>1, ValueTypes
<1>2. /\ tree[path].kind = "extindex" /\ tree' = [tree EXCEPT ![path] = v]
      /\ exts' = [exts EXCEPT ![path] = NoPath]
      /\ indexes' = indexes /\ op' = op /\ Returned
  BY DEF DelExtIndex
<1> HIDE DEF v
<1>3. path \in Dirs
  BY <1>2 DEF Stored, KeyKinds
<1>4. Stored(tree')
  BY <1>1, <1>2, <1>3 DEF Stored, KeyKinds, DirKinds
<1>5. exts' \in [Paths -> Paths \cup {NoPath}]
      /\ \A p \in Paths : exts'[p] = exts[p] \/ exts'[p] = NoPath
  BY <1>2
<1>6. \A p \in Paths : exts'[p] = Target(tree'[p])
  BY <1>1, <1>2 DEF Stored, Target
<1>7. Uncascaded(tree', exts')
  <2>1. \A l \in Bound(exts') : l \in Bound(exts) /\ exts'[l] = exts[l]
    BY <1>2 DEF Bound, Dirs
  <2>2. \A l \in Bound(exts') : tree'[exts'[l]].kind = "index"
    BY <1>1, <1>2, <2>1 DEF Stored
  <2>3. \A p \in Paths : tree'[p].kind = "extindex" => tree[p].kind = "extindex"
    BY <1>2
  <2> QED  BY <1>5, <2>2, <2>3, UncascadedKept
<1>8. indexes = NoCache /\ indexes' = NoCache /\ op' \in Frame /\ FrameInv'
  BY <1>2 DEF IInv, TypeOK, CacheInv, FrameInv
<1> QED  BY <1>4, <1>5, <1>6, <1>7, <1>8, RemovalStep

LEMMA ClearStep ==
  ASSUME IInv, Clear
  PROVE  IInv'
<1>1. \A p \in Paths : tree'[p] = Absent /\ exts'[p] = NoPath
  BY DEF Clear, NoCache
<1>2. Stored(tree') /\ exts' \in [Paths -> Paths \cup {NoPath}]
  BY <1>1, NoCacheType, ValueTypes DEF Clear, Stored, KeyKinds
<1>3. \A p \in Paths : exts'[p] = Target(tree'[p])
  BY <1>1, ValueTypes DEF Target
<1>4. Uncascaded(tree', exts')
  BY <1>1 DEF Uncascaded, Bound, Dirs
<1>5. indexes = NoCache /\ indexes' = NoCache /\ op' \in Frame /\ FrameInv'
  BY DEF Clear, IInv, TypeOK, CacheInv, FrameInv
<1> QED  BY <1>2, <1>3, <1>4, <1>5, RemovalStep

\* The invariant is inductive: one step per action of GoheapStore.
LEMMA NextInv == IInv /\ [Next]_vars => IInv'
<1> SUFFICES ASSUME IInv, [Next]_vars PROVE IInv'
  OBVIOUS
<1>1. ASSUME NEW batch \in Batches, SetBegin(batch) PROVE IInv'
  BY <1>1, SetBeginStep
<1>2. CASE SetConflict
  BY <1>2, FlushReturnStep DEF SetConflict
<1>3. CASE SetPair
  BY <1>3, SetPairStep
<1>4. CASE SetWrite
  BY <1>4, SetWriteStep
<1>5. CASE SetRefused
  BY <1>5, FlushReturnStep DEF SetRefused
<1>6. CASE SetReturn
  BY <1>6, FlushReturnStep DEF SetReturn
<1>7. CASE EnsureDir
  BY <1>7, EnsureDirStep
<1>8. ASSUME NEW dir \in MkindexCalls, MkindexBegin(dir) PROVE IInv'
  BY <1>8, MkindexBeginStep
<1>9. CASE MkindexReturn
  BY <1>9, FlushReturnStep DEF MkindexReturn
<1>10. ASSUME NEW call \in ExtIndexCalls, ExtIndexBegin(call[1], call[2]) PROVE IInv'
  <2>1. call[1] \in Dirs /\ call[2] \in Dirs
    BY CallsAssumption DEF CallsAssumption
  <2> QED  BY <1>10, <2>1, ExtIndexBeginStep
<1>11. CASE ExtIndexReturn
  BY <1>11, ExtIndexReturnStep
<1>12. ASSUME NEW path \in DelExtCalls, DelExtIndex(path) PROVE IInv'
  BY <1>12, CallsAssumption, DelExtIndexStep DEF CallsAssumption
<1>13. ASSUME NEW keys \in DelCalls, DelBegin(keys) PROVE IInv'
  BY <1>13, DelBeginStep
<1>14. CASE DelKey
  BY <1>14, DelKeyStep
<1>15. CASE DelReturn
  <2>1. op' \in Frame /\ FrameInv' /\ indexes = NoCache
    BY <1>15, IdleFrame DEF DelReturn, FrameInv, Idle, IInv, CacheInv
  <2> QED  BY <1>15, <2>1, FrameStep DEF DelReturn
<1>16. ASSUME NEW prefix \in DelTreeCalls, DelTree(prefix) PROVE IInv'
  BY <1>16, CallsAssumption, DelTreeStep DEF CallsAssumption
<1>17. CASE Clear
  BY <1>17, ClearStep
<1>18. CASE UNCHANGED vars
  BY <1>18 DEF vars, IInv, TypeOK, ExtsMirror, Uncascaded, Bound, ExtDepths, ValueAt,
               CacheInv, Dirty, Returned, FrameInv
<1> QED
  BY <1>1, <1>2, <1>3, <1>4, <1>5, <1>6, <1>7, <1>8, <1>9, <1>10, <1>11, <1>12, <1>13,
     <1>14, <1>15, <1>16, <1>17, <1>18 DEF Next, NextOf

LEMMA Invariance == Spec => []IInv
BY InitInv, NextInv, PTL DEF Spec

-----------------------------------------------------------------------------
(* Theorems *)

\* Every reachable state is well typed; in particular the keys of directories
\* hold indexes and no file key does, whatever values Set is given.
THEOREM TypeCorrect == Spec => []TypeOK
<1>1. IInv => TypeOK
  BY DEF IInv
<1> QED  BY <1>1, Invariance, PTL

\* store.exts is at all times the target map of the ExtIndex values in the
\* tree, in the middle of a call as well as between calls.
THEOREM ExtsMirrored == Spec => []ExtsMirror
<1>1. IInv => ExtsMirror
  BY DEF IInv
<1> QED  BY <1>1, Invariance, PTL

\* Every overlay has an ordinary index as its target, and no overlay is at,
\* above or below the target of another: no call can break what ExtIndex checked.
THEOREM Cascadeless == Spec => []NoCascade
<1>1. IInv => NoCascade
  <2> SUFFICES ASSUME IInv, NEW l \in Overlays
               PROVE  /\ tree[tree[l].ext].kind = "index"
                      /\ \A o \in Overlays : ~ Under(o, tree[l].ext) /\ ~ Under(tree[l].ext, o)
    BY DEF NoCascade
  <2>1. \A o \in Overlays : o \in Bound(exts) /\ o \in Paths /\ exts[o] = tree[o].ext
    <3> SUFFICES ASSUME NEW o \in Overlays
                 PROVE  o \in Bound(exts) /\ o \in Paths /\ exts[o] = tree[o].ext
      OBVIOUS
    <3>1. o \in Dirs /\ o \in Paths /\ exts[o] = tree[o].ext
      BY DEF Overlays, Dirs, IInv, ExtsMirror, Target
    <3>2. exts[o] # NoPath
      BY <3>1, PathsAssumption DEF IInv, TypeOK, Overlays, Dirs, PathsAssumption
    <3> QED  BY <3>1, <3>2 DEF Bound
  <2>2. ASSUME NEW o \in Overlays, Under(tree[l].ext, o) PROVE FALSE
    <3>1. /\ Len(o) \in 0 .. Len(exts[l])
          /\ Ancestor(exts[l], Len(o)) \in Paths
          /\ tree[Ancestor(exts[l], Len(o))].kind = "extindex"
      BY <2>1, <2>2, IInvFacts, UnderAncestor DEF Overlays
    <3>2. Len(o) \in ExtDepths(tree, exts[l])
      BY <3>1 DEF ExtDepths, ValueAt
    <3> QED  BY <2>1, <3>2 DEF IInv, Uncascaded
  <2> QED  BY <2>1, <2>2 DEF IInv, Uncascaded
<1> QED  BY <1>1, Invariance, PTL

-----------------------------------------------------------------------------
(* The directories above a new overlay *)

\* While ExtIndex makes the directories above the overlay that it has bound,
\* none of those to come is refused.
Making ==
    op.call = "ExtIndex" =>
        /\ op.at # NotEnsuring /\ op.dir = Parent(op.path) /\ op.path \in Bound(exts)
        /\ \A n \in 0 .. Len(op.dir) : n >= op.at =>
              ~ DirRefused(tree, exts, indexes, Ancestor(op.dir, n), TRUE)

\* What lies above an overlay is in no target: the overlay would be, too.
LEMMA AboveNoTarget ==
  ASSUME NEW t, NEW e \in [Paths -> Paths \cup {NoPath}], Uncascaded(t, e),
         NEW q \in Bound(e), NEW d \in Paths, Under(q, d), NEW l \in Bound(e)
  PROVE  ~ Under(d, e[l])
<1> SUFFICES ASSUME Under(d, e[l]) PROVE FALSE
  OBVIOUS
<1>1. q \in Paths /\ e[l] \in Paths
  BY DEF Bound, Dirs
<1>2. Under(q, e[l])
  BY <1>1, PathSeq, UnderTransitive
<1> QED  BY <1>2 DEF Uncascaded

LEMMA NoConflictAbove ==
  ASSUME NEW t, NEW e \in [Paths -> Paths \cup {NoPath}], Uncascaded(t, e),
         NEW q \in Bound(e), NEW d \in Paths, Under(q, d), NEW c
  PROVE  ~ TargetConflict(t, e, c, d, {}, TRUE)
BY AboveNoTarget DEF TargetConflict

\* Where an overlay leads to.
LEMMA FallbackMeans ==
  ASSUME NEW t, NEW p \in Paths, NEW l \in Paths, t[l].kind = "extindex", Under(DirOf(p), l)
  PROVE  \E o \in Paths :
            /\ t[o].kind = "extindex" /\ Under(DirOf(p), o) /\ Under(o, l)
            /\ Fallback(t, p) = t[o].ext \o Relative(p, o)
<1> DEFINE d == DirOf(p)
           D == ExtDepths(t, d)
           n == Max(D)
           o == Ancestor(d, n)
<1>1. d \in Paths /\ Len(d) \in Nat /\ Len(d) <= Len(p)
      /\ \A m \in 0 .. Len(d) : Ancestor(p, m) = Ancestor(d, m)
  <2>1. CASE IsDir(p)
    BY <2>1, PathSeq DEF DirOf
  <2>2. CASE ~ IsDir(p)
    <3>1. p # Root
      BY <2>2 DEF IsDir
    <3>2. Len(p) \in Nat /\ Len(p) - 1 \in 0 .. Len(p) /\ d = Ancestor(p, Len(p) - 1)
      BY <2>2, <3>1, PathSeq DEF DirOf, Parent
    <3>3. d \in Paths /\ Len(d) = Len(p) - 1
      BY <3>2, AncestorPath, AncestorSeq
    <3>4. \A m \in 0 .. Len(p) - 1 : Ancestor(d, m) = Ancestor(p, m)
      BY <3>2, AncestorAncestor
    <3> HIDE DEF d
    <3> QED  BY <3>2, <3>3, <3>4
  <2> QED  BY <2>1, <2>2
<1> HIDE DEF d
<1>2. Len(l) \in D
  <2>1. Len(l) \in 0 .. Len(d) /\ l = Ancestor(d, Len(l))
    BY <1>1, UnderAncestor DEF d
  <2> QED  BY <2>1 DEF ExtDepths, ValueAt
<1>3. D \in SUBSET (0 .. Len(d)) /\ D # {}
  BY <1>2 DEF ExtDepths
<1>4. n \in D /\ Len(l) <= n
  BY <1>1, <1>2, <1>3, MaxNat
<1> HIDE DEF n
<1>5. n \in 0 .. Len(d) /\ o \in Paths /\ t[o].kind = "extindex" /\ Len(o) = n
  <2>1. n \in 0 .. Len(d) /\ o \in Paths /\ Len(o) = n
    BY <1>1, <1>4, AncestorPath, AncestorSeq DEF ExtDepths
  <2> QED  BY <1>4, <2>1 DEF ExtDepths, ValueAt
<1>6. Under(d, o)
  BY <1>1, <1>5, AncestorUnder
<1>7. Under(o, l)
  BY <1>1, <1>4, <1>5, <1>6, PathSeq, UnderBoth DEF d
<1>8. Fallback(t, p) = ValueAt(t, Ancestor(p, n)).ext \o Relative(p, Ancestor(p, n))
  BY <1>3 DEF Fallback, n, d
<1>9. Ancestor(p, n) = o
  BY <1>1, <1>5
<1> QED  BY <1>5, <1>6, <1>7, <1>8, <1>9 DEF ValueAt, d

\* And that some overlay does.
LEMMA FallbackFrom ==
  ASSUME NEW t, NEW p \in Paths, Fallback(t, p) # NoPath
  PROVE  \E o \in Paths :
            /\ t[o].kind = "extindex" /\ Under(DirOf(p), o) /\ Under(p, o)
            /\ Fallback(t, p) = t[o].ext \o Relative(p, o)
<1>1. DirOf(p) \in Paths /\ Under(p, DirOf(p))
  <2>1. CASE IsDir(p)
    BY <2>1, PathSeq, UnderMeans DEF DirOf
  <2>2. CASE ~ IsDir(p)
    <3>1. p # Root
      BY <2>2 DEF IsDir
    <3>2. Len(p) - 1 \in 0 .. Len(p) /\ DirOf(p) = Ancestor(p, Len(p) - 1)
      BY <2>2, <3>1, PathSeq DEF DirOf, Parent
    <3> QED  BY <3>2, AncestorPath, AncestorUnder
  <2> QED  BY <2>1, <2>2
<1>2. ExtDepths(t, DirOf(p)) # {}
  BY DEF Fallback
<1>3. PICK m \in 0 .. Len(DirOf(p)) : ValueAt(t, Ancestor(DirOf(p), m)).kind = "extindex"
  BY <1>2 DEF ExtDepths
<1>4. Ancestor(DirOf(p), m) \in Paths /\ Under(DirOf(p), Ancestor(DirOf(p), m))
  BY <1>1, AncestorPath, AncestorUnder
<1>5. t[Ancestor(DirOf(p), m)].kind = "extindex"
  BY <1>3, <1>4 DEF ValueAt
<1>6. PICK o \in Paths : /\ t[o].kind = "extindex" /\ Under(DirOf(p), o)
                         /\ Fallback(t, p) = t[o].ext \o Relative(p, o)
  BY <1>4, <1>5, FallbackMeans
<1>7. Under(p, o)
  BY <1>1, <1>6, PathSeq, UnderTransitive
<1> QED  BY <1>6, <1>7

LEMMA ParentUnder ==
  ASSUME NEW p \in Paths
  PROVE  Parent(p) \in Paths /\ Under(p, Parent(p))
<1>1. CASE p = Root
  BY <1>1, PathSeq, UnderMeans DEF Parent
<1>2. CASE p # Root
  <2>1. Len(p) - 1 \in 0 .. Len(p) /\ Parent(p) = Ancestor(p, Len(p) - 1)
    BY <1>2, PathSeq DEF Parent
  <2> QED  BY <2>1, AncestorPath, AncestorUnder
<1> QED  BY <1>1, <1>2

-----------------------------------------------------------------------------

\* A new directory with an empty index, and its name in that of its parent.
LEMMA ViewGrows ==
  ASSUME NEW t \in [Paths -> Value], NEW c \in [Paths -> Value], NEW d \in Paths, NEW name,
         NEW t2 \in [Paths -> Value], \A p \in Paths : t2[p].kids \subseteq t[p].kids,
         NEW p
  PROVE  View(t2, AddChild(t, c, d, name), p).kids
            \subseteq View(t, c, p).kids \cup {k \in {name} : p = d}
<1> DEFINE v == View(t, c, d)
           w == IF v.kind = "absent" THEN IndexOf({}) ELSE v
           u == [w EXCEPT !.kids = @ \cup {name}]
           c2 == AddChild(t, c, d, name)
<1>1. v \in Value /\ w \in Value /\ w.kids \subseteq v.kids
  BY ValueTypes DEF View, ValueAt, IndexOf
<1>2. u.kids = w.kids \cup {name}
  BY <1>1 DEF Value
<1>3. c2 = c \/ c2 = [c EXCEPT ![d] = u]
  BY DEF AddChild
<1>4. Absent.kids = {}
  BY DEF Absent, Plain
<1> HIDE DEF u, w, c2
<1>5. CASE p \notin Paths
  BY <1>4, <1>5 DEF View, ValueAt
<1>6. CASE p \in Paths /\ c2[p] = c[p]
  BY <1>6 DEF View, ValueAt, c2
<1>7. CASE p \in Paths /\ c2[p] # c[p]
  <2>1. p = d /\ c2[p] = u
    BY <1>3, <1>7
  <2>2. u # Absent
    BY <1>2, <1>4
  <2>3. View(t2, c2, p) = u
    BY <1>7, <2>1, <2>2 DEF View
  <2> QED  BY <1>1, <1>2, <2>1, <2>3 DEF c2, v
<1> QED  BY <1>5, <1>6, <1>7

LEMMA MakingBegins ==
  ASSUME IInv, IInv', NEW path \in Dirs, NEW extpath \in Dirs, ExtIndexBegin(path, extpath)
  PROVE  Making'
<1>1. /\ path \in Paths /\ extpath \in Paths /\ extpath # NoPath /\ Parent(path) \in Paths
      /\ exts' = [exts EXCEPT ![path] = extpath] /\ exts \in [Paths -> Paths \cup {NoPath}]
  BY IInvFacts, ParentDir, PathsAssumption DEF ExtIndexBegin, Dirs, PathsAssumption
<1>2. op' = [call |-> "ExtIndex", at |-> 0, dir |-> Parent(path), pairs |-> << >>,
             keys |-> << >>, path |-> path]
  BY DEF ExtIndexBegin, Idle
<1>3. op'.at = 0 /\ op'.dir = Parent(path) /\ op'.path = path /\ 0 # NotEnsuring
  BY <1>2 DEF NotEnsuring
<1>4. indexes' = NoCache
  BY DEF ExtIndexBegin, IInv, CacheInv
<1>5. path \in Bound(exts') /\ Uncascaded(tree', exts') /\ exts' \in [Paths -> Paths \cup {NoPath}]
  BY <1>1 DEF Bound, IInv
<1>6. ASSUME NEW n \in 0 .. Len(Parent(path))
      PROVE  ~ DirRefused(tree', exts', NoCache, Ancestor(Parent(path), n), TRUE)
  <2> DEFINE a == Ancestor(Parent(path), n)
  <2>1. ~ DirRefused(tree', exts', NoCache, a, FALSE)
    BY DEF ExtIndexBegin, CanEnsureDir
  <2>2. a \in Paths /\ Under(path, a)
    BY <1>1, AncestorPath, AncestorUnder, ParentUnder, PathSeq, UnderTransitive
  <2> HIDE DEF a
  <2>3. ~ TargetConflict(tree', exts', NoCache, a, {}, TRUE)
    BY <1>5, <2>2, NoConflictAbove
  <2> QED  BY <2>1, <2>3 DEF DirRefused, a
<1> QED  BY <1>3, <1>4, <1>5, <1>6 DEF Making

LEMMA DirOfUnder ==
  ASSUME NEW p \in Paths
  PROVE  DirOf(p) \in Paths /\ Under(p, DirOf(p))
<1>1. Under(p, p)
  BY PathSeq, UnderMeans
<1> QED  BY <1>1, ParentUnder DEF DirOf

\* What EnsureDir does, in the terms of the lemmas.
LEMMA EnsureDirMeans ==
  ASSUME IInv, EnsureDir
  PROVE  /\ op.at \in 0 .. Len(op.dir) /\ op.dir \in Paths /\ NextDir \in Dirs /\ NextDir \in Paths
         /\ op' = [op EXCEPT !.at = op.at + 1] /\ op'.at = op.at + 1 /\ op'.dir = op.dir
         /\ op'.call = op.call /\ op'.path = op.path /\ op'.pairs = op.pairs
         /\ exts' = exts /\ tree' \in [Paths -> Value]
         /\ \A p \in Paths \ {NextDir} : tree'[p] = tree[p]
         /\ Present(tree, NextDir) => tree' = tree
         /\ ~ Present(tree, NextDir) => tree'[NextDir] = IndexOf({})
         /\ IF NextDir = Root THEN indexes' = indexes
            ELSE indexes' = AddChild(tree, indexes, Parent(NextDir), ChildName(NextDir))
<1>1. op \in Frame /\ op.dir \in Dirs /\ op.at \in 0 .. Len(op.dir)
  BY DEF EnsureDir, EnsuringDir, IInv, TypeOK, Frame
<1>2. NextDir \in Dirs /\ NextDir \in Paths /\ op.dir \in Paths
  BY <1>1, AncestorDir DEF NextDir, Dirs
<1>3. op' = [op EXCEPT !.at = op.at + 1]
  BY <1>1 DEF EnsureDir, Frame
<1>4. /\ op'.at = op.at + 1 /\ op'.dir = op.dir /\ op'.call = op.call /\ op'.path = op.path
      /\ op'.pairs = op.pairs
  BY <1>1, <1>3 DEF Frame
<1>5. tree \in [Paths -> Value] /\ IndexOf({}) \in Value
  BY ValueTypes DEF IInv, TypeOK
<1>6. tree' = IF Present(tree, NextDir) THEN tree ELSE [tree EXCEPT ![NextDir] = IndexOf({})]
  BY DEF EnsureDir
<1>7. /\ tree' \in [Paths -> Value]
      /\ \A p \in Paths \ {NextDir} : tree'[p] = tree[p]
      /\ Present(tree, NextDir) => tree' = tree
      /\ ~ Present(tree, NextDir) => tree'[NextDir] = IndexOf({})
  BY <1>2, <1>5, <1>6
<1>8. IF NextDir = Root THEN indexes' = indexes
      ELSE indexes' = AddChild(tree, indexes, Parent(NextDir), ChildName(NextDir))
  BY DEF EnsureDir
<1> QED  BY <1>1, <1>2, <1>3, <1>4, <1>7, <1>8 DEF EnsureDir

\* A directory that is made moves no overlay.
LEMMA SameFallback ==
  ASSUME NEW t, NEW t2, NEW p \in Paths,
         \A q \in Paths : t2[q].kind = "extindex" <=> t[q].kind = "extindex",
         \A q \in Paths : t[q].kind = "extindex" => t2[q].ext = t[q].ext
  PROVE  Fallback(t2, p) = Fallback(t, p)
<1> DEFINE d == DirOf(p)
           n == Max(ExtDepths(t, d))
<1>1. d \in Paths /\ Len(d) <= Len(p) /\ Len(d) \in Nat /\ Len(p) \in Nat
  BY DirOfUnder, PathSeq, UnderMeans
<1> HIDE DEF d
<1>2. ExtDepths(t2, d) = ExtDepths(t, d)
  BY <1>1, AncestorPath DEF ExtDepths, ValueAt
<1>3. CASE ExtDepths(t, d) = {}
  BY <1>2, <1>3 DEF Fallback, d
<1>4. CASE ExtDepths(t, d) # {}
  <2>1. n \in ExtDepths(t, d)
    BY <1>1, <1>4, MaxNat DEF ExtDepths
  <2>2. n \in 0 .. Len(d) /\ ValueAt(t, Ancestor(d, n)).kind = "extindex"
    BY <2>1 DEF ExtDepths
  <2>3. Ancestor(p, n) \in Paths /\ Ancestor(p, n) = Ancestor(d, n)
    <3>1. n \in 0 .. Len(p)
      BY <1>1, <2>2
    <3>2. Under(p, d)
      BY <1>1, DirOfUnder DEF d
    <3>3. Ancestor(Ancestor(p, Len(d)), n) = Ancestor(p, n)
      <4>1. Len(d) \in 0 .. Len(p)
        BY <1>1
      <4> QED  BY <2>2, <4>1, AncestorAncestor
    <3> QED  BY <1>1, <3>1, <3>2, <3>3, AncestorPath, UnderAncestor
  <2>4. ValueAt(t2, Ancestor(p, n)).ext = ValueAt(t, Ancestor(p, n)).ext
    BY <2>2, <2>3 DEF ValueAt
  <2> QED  BY <1>2, <1>4, <2>4 DEF Fallback, d, n
<1> QED  BY <1>3, <1>4

LEMMA MakingKept ==
  ASSUME IInv, IInv', Making, EnsureDir
  PROVE  Making'
<1> SUFFICES ASSUME op'.call = "ExtIndex" PROVE Making'
  BY DEF Making
<1> DEFINE d == NextDir
           q == op.path
<1>1. /\ op.at \in 0 .. Len(op.dir) /\ op.dir \in Paths /\ d \in Dirs /\ d \in Paths
      /\ op'.at = op.at + 1 /\ op'.dir = op.dir /\ op.call = "ExtIndex" /\ op'.path = q
      /\ exts' = exts /\ tree' \in [Paths -> Value]
      /\ \A p \in Paths \ {d} : tree'[p] = tree[p]
      /\ Present(tree, d) => tree' = tree
      /\ ~ Present(tree, d) => tree'[d] = IndexOf({})
      /\ IF d = Root THEN indexes' = indexes
         ELSE indexes' = AddChild(tree, indexes, Parent(d), ChildName(d))
  BY EnsureDirMeans
<1>2. /\ op.dir = Parent(q) /\ q \in Bound(exts) /\ q \in Paths
      /\ \A n \in 0 .. Len(op.dir) : n >= op.at =>
            ~ DirRefused(tree, exts, indexes, Ancestor(op.dir, n), TRUE)
  BY <1>1 DEF Making, Bound, Dirs
<1>3. d = Ancestor(op.dir, op.at)
  BY DEF NextDir
<1>4. Under(q, d)
  <2>1. Under(q, op.dir) /\ Under(op.dir, d)
    BY <1>1, <1>2, <1>3, ParentUnder, AncestorUnder
  <2> QED  BY <1>1, <1>2, <2>1, PathSeq, UnderTransitive
<1> HIDE DEF d, q
<1>5. tree \in [Paths -> Value] /\ indexes \in [Paths -> Value]
      /\ exts \in [Paths -> Paths \cup {NoPath}] /\ Uncascaded(tree, exts)
      /\ \A p \in Paths : exts[p] = Target(tree[p])
  BY IInvFacts DEF IInv, TypeOK
<1>6. /\ \A p \in Paths : tree'[p].kids \subseteq tree[p].kids
      /\ \A p \in Paths : tree'[p].kind = "extindex" <=> tree[p].kind = "extindex"
      /\ \A p \in Paths : tree[p].kind = "extindex" => tree'[p].ext = tree[p].ext
  <2>1. CASE Present(tree, d)
    BY <1>1, <2>1
  <2>2. CASE ~ Present(tree, d)
    <3>1. tree[d].kind = "absent" /\ tree'[d].kind = "index" /\ tree'[d].kids = {}
      BY <1>1, <2>2 DEF Present, ValueAt, IndexOf
    <3> QED  BY <1>1, <3>1
  <2> QED  BY <2>1, <2>2
<1>7. ASSUME NEW n \in 0 .. Len(op.dir), n >= op.at + 1
      PROVE  ~ DirRefused(tree', exts', indexes', Ancestor(op.dir, n), TRUE)
  <2> DEFINE a == Ancestor(op.dir, n)
  <2>1. /\ a \in Paths /\ Len(a) = n /\ Len(d) = op.at /\ n >= op.at
        /\ Under(q, a)
    <3>1. a \in Paths /\ Len(a) = n /\ Len(d) = op.at /\ Under(op.dir, a) /\ Under(q, op.dir)
      BY <1>1, <1>2, <1>3, AncestorPath, AncestorSeq, AncestorUnder, ParentUnder
    <3> QED  BY <1>1, <1>2, <1>7, <3>1, PathSeq, UnderTransitive
  <2>2. ~ DirRefused(tree, exts, indexes, a, TRUE)
    BY <1>2, <2>1
  <2>3. a # d /\ tree'[a] = tree[a]
    BY <1>1, <1>7, <2>1
  <2> HIDE DEF a
  <2>4. Present(tree', a) <=> Present(tree, a)
    BY <2>1, <2>3 DEF Present, ValueAt
  <2>5. CASE Present(tree, a)
    BY <2>2, <2>3, <2>4, <2>5 DEF DirRefused, a
  <2>6. CASE ~ Present(tree, a)
    <3>1. ~ TargetConflict(tree', exts', indexes', a, {}, TRUE)
      BY <1>1, <1>2, <1>5, <2>1, NoConflictAbove DEF IInv
    <3>2. a # Root => ~ ReadOnly(tree, indexes, a)
      BY <2>2, <2>6 DEF DirRefused
    <3>3. ASSUME a # Root, ReadOnly(tree', indexes', a)
          PROVE  FALSE
      <4> DEFINE far == Fallback(tree, a)
      <4>1. Fallback(tree', a) = far
        BY <1>6, <2>1, SameFallback
      <4>2. far # NoPath /\ (Present(tree', far) \/ ChildName(far) \in View(tree', indexes', Parent(far)).kids)
        BY <3>3, <4>1 DEF ReadOnly
      <4>3. ~ Present(tree, far) /\ ChildName(far) \notin View(tree, indexes, Parent(far)).kids
        BY <2>6, <3>2, <3>3, <4>2 DEF ReadOnly
      <4>4. PICK o \in Paths : /\ tree[o].kind = "extindex" /\ Under(a, o)
                               /\ far = tree[o].ext \o Relative(a, o)
        BY <2>1, <4>2, FallbackFrom
      <4>5. /\ o \in Bound(exts) /\ exts[o] = tree[o].ext /\ tree[o].ext \in Paths
            /\ o # a
        <5>1. tree[o].ext \in Dirs /\ exts[o] = tree[o].ext /\ o \in Dirs
          BY <1>5, <4>4 DEF IInv, TypeOK, Target, DirKinds
        <5>2. tree[a].kind = "absent"
          BY <2>1, <2>6 DEF Present, ValueAt
        <5> QED  BY <4>4, <5>1, <5>2, PathsAssumption DEF Bound, Dirs, PathsAssumption
      <4>6. far \in Seq(Child) /\ Under(far, tree[o].ext) /\ far # tree[o].ext
        <5> DEFINE e == tree[o].ext
        <5>1. a \in Seq(Child) /\ o \in Seq(Child) /\ e \in Seq(Child)
          BY <2>1, <4>5, PathSeq
        <5> HIDE DEF e
        <5>2. e \o Relative(a, o) \in Seq(Child)
          BY <4>4, <5>1, Moved
        <5>3. Under(e \o Relative(a, o), e)
          BY <4>4, <5>1, MovedBack
        <5>4. e \o Relative(a, o) # e
          BY <4>4, <4>5, <5>1, MovedBack
        <5> QED  BY <4>4, <5>2, <5>3, <5>4 DEF e
      <4>7. far # d
        <5>1. ~ Under(d, exts[o])
          BY <1>1, <1>2, <1>4, <1>5, <4>5, AboveNoTarget
        <5> QED  BY <4>5, <4>6, <5>1
      <4> HIDE DEF far
      <4>8. ~ Present(tree', far)
        BY <1>1, <4>3, <4>7 DEF Present, ValueAt
      <4>9. CASE d = Root
        <5>1. indexes' = indexes
          BY <1>1, <4>9
        <5>2. View(tree', indexes, Parent(far)).kids \subseteq View(tree, indexes, Parent(far)).kids
          BY <1>6 DEF View, ValueAt
        <5> QED  BY <4>2, <4>3, <4>8, <5>1, <5>2
      <4>10. CASE d # Root
        <5>1. Parent(d) \in Paths /\ indexes' = AddChild(tree, indexes, Parent(d), ChildName(d))
          BY <1>1, <4>10, ParentUnder
        <5>2. View(tree', indexes', Parent(far)).kids
                 \subseteq View(tree, indexes, Parent(far)).kids
                    \cup {k \in {ChildName(d)} : Parent(far) = Parent(d)}
          BY <1>1, <1>5, <1>6, <5>1, ViewGrows
        <5>3. ChildName(far) = ChildName(d) /\ Parent(far) = Parent(d)
          BY <4>2, <4>3, <4>8, <5>2
        <5>4. far # Root
          <6> DEFINE e == tree[o].ext
          <6>1. e \in Seq(Child) /\ far \in Seq(Child) /\ Under(far, e) /\ far # e
            BY <4>5, <4>6, PathSeq
          <6> HIDE DEF e
          <6>2. Len(e) <= Len(far)
            BY <6>1, UnderMeans
          <6>3. far = << >> => e = << >>
            BY <6>1, <6>2
          <6> QED  BY <6>1, <6>3 DEF Root
        <5>5. far = d
          BY <1>1, <4>6, <4>10, <5>3, <5>4, PathSeq, ParentAndName
        <5> QED  BY <4>7, <5>5
      <4> QED  BY <4>9, <4>10
    <3> QED  BY <2>4, <2>6, <3>1, <3>3 DEF DirRefused, a
  <2> QED  BY <2>5, <2>6 DEF a
<1>8. op'.at # NotEnsuring /\ op'.dir = Parent(q) /\ op'.path \in Bound(exts')
  BY <1>1, <1>2 DEF NotEnsuring
<1> QED  BY <1>1, <1>7, <1>8 DEF Making

\* Which steps leave an ExtIndex that has begun.
LEMMA ExtIndexSteps ==
  ASSUME IInv, [Next]_vars, op'.call = "ExtIndex"
  PROVE  \/ \E call \in ExtIndexCalls : ExtIndexBegin(call[1], call[2])
         \/ EnsureDir
         \/ UNCHANGED vars
<1>1. ASSUME NEW f, f \in {"none", "Set", "Mkindex", "Del"}
      PROVE  f # "ExtIndex"
  BY <1>1
<1>2. \A x, y, z, k : /\ [Idle EXCEPT !.call = "Set", !.pairs = x].call = "Set"
                      /\ [Idle EXCEPT !.call = "Mkindex", !.at = 0, !.dir = y].call = "Mkindex"
                      /\ [Idle EXCEPT !.call = "Del", !.keys = z].call = "Del"
                      /\ Idle.call = "none"
  BY DEF Idle
<1>3. Returned => op.call = "none"
  BY DEF Returned, Idle
<1>4. op \in Frame
  BY DEF IInv, TypeOK
<1>5. ~ (\E batch \in Batches : SetBegin(batch)) /\ ~ SetWrite
  BY <1>1, <1>2 DEF SetBegin, SetWrite
<1>6. ~ FlushAndReturn
  BY <1>2 DEF FlushAndReturn
<1>7. ~ SetPair
  <2> SUFFICES ASSUME SetPair PROVE FALSE
    OBVIOUS
  <2>1. op.call = "Set" /\ op' = [op EXCEPT !.at = 0, !.dir = PairDir(Head(op.pairs))]
    BY DEF SetPair, SetNextPair
  <2> QED  BY <1>4, <2>1 DEF Frame
<1>8. ~ SetConflict /\ ~ SetRefused /\ ~ SetReturn /\ ~ MkindexReturn
  BY <1>6 DEF SetConflict, SetRefused, SetReturn, MkindexReturn
<1>9. /\ ~ (\E dir \in MkindexCalls : MkindexBegin(dir)) /\ ~ ExtIndexReturn
      /\ ~ (\E keys \in DelCalls : DelBegin(keys)) /\ ~ DelReturn
  BY <1>2 DEF MkindexBegin, ExtIndexReturn, DelBegin, DelReturn
<1>10. ~ DelKey
  <2> SUFFICES ASSUME DelKey PROVE FALSE
    OBVIOUS
  <2>1. op.call = "Del" /\ (op' = Idle \/ op' = [op EXCEPT !.keys = Tail(@)])
    BY DEF DelKey
  <2> QED  BY <1>2, <1>4, <2>1 DEF Frame
<1>11. /\ ~ (\E path \in DelExtCalls : DelExtIndex(path)) /\ ~ Clear
       /\ ~ (\E prefix \in DelTreeCalls : DelTree(prefix))
  BY <1>3 DEF DelExtIndex, DelTree, Clear
<1> QED  BY <1>5, <1>7, <1>8, <1>9, <1>10, <1>11 DEF Next, NextOf

LEMMA MakingStep == IInv /\ IInv' /\ Making /\ [Next]_vars => Making'
<1> SUFFICES ASSUME IInv, IInv', Making, [Next]_vars, op'.call = "ExtIndex" PROVE Making'
  BY DEF Making
<1>1. ASSUME NEW call \in ExtIndexCalls, ExtIndexBegin(call[1], call[2])
      PROVE  Making'
  <2>1. call[1] \in Dirs /\ call[2] \in Dirs
    BY CallsAssumption DEF CallsAssumption
  <2> QED  BY <1>1, <2>1, MakingBegins
<1>2. CASE EnsureDir
  BY <1>2, MakingKept
<1>3. CASE UNCHANGED vars
  BY <1>3 DEF vars, Making, Bound
<1> QED  BY <1>1, <1>2, <1>3, ExtIndexSteps

\* ExtIndex is never left half done: whatever indexes clients have written and
\* keys they have deleted, the directories above a new overlay are not refused
\* on a tree and with cached indexes that canEnsureDir has not seen.
THEOREM NeverHalfBound == Spec => []EnsureSucceeds
<1>1. Init => Making
  BY DEF Init, Making, Idle
<1>2. IInv /\ Making => EnsureSucceeds
  <2> SUFFICES ASSUME IInv, Making, op.call = "ExtIndex", EnsuringDir
               PROVE  ~ DirRefused(tree, exts, indexes, NextDir, TRUE)
    BY DEF EnsureSucceeds
  <2>1. op.at \in 0 .. Len(op.dir) /\ op.at >= op.at
    BY DEF EnsuringDir, IInv, TypeOK, Frame
  <2> QED  BY <2>1 DEF Making, NextDir
<1>3. IInv /\ Making /\ [Next]_vars => Making'
  BY NextInv, MakingStep
<1> QED  BY <1>1, <1>2, <1>3, Invariance, PTL DEF Spec

-----------------------------------------------------------------------------
(* The layers of the overlays *)

\* What the store does for clients that leave the indexes to it: a bare key of
\* a directory in Del would leave what is below it behind.
FilesNext ==
    NextOf(BatchesOf["files"], DelsOf["files"], TreesOf["files"], MountsOf["files"])

\* In the middle of a call too, no key of an overlay is one of its target's.
Apart(t) ==
    \A l \in Paths : \A p \in Keys(t) :
        t[l].kind = "extindex" /\ Under(p, l) /\ p # l =>
            ~ Present(t, t[l].ext \o Relative(p, l))

\* The directories above every key are there, except that those above q may
\* still be missing.
Rooted(t, q) ==
    \A p \in Keys(t) : \A n \in 0 .. Len(p) :
        \/ Present(t, Ancestor(p, n))
        \/ Under(p, q) /\ n < Len(q)

\* What a running call knows: the directories that it has passed and those
\* whose indexes it has cached are there; what Set has asked of a file's key,
\* no directory that it makes changes.
Working ==
    /\ op.call # "ExtIndex" => op.path = Root
    /\ \A n \in 0 .. Len(op.dir) : n < op.at => Present(tree, Ancestor(op.dir, n))
    /\ \A p \in Paths : indexes[p] # Absent => Present(tree, p)
    /\ op.call = "Set" /\ op.at # NotEnsuring => op.dir = PairDir(Head(op.pairs))
    /\ op.call = "Set" /\ op.at # NotEnsuring /\ ~ IsDir(Head(op.pairs).key) =>
          \A l \in Paths :
              tree[l].kind = "extindex" /\ Under(Head(op.pairs).key, tree[l].ext) =>
                  ~ Present(tree, l \o Relative(Head(op.pairs).key, tree[l].ext))
    /\ op.call = "Del" => \A i \in 1 .. Len(op.keys) : ~ IsDir(op.keys[i])

Layered == Apart(tree) /\ Rooted(tree, op.path) /\ Working

\* What the lemmas below need of the overlays.
LEMMA OverlayFacts ==
  ASSUME IInv, NEW l \in Paths, tree[l].kind = "extindex"
  PROVE  /\ l \in Dirs /\ l \in Bound(exts) /\ exts[l] = tree[l].ext
         /\ tree[l].ext \in Dirs /\ tree[l].ext \in Paths
         /\ l \in Seq(Child) /\ tree[l].ext \in Seq(Child)
<1>1. l \in Dirs /\ tree[l].ext \in Dirs /\ exts[l] = tree[l].ext
  BY DEF IInv, TypeOK, ExtsMirror, Target, DirKinds
<1> QED  BY <1>1, PathSeq, PathsAssumption DEF Bound, Dirs, PathsAssumption

\* No path is below an overlay and below its target.
LEMMA NotBoth ==
  ASSUME IInv, NEW l \in Paths, tree[l].kind = "extindex", NEW p \in Paths,
         Under(p, l), Under(p, tree[l].ext)
  PROVE  FALSE
<1> DEFINE e == tree[l].ext
<1>1. /\ l \in Bound(exts) /\ exts[l] = e /\ e \in Paths /\ l \in Seq(Child) /\ e \in Seq(Child)
      /\ p \in Seq(Child)
  BY OverlayFacts, PathSeq
<1>2. ~ Under(l, e) /\ ExtDepths(tree, e) = {}
  BY <1>1 DEF IInv, Uncascaded
<1> HIDE DEF e
<1>3. Len(l) \in Nat /\ Len(e) \in Nat
  BY <1>1
<1>4. ~ (Len(e) <= Len(l))
  BY <1>1, <1>2, UnderBoth DEF e
<1>5. Under(e, l)
  BY <1>1, <1>3, <1>4, UnderBoth DEF e
<1>6. Len(l) \in 0 .. Len(e) /\ l = Ancestor(e, Len(l))
  BY <1>1, <1>5, UnderAncestor
<1>7. Len(l) \in ExtDepths(tree, e)
  BY <1>6 DEF ExtDepths, ValueAt
<1> QED  BY <1>2, <1>7

\* Keys that are left and overlays that are left stay apart.
LEMMA ApartFewer ==
  ASSUME NEW t, NEW t2, Apart(t),
         \A p \in Paths : t2[p].kind # "absent" => t[p].kind # "absent",
         \A p \in Paths : t2[p].kind = "extindex" =>
                             t[p].kind = "extindex" /\ t2[p].ext = t[p].ext
  PROVE  Apart(t2)
BY DEF Apart, Keys, Present, ValueAt

\* A key that no overlay has in its other layer may be added.
LEMMA ApartAdds ==
  ASSUME IInv, Apart(tree), NEW t2, NEW d \in Paths,
         \A p \in Paths \ {d} : t2[p].kind # "absent" => tree[p].kind # "absent",
         \A p \in Paths : t2[p].kind = "extindex" =>
                             tree[p].kind = "extindex" /\ t2[p].ext = tree[p].ext,
         \A l \in Paths : tree[l].kind = "extindex" /\ Under(d, l) /\ d # l =>
             ~ Present(tree, tree[l].ext \o Relative(d, l)),
         \A l \in Paths : tree[l].kind = "extindex" /\ Under(d, tree[l].ext) /\ d # tree[l].ext =>
             ~ Present(tree, l \o Relative(d, tree[l].ext))
  PROVE  Apart(t2)
<1> SUFFICES ASSUME NEW l \in Paths, NEW p \in Keys(t2), t2[l].kind = "extindex",
                    Under(p, l), p # l, Present(t2, t2[l].ext \o Relative(p, l))
             PROVE  FALSE
  BY DEF Apart
<1> DEFINE e == tree[l].ext
           w == e \o Relative(p, l)
<1>1. tree[l].kind = "extindex" /\ t2[l].ext = e
  OBVIOUS
<1>2. p \in Paths /\ p \in Seq(Child) /\ l \in Seq(Child) /\ e \in Seq(Child)
  BY <1>1, OverlayFacts, PathSeq DEF Keys
<1> HIDE DEF e
<1>3. Under(w, e) /\ l \o Relative(w, e) = p
  BY <1>2, MovedBack
<1>4. w # e
  BY <1>2, MovedBack
<1>5. w \in Paths /\ Present(t2, w)
  BY <1>1 DEF Present, ValueAt, Absent, Plain
<1> HIDE DEF w
<1>6. w # d => Present(tree, w)
  BY <1>5 DEF Present, ValueAt
<1>7. p # d => p \in Keys(tree)
  BY <1>2 DEF Keys, Present, ValueAt
<1>8. CASE p # d /\ w # d
  BY <1>1, <1>6, <1>7, <1>8 DEF Apart, e, w
<1>9. CASE p = d /\ w # d
  BY <1>1, <1>6, <1>9 DEF e, w
<1>10. CASE p # d /\ w = d
  <2>1. ~ Present(tree, l \o Relative(d, e))
    BY <1>1, <1>3, <1>4, <1>10 DEF e
  <2> QED  BY <1>3, <1>7, <1>10, <2>1 DEF Keys
<1>11. CASE p = d /\ w = d
  BY <1>1, <1>2, <1>3, <1>11, NotBoth DEF e
<1> QED  BY <1>8, <1>9, <1>10, <1>11

LEMMA StrictlyUnder ==
  ASSUME NEW p \in Paths, NEW l \in Paths, Under(p, l), p # l
  PROVE  Len(l) < Len(p) /\ p # Root /\ Parent(p) \in Paths /\ Under(Parent(p), l)
<1>1. p \in Seq(Child) /\ l \in Seq(Child) /\ Len(p) \in Nat /\ Len(l) \in Nat
  BY PathSeq
<1>2. Len(l) <= Len(p) /\ \A i \in 1 .. Len(l) : p[i] = l[i]
  BY <1>1, UnderMeans
<1>3. Len(l) # Len(p)
  BY <1>1, <1>2, SeqEqual
<1>4. p # Root
  BY <1>1, <1>2, <1>3 DEF Root
<1>5. Parent(p) \in Paths /\ Under(p, Parent(p)) /\ Parent(p) \in Seq(Child)
  BY ParentUnder, PathSeq
<1>6. Len(Parent(p)) = Len(p) - 1
  BY <1>1, <1>4, ParentSeq
<1>7. Under(Parent(p), l)
  BY <1>1, <1>2, <1>3, <1>5, <1>6, UnderBoth
<1> QED  BY <1>1, <1>2, <1>3, <1>4, <1>5, <1>7

\* Moving a path moves what is above it.
LEMMA MovedAncestor ==
  ASSUME NEW d \in Seq(Child), NEW o \in Seq(Child), NEW l \in Seq(Child), NEW e \in Seq(Child),
         Under(d, o), Under(o, l), e \o Relative(d, l) \in Paths
  PROVE  LET m == Len(e) + Len(o) - Len(l)
         IN  /\ m \in 0 .. Len(e \o Relative(d, l)) /\ Len(e) <= m
             /\ Ancestor(e \o Relative(d, l), m) = e \o Relative(o, l)
<1> DEFINE m == Len(e) + Len(o) - Len(l)
           w == e \o Relative(d, l)
           x == e \o Relative(o, l)
<1>1. /\ Len(d) \in Nat /\ Len(o) \in Nat /\ Len(l) \in Nat /\ Len(e) \in Nat
      /\ Len(l) <= Len(o) /\ Len(o) <= Len(d) /\ \A i \in 1 .. Len(o) : d[i] = o[i]
  BY UnderMeans
<1>2. Under(d, l)
  BY UnderTransitive
<1>3. /\ Len(w) = Len(e) + Len(d) - Len(l)
      /\ \A i \in 1 .. Len(e) : w[i] = e[i]
      /\ \A i \in Len(e) + 1 .. Len(e) + Len(d) - Len(l) : w[i] = d[i - Len(e) + Len(l)]
  BY <1>2, Moved
<1>4. /\ x \in Seq(Child) /\ Len(x) = m
      /\ \A i \in 1 .. Len(e) : x[i] = e[i]
      /\ \A i \in Len(e) + 1 .. m : x[i] = o[i - Len(e) + Len(l)]
  BY Moved
<1> HIDE DEF w, x
<1>5. m \in 0 .. Len(w) /\ Len(e) <= m
  BY <1>1, <1>3
<1>6. /\ Ancestor(w, m) \in Seq(Child) /\ Len(Ancestor(w, m)) = m
      /\ \A i \in 1 .. m : Ancestor(w, m)[i] = w[i]
  <2>1. w \in Paths
    BY DEF w
  <2>2. m \in 0 .. Len(w)
    BY <1>5
  <2> HIDE DEF m
  <2> QED  BY <2>1, <2>2, AncestorSeq, AncestorPath, PathSeq
<1>7. ASSUME NEW i \in 1 .. m
      PROVE  w[i] = x[i]
  <2>1. CASE i <= Len(e)
    <3>1. i \in 1 .. Len(e)
      BY <1>1, <2>1
    <3> QED  BY <1>3, <1>4, <3>1
  <2>2. CASE i > Len(e)
    <3> DEFINE j == i - Len(e) + Len(l)
    <3>1. /\ i \in Len(e) + 1 .. m /\ i \in Len(e) + 1 .. Len(e) + Len(d) - Len(l)
          /\ j \in 1 .. Len(o)
      BY <1>1, <2>2
    <3>2. w[i] = d[j] /\ x[i] = o[j]
      BY <1>3, <1>4, <3>1
    <3> HIDE DEF j
    <3> QED  BY <1>1, <3>1, <3>2
  <2> QED  BY <1>1, <2>1, <2>2
<1>8. Ancestor(w, m) = x
  <2>1. \A i \in 1 .. m : Ancestor(w, m)[i] = x[i]
    BY <1>6, <1>7
  <2> QED  BY <1>4, <1>6, <2>1, SeqEqual
<1> QED  BY <1>5, <1>8 DEF w, x

\* checkExtMutationLocked looks at the nearest overlay only; the target of one
\* further out has not the key either, or it would hold the nearest overlay.
LEMMA WritableApart ==
  ASSUME IInv, Apart(tree), Rooted(tree, op.path), op.path = Root \/ op.path \in Bound(exts),
         NEW c, NEW d \in Paths, ~ Present(tree, d), ~ ReadOnly(tree, c, d),
         NEW l \in Paths, tree[l].kind = "extindex", Under(d, l), d # l
  PROVE  ~ Present(tree, tree[l].ext \o Relative(d, l))
<1>1. Under(DirOf(d), l)
  BY StrictlyUnder DEF DirOf
<1>2. PICK o \in Paths : /\ tree[o].kind = "extindex" /\ Under(DirOf(d), o) /\ Under(o, l)
                         /\ Fallback(tree, d) = tree[o].ext \o Relative(d, o)
  BY <1>1, FallbackMeans
<1>3. ~ Present(tree, tree[o].ext \o Relative(d, o))
  <2>1. CASE Fallback(tree, d) = NoPath
    BY <1>2, <2>1, PathsAssumption DEF Present, ValueAt, Absent, Plain, PathsAssumption
  <2>2. CASE Fallback(tree, d) # NoPath
    BY <1>2, <2>2 DEF ReadOnly
  <2> QED  BY <2>1, <2>2
<1>4. CASE o = l
  BY <1>3, <1>4
<1>5. CASE o # l
  <2> DEFINE e == tree[l].ext
             w == e \o Relative(d, l)
             m == Len(e) + Len(o) - Len(l)
  <2> SUFFICES ASSUME Present(tree, w) PROVE FALSE
    OBVIOUS
  <2>1. /\ d \in Seq(Child) /\ o \in Seq(Child) /\ l \in Seq(Child) /\ e \in Seq(Child)
        /\ l \in Bound(exts) /\ exts[l] = e
    BY PathSeq, OverlayFacts
  <2>2. Under(d, o)
    <3>1. Under(d, DirOf(d)) /\ DirOf(d) \in Seq(Child)
      BY DirOfUnder, PathSeq
    <3> QED  BY <1>2, <2>1, <3>1, UnderTransitive
  <2>3. o \in Keys(tree)
    BY <1>2 DEF Keys, Present, ValueAt
  <2>4. ~ Present(tree, e \o Relative(o, l))
    BY <1>2, <1>5, <2>3 DEF Apart
  <2>5. Under(w, e)
    <3>1. Under(d, l)
      OBVIOUS
    <3> HIDE DEF e
    <3> QED  BY <2>1, <3>1, MovedBack
  <2>6. w \in Paths /\ w \in Keys(tree)
    BY DEF Present, ValueAt, Absent, Plain, Keys
  <2> HIDE DEF e
  <2>7. m \in 0 .. Len(w) /\ Len(e) <= m /\ Ancestor(w, m) = e \o Relative(o, l)
    BY <1>2, <2>1, <2>2, <2>6, MovedAncestor
  <2> HIDE DEF w, m
  <2>8. Under(w, op.path) /\ m < Len(op.path)
    BY <2>4, <2>6, <2>7 DEF Rooted
  <2>9. op.path \in Paths /\ op.path \in Seq(Child) /\ Len(op.path) \in Nat /\ Len(e) \in Nat
    BY <2>1, PathSeq DEF IInv, TypeOK, Frame
  <2>10. op.path # Root
    BY <2>7, <2>8, <2>9 DEF Root
  <2>11. Under(op.path, e)
    <3>1. Len(e) <= Len(op.path)
      BY <2>7, <2>8, <2>9
    <3> QED  BY <2>1, <2>5, <2>6, <2>8, <2>9, <3>1, PathSeq, UnderBoth
  <2> QED  BY <2>1, <2>10, <2>11 DEF IInv, Uncascaded
<1> QED  BY <1>4, <1>5

LEMMA RootedSame ==
  ASSUME NEW t, NEW t2, NEW q, Rooted(t, q),
         \A p \in Paths : t2[p].kind = "absent" <=> t[p].kind = "absent"
  PROVE  Rooted(t2, q)
<1>1. \A p : Present(t2, p) <=> Present(t, p)
  BY DEF Present, ValueAt
<1> QED  BY <1>1 DEF Rooted, Keys

\* A key whose directories are there may be added.
LEMMA RootedAdds ==
  ASSUME NEW t, NEW t2, NEW q, Rooted(t, q), NEW d \in Paths,
         \A p \in Paths \ {d} : t2[p].kind = "absent" <=> t[p].kind = "absent",
         t2[d].kind # "absent",
         \A n \in 0 .. Len(d) : n < Len(d) => Present(t, Ancestor(d, n))
  PROVE  Rooted(t2, q)
<1>1. \A p : Present(t2, p) <=> Present(t, p) \/ p = d
  BY DEF Present, ValueAt
<1> SUFFICES ASSUME NEW p \in Keys(t2), NEW n \in 0 .. Len(p), ~ Present(t2, Ancestor(p, n))
             PROVE  Under(p, q) /\ n < Len(q)
  BY DEF Rooted
<1>2. CASE p # d
  BY <1>1, <1>2 DEF Rooted, Keys
<1>3. CASE p = d
  <2>1. n = Len(d) => Ancestor(d, n) = d
    BY PathSeq DEF Ancestor
  <2>2. n < Len(d) \/ n = Len(d)
    BY <1>3, PathSeq
  <2> QED  BY <1>1, <1>3, <2>1, <2>2
<1> QED  BY <1>2, <1>3

\* What checkExtTargetMutation lets pass, no overlay of a target has.
LEMMA NoConflictMeans ==
  ASSUME IInv, NEW c, NEW d \in Paths, NEW kids, ~ TargetConflict(tree, exts, c, d, kids, TRUE),
         NEW l \in Paths, tree[l].kind = "extindex", Under(d, tree[l].ext), d # tree[l].ext
  PROVE  ~ Present(tree, l \o Relative(d, tree[l].ext))
<1> DEFINE e == tree[l].ext
           rel == Relative(d, e)
<1>1. /\ l \in Bound(exts) /\ exts[l] = e /\ e \in Paths /\ e \in Seq(Child)
      /\ d \in Seq(Child)
  BY OverlayFacts, PathSeq
<1>2. Len(e) < Len(d) /\ Len(e) \in Nat /\ Len(d) \in Nat
  BY <1>1, StrictlyUnder
<1> HIDE DEF e
<1>3. rel \in Seq(Child) /\ Len(rel) = Len(d) - Len(e)
  BY <1>1, <1>2 DEF Relative
<1>4. rel # << >> /\ Len(rel) \in 1 .. Len(rel)
  BY <1>2, <1>3
<1>5. Ancestor(rel, Len(rel)) = rel
  BY <1>3 DEF Ancestor
<1>6. ~ \E n \in 1 .. Len(rel) : Present(tree, l \o Ancestor(rel, n))
  BY <1>1, <1>4 DEF TargetConflict, e
<1> QED  BY <1>4, <1>5, <1>6 DEF e

\* A key is made that no overlay has in its other layer.
LEMMA NewKeyLayers ==
  ASSUME IInv, Apart(tree), Rooted(tree, op.path), op.path = Root \/ op.path \in Bound(exts),
         NEW c, NEW d \in Paths, ~ Present(tree, d), d = Root \/ ~ ReadOnly(tree, c, d),
         \A l \in Paths : tree[l].kind = "extindex" /\ Under(d, tree[l].ext) /\ d # tree[l].ext =>
             ~ Present(tree, l \o Relative(d, tree[l].ext)),
         \A n \in 0 .. Len(d) : n < Len(d) => Present(tree, Ancestor(d, n)),
         NEW t2, \A p \in Paths \ {d} : t2[p] = tree[p], t2[d].kind \notin {"absent", "extindex"}
  PROVE  Apart(t2) /\ Rooted(t2, op.path)
<1>1. Rooted(t2, op.path)
  <2>1. \A p \in Paths \ {d} : t2[p].kind = "absent" <=> tree[p].kind = "absent"
    OBVIOUS
  <2> QED  BY <2>1, RootedAdds
<1>2. ASSUME NEW l \in Paths, tree[l].kind = "extindex", Under(d, l), d # l
      PROVE  ~ Present(tree, tree[l].ext \o Relative(d, l))
  <2>1. d # Root
    BY <1>2, StrictlyUnder
  <2> QED  BY <1>2, <2>1, WritableApart
<1>3. /\ \A p \in Paths \ {d} : t2[p].kind # "absent" => tree[p].kind # "absent"
      /\ \A p \in Paths : t2[p].kind = "extindex" =>
                             tree[p].kind = "extindex" /\ t2[p].ext = tree[p].ext
  OBVIOUS
<1>4. Apart(t2)
  BY <1>2, <1>3, ApartAdds
<1> QED  BY <1>1, <1>4

\* A file that is moved is a file.
LEMMA MovedFile ==
  ASSUME NEW p \in Paths, ~ IsDir(p), NEW e \in Dirs, Under(p, e), NEW l \in Paths
  PROVE  l \o Relative(p, e) \notin Dirs
<1> DEFINE w == l \o Relative(p, e)
<1>1. /\ p \in Seq(Child) /\ e \in Seq(Child) /\ l \in Seq(Child) /\ e \in Paths
      /\ Len(p) \in Nat /\ Len(e) \in Nat /\ Len(l) \in Nat
  BY PathSeq DEF Dirs
<1>2. p # e
  BY DEF Dirs
<1>3. Len(e) < Len(p)
  BY <1>1, <1>2, StrictlyUnder
<1>4. /\ Len(w) = Len(l) + Len(p) - Len(e)
      /\ \A i \in Len(l) + 1 .. Len(l) + Len(p) - Len(e) : w[i] = p[i - Len(l) + Len(e)]
  BY <1>1, Moved
<1> HIDE DEF w
<1>5. /\ Len(w) \in Len(l) + 1 .. Len(l) + Len(p) - Len(e)
      /\ Len(w) - Len(l) + Len(e) = Len(p) /\ Len(w) # 0
  BY <1>1, <1>3, <1>4
<1>6. w[Len(w)] = p[Len(p)]
  BY <1>4, <1>5
<1>7. w # Root /\ p # Root
  <2>1. Len(p) # 0 /\ Len(Root) = 0
    BY <1>1, <1>3 DEF Root
  <2> QED  BY <1>5, <2>1
<1>8. ~ IsDir(w)
  BY <1>6, <1>7 DEF IsDir
<1> QED  BY <1>8 DEF w, Dirs

\* When no call runs there is nothing to know, and every directory is there.
LEMMA IdleLayers ==
  ASSUME op' = Idle, indexes' = NoCache, Apart(tree'), Rooted(tree', Root)
  PROVE  Layered'
<1>1. op'.call = "none" /\ op'.path = Root /\ op'.at = NotEnsuring
  BY DEF Idle
<1>2. \A n \in 0 .. Len(op'.dir) : ~ (n < op'.at)
  BY <1>1 DEF NotEnsuring
<1>3. Working'
  BY <1>1, <1>2 DEF Working, NoCache
<1> QED  BY <1>1, <1>3 DEF Layered

\* Every cached index is that of a key, so that its write-back makes none.
LEMMA FlushLayers ==
  ASSUME IInv, Apart(tree), Rooted(tree, Root),
         NEW c \in [Paths -> Value], Dirty(tree, c), \A p \in Paths : c[p] # Absent => Present(tree, p),
         tree' = Flush(tree, c), op' = Idle, indexes' = NoCache
  PROVE  Layered'
<1>1. Stored(tree)
  BY IInvFacts
<1>2. \A p \in Paths : tree'[p].kind = "absent" <=> tree[p].kind = "absent"
  <2> SUFFICES ASSUME NEW p \in Paths
               PROVE  tree'[p].kind = "absent" <=> tree[p].kind = "absent"
    OBVIOUS
  <2>1. CASE c[p] = Absent
    BY <2>1 DEF Flush
  <2>2. CASE c[p] # Absent
    <3>1. tree'[p] = c[p] /\ tree[p].kind # "absent" /\ c[p].kind \in DirKinds
      BY <2>2 DEF Flush, Present, ValueAt, Dirty
    <3> QED  BY <3>1 DEF DirKinds
  <2> QED  BY <2>1, <2>2
<1>3. \A p \in Paths : tree'[p].kind = "extindex" =>
                          tree[p].kind = "extindex" /\ tree'[p].ext = tree[p].ext
  BY DEF Flush, Dirty
<1>4. Apart(tree')
  BY <1>2, <1>3, ApartFewer
<1>5. Rooted(tree', Root)
  BY <1>2, RootedSame
<1> QED  BY <1>4, <1>5, IdleLayers

LEMMA FlushReturnLayers ==
  ASSUME IInv, Layered, FlushAndReturn, op.call # "ExtIndex"
  PROVE  Layered'
<1>1. Apart(tree) /\ Rooted(tree, Root) /\ \A p \in Paths : indexes[p] # Absent => Present(tree, p)
  BY DEF Layered, Working
<1>2. indexes \in [Paths -> Value] /\ Dirty(tree, indexes)
  BY IInvFacts
<1> QED  BY <1>1, <1>2, FlushLayers DEF FlushAndReturn

\* A call that begins.
LEMMA BeginLayers ==
  ASSUME IInv, Layered, Returned, UNCHANGED <<tree, indexes>>,
         op'.path = Root, op'.at \in {0, NotEnsuring}, op'.call = "Set" => op'.at = NotEnsuring,
         op'.call = "Del" => \A i \in 1 .. Len(op'.keys) : ~ IsDir(op'.keys[i])
  PROVE  Layered'
<1>1. op.path = Root
  BY DEF Returned, Idle
<1>2. \A n \in 0 .. Len(op'.dir) : ~ (n < op'.at)
  BY DEF NotEnsuring
<1>3. Working'
  BY <1>2 DEF Layered, Working
<1> QED  BY <1>1, <1>3 DEF Layered

LEMMA SetBeginLayers ==
  ASSUME IInv, Layered, NEW batch \in Batches, SetBegin(batch)
  PROVE  Layered'
<1>1. PICK n \in 1 .. Len(batch) :
        op' = [Idle EXCEPT !.call = "Set", !.pairs = SubSeq(batch, 1, n)]
  BY DEF SetBegin
<1>2. op'.call = "Set" /\ op'.path = Root /\ op'.at = NotEnsuring
  BY <1>1 DEF Idle
<1> QED  BY <1>2, BeginLayers DEF SetBegin

LEMMA MkindexBeginLayers ==
  ASSUME IInv, Layered, NEW dir \in MkindexCalls, MkindexBegin(dir)
  PROVE  Layered'
<1>1. op'.call = "Mkindex" /\ op'.path = Root /\ op'.at = 0
  BY DEF MkindexBegin, Idle
<1> QED  BY <1>1, BeginLayers DEF MkindexBegin

LEMMA DelBeginLayers ==
  ASSUME IInv, Layered, NEW keys \in DelCalls, DelBegin(keys),
         \A i \in 1 .. Len(keys) : ~ IsDir(keys[i])
  PROVE  Layered'
<1>1. op'.call = "Del" /\ op'.path = Root /\ op'.at = NotEnsuring /\ op'.keys = keys
  BY DEF DelBegin, Idle
<1>2. \A i \in 1 .. Len(op'.keys) : ~ IsDir(op'.keys[i])
  BY <1>1
<1> QED  BY <1>1, <1>2, BeginLayers DEF DelBegin

LEMMA SetPairLayers ==
  ASSUME IInv, Layered, SetPair
  PROVE  Layered'
<1> DEFINE pair == Head(op.pairs)
           key == pair.key
<1>1. op \in Frame /\ op.call = "Set" /\ op.pairs # << >>
  BY DEF SetPair, SetNextPair, IInv, TypeOK
<1>2. /\ op'.call = "Set" /\ op'.at = 0 /\ op'.dir = PairDir(pair) /\ op'.pairs = op.pairs
      /\ op'.path = op.path
  <2>1. op' = [op EXCEPT !.at = 0, !.dir = PairDir(pair)]
    BY DEF SetPair
  <2> HIDE DEF pair
  <2> QED  BY <1>1, <2>1 DEF Frame
<1>3. key \in Paths
  <2>1. op.pairs \in Seq(Pair)
    BY <1>1 DEF Frame
  <2>2. pair \in Pair
    BY <1>1, <2>1
  <2> QED  BY <2>2 DEF Pair
<1>4. tree' = tree /\ indexes' = indexes /\ ~ TargetConflict(tree, exts, indexes, key, pair.val.kids, TRUE)
  BY DEF SetPair
<1>5. ASSUME ~ IsDir(key), NEW l \in Paths, tree[l].kind = "extindex", Under(key, tree[l].ext)
      PROVE  ~ Present(tree, l \o Relative(key, tree[l].ext))
  <2>1. key # tree[l].ext
    BY <1>5, OverlayFacts DEF Dirs
  <2> QED  BY <1>3, <1>4, <1>5, <2>1, NoConflictMeans
<1>6. \A n \in 0 .. Len(op'.dir) : ~ (n < op'.at)
  BY <1>2
<1>7. op.path = Root /\ \A p \in Paths : indexes[p] # Absent => Present(tree, p)
  BY <1>1 DEF Layered, Working
<1> HIDE DEF pair
<1>8. Head(op'.pairs) = pair
  BY <1>2 DEF pair
<1>9. Working'
  BY <1>2, <1>4, <1>5, <1>6, <1>7, <1>8 DEF Working
<1> QED  BY <1>2, <1>4, <1>9 DEF Layered

\* A directory made by the step is made below ones that are there.
LEMMA MadeAbove ==
  ASSUME NEW p \in Paths, NEW k \in 0 .. Len(p),
         \A n \in 0 .. Len(p) : n < k => Present(tree, Ancestor(p, n))
  PROVE  /\ \A n \in 0 .. Len(Ancestor(p, k)) : n < k => Present(tree, Ancestor(Ancestor(p, k), n))
         /\ Ancestor(p, k) # Root => Present(tree, Parent(Ancestor(p, k)))
<1> DEFINE d == Ancestor(p, k)
<1>1. d \in Paths /\ Len(d) = k /\ k \in Nat /\ Len(p) \in Nat
  BY AncestorPath, AncestorSeq, PathSeq
<1>2. ASSUME NEW n \in 0 .. Len(d), n < k
      PROVE  Present(tree, Ancestor(d, n))
  <2>1. n \in 0 .. k /\ n \in 0 .. Len(p)
    BY <1>1, <1>2
  <2>2. Ancestor(d, n) = Ancestor(p, n)
    BY <2>1, AncestorAncestor
  <2> QED  BY <1>2, <2>1, <2>2
<1>3. ASSUME d # Root
      PROVE  Present(tree, Parent(d))
  <2>1. k - 1 \in 0 .. Len(d) /\ k - 1 < k /\ Parent(d) = Ancestor(d, k - 1)
    BY <1>1, <1>3, PathSeq DEF Parent
  <2> QED  BY <1>2, <2>1
<1> QED  BY <1>2, <1>3

LEMMA AddChildCaches ==
  ASSUME NEW t, NEW c \in [Paths -> Value], NEW d, NEW name, NEW p \in Paths,
         AddChild(t, c, d, name)[p] # c[p]
  PROVE  p = d
<1> DEFINE v == View(t, c, d)
           w == IF v.kind = "absent" THEN IndexOf({}) ELSE v
           u == [w EXCEPT !.kids = @ \cup {name}]
<1>1. AddChild(t, c, d, name) = c \/ AddChild(t, c, d, name) = [c EXCEPT ![d] = u]
  BY DEF AddChild
<1> HIDE DEF u
<1> QED  BY <1>1

\* The running call is none of the new overlay's, or it is of one that is bound.
LEMMA BoundPath ==
  ASSUME IInv, Making, Working
  PROVE  op.path = Root \/ op.path \in Bound(exts)
BY DEF Making, Working

LEMMA EnsureDirLayers ==
  ASSUME IInv, IInv', Making, Layered, EnsureDir
  PROVE  Layered'
<1> DEFINE d == NextDir
<1>1. /\ op.at \in 0 .. Len(op.dir) /\ op.dir \in Paths /\ d \in Dirs /\ d \in Paths
      /\ op'.at = op.at + 1 /\ op'.dir = op.dir /\ op'.call = op.call /\ op'.path = op.path
      /\ op'.pairs = op.pairs
      /\ \A p \in Paths \ {d} : tree'[p] = tree[p]
      /\ Present(tree, d) => tree' = tree
      /\ ~ Present(tree, d) => tree'[d] = IndexOf({})
      /\ IF d = Root THEN indexes' = indexes
         ELSE indexes' = AddChild(tree, indexes, Parent(d), ChildName(d))
  BY EnsureDirMeans
<1>2. /\ Apart(tree) /\ Rooted(tree, op.path) /\ Working
      /\ op.path = Root \/ op.path \in Bound(exts)
  BY BoundPath DEF Layered
<1>3. \A n \in 0 .. Len(op.dir) : n < op.at => Present(tree, Ancestor(op.dir, n))
  BY <1>2 DEF Working
<1>4. /\ \A n \in 0 .. Len(d) : n < op.at => Present(tree, Ancestor(d, n))
      /\ d # Root => Present(tree, Parent(d))
  BY <1>1, <1>3, MadeAbove DEF NextDir
<1>5. Len(d) = op.at
  BY <1>1, AncestorSeq DEF NextDir
<1>6. ~ DirRefused(tree, exts, indexes, d, TRUE)
  BY DEF EnsureDir
<1>7. d = Ancestor(op.dir, op.at)
  BY DEF NextDir
<1> HIDE DEF d
<1>8. /\ \A p : Present(tree, p) => Present(tree', p)
      /\ \A p : Present(tree', p) => Present(tree, p) \/ p = d
      /\ Present(tree', d)
      /\ \A p \in Paths : tree'[p].kind = "extindex" =>
                             tree[p].kind = "extindex" /\ tree'[p].ext = tree[p].ext
  <2>1. CASE Present(tree, d)
    BY <1>1, <2>1
  <2>2. CASE ~ Present(tree, d)
    <3>1. tree'[d].kind = "index"
      BY <1>1, <2>2 DEF IndexOf
    <3>2. Present(tree', d)
      BY <1>1, <3>1 DEF Present, ValueAt
    <3>3. \A p : p # d => (Present(tree', p) <=> Present(tree, p))
      BY <1>1 DEF Present, ValueAt
    <3>4. \A p \in Paths : tree'[p].kind = "extindex" => tree'[p] = tree[p]
      BY <1>1, <3>1
    <3> QED  BY <2>2, <3>2, <3>3, <3>4
  <2> QED  BY <2>1, <2>2
<1>9. Apart(tree') /\ Rooted(tree', op.path)
  <2>1. CASE Present(tree, d)
    BY <1>1, <1>2, <2>1
  <2>2. CASE ~ Present(tree, d)
    <3>1. d = Root \/ (~ ReadOnly(tree, indexes, d) /\ ~ TargetConflict(tree, exts, indexes, d, {}, TRUE))
      BY <1>6, <2>2 DEF DirRefused
    <3>2. ASSUME NEW l \in Paths, tree[l].kind = "extindex", Under(d, tree[l].ext), d # tree[l].ext
          PROVE  ~ Present(tree, l \o Relative(d, tree[l].ext))
      <4>1. d # Root
        BY <1>1, <3>2, OverlayFacts, StrictlyUnder
      <4> QED  BY <1>1, <3>1, <3>2, <4>1, NoConflictMeans
    <3>3. tree'[d].kind \notin {"absent", "extindex"}
      BY <1>1, <2>2 DEF IndexOf
    <3>4. \A n \in 0 .. Len(d) : n < Len(d) => Present(tree, Ancestor(d, n))
      BY <1>4, <1>5
    <3>5. d = Root \/ ~ ReadOnly(tree, indexes, d)
      BY <3>1
    <3> QED  BY <1>1, <1>2, <2>2, <3>2, <3>3, <3>4, <3>5, NewKeyLayers
  <2> QED  BY <2>1, <2>2
<1>10. ASSUME NEW n \in 0 .. Len(op.dir), n < op.at + 1
       PROVE  Present(tree', Ancestor(op.dir, n))
  <2>1. n < op.at \/ n = op.at
    BY <1>1, <1>10
  <2> QED  BY <1>3, <1>7, <1>8, <2>1
<1>11. ASSUME NEW p \in Paths, indexes'[p] # Absent
       PROVE  Present(tree', p)
  <2>1. CASE indexes'[p] = indexes[p]
    BY <1>2, <1>8, <1>11, <2>1 DEF Working
  <2>2. CASE indexes'[p] # indexes[p]
    <3>1. d # Root /\ p = Parent(d)
      BY <1>1, <2>2, AddChildCaches, IInvFacts
    <3> QED  BY <1>4, <1>8, <3>1
  <2> QED  BY <2>1, <2>2
<1>12. op.at # NotEnsuring /\ op'.at # NotEnsuring /\ op.call # "Del"
  BY <1>1 DEF NotEnsuring, IInv, FrameInv
<1>13. ASSUME op.call = "Set", ~ IsDir(Head(op.pairs).key),
              NEW l \in Paths, tree'[l].kind = "extindex", Under(Head(op.pairs).key, tree'[l].ext)
       PROVE  ~ Present(tree', l \o Relative(Head(op.pairs).key, tree'[l].ext))
  <2> DEFINE key == Head(op.pairs).key
             e == tree[l].ext
             w == l \o Relative(key, e)
  <2>1. tree[l].kind = "extindex" /\ tree'[l].ext = e /\ e \in Dirs
    BY <1>8, <1>13, OverlayFacts
  <2>2. ~ Present(tree, w)
    BY <1>2, <1>12, <1>13, <2>1 DEF Working
  <2>3. key \in Paths
    <3>1. op.pairs \in Seq(Pair) /\ op.pairs # << >>
      BY <1>12, <1>13 DEF IInv, TypeOK, Frame, FrameInv
    <3>2. Head(op.pairs) \in Pair
      BY <3>1
    <3> QED  BY <3>2 DEF Pair
  <2>4. w # d
    <3>1. ~ IsDir(key) /\ Under(key, e)
      BY <1>13, <2>1
    <3> HIDE DEF key, e
    <3> QED  BY <1>1, <2>1, <2>3, <3>1, MovedFile
  <2> HIDE DEF w
  <2>5. ~ Present(tree', w)
    BY <1>8, <2>2, <2>4
  <2> QED  BY <2>1, <2>5 DEF w
<1>14. Working'
  <2>1. op'.call # "ExtIndex" => op'.path = Root
    BY <1>1, <1>2 DEF Working
  <2>2. \A n \in 0 .. Len(op'.dir) : n < op'.at => Present(tree', Ancestor(op'.dir, n))
    BY <1>1, <1>10
  <2>3. op'.call = "Set" /\ op'.at # NotEnsuring => op'.dir = PairDir(Head(op'.pairs))
    BY <1>1, <1>2, <1>12 DEF Working
  <2>4. op'.call # "Del"
    BY <1>1, <1>12
  <2> QED  BY <1>1, <1>11, <1>13, <2>1, <2>2, <2>3, <2>4 DEF Working
<1> QED  BY <1>1, <1>9, <1>14 DEF Layered

LEMMA SetWriteLayers ==
  ASSUME IInv, Making, Layered, SetWrite
  PROVE  Layered'
<1> DEFINE pair == Head(op.pairs)
           key == pair.key
<1>1. op \in Frame /\ op.call = "Set" /\ op.at = Len(op.dir) + 1 /\ op.dir \in Paths
      /\ op.at # NotEnsuring /\ op.pairs # << >>
  <2>1. op \in Frame /\ op.call = "Set" /\ op.at = Len(op.dir) + 1 /\ op.dir \in Paths
    BY DEF SetWrite, EnsuredDir, IInv, TypeOK, Frame, Dirs
  <2>2. op.at # NotEnsuring
    BY <2>1, PathSeq DEF NotEnsuring
  <2> QED  BY <2>1, <2>2 DEF IInv, FrameInv
<1>2. key \in Paths /\ ValidPair(pair)
  <2>1. op.pairs \in Seq(Pair)
    BY <1>1 DEF Frame
  <2>2. pair \in Pair /\ 1 \in 1 .. Len(op.pairs) /\ pair = op.pairs[1]
    BY <1>1, <2>1
  <2> QED  BY <2>2 DEF Pair, IInv, FrameInv
<1>3. op'.call = "Set" /\ op'.path = Root /\ op'.at = NotEnsuring
  BY DEF SetWrite, Idle
<1>4. Apart(tree) /\ Rooted(tree, op.path) /\ op.path = Root /\ op.dir = PairDir(pair)
      /\ \A p \in Paths : indexes[p] # Absent => Present(tree, p)
  BY <1>1 DEF Layered, Working
<1>5. \A n \in 0 .. Len(op.dir) : Present(tree, Ancestor(op.dir, n))
  <2>1. \A n \in 0 .. Len(op.dir) : n < op.at
    BY <1>1, PathSeq
  <2> QED  BY <2>1 DEF Layered, Working
<1>6. Present(tree, op.dir)
  <2>1. Len(op.dir) \in 0 .. Len(op.dir) /\ Ancestor(op.dir, Len(op.dir)) = op.dir
    BY <1>1, PathSeq DEF Ancestor
  <2> QED  BY <1>5, <2>1
<1>7. SUFFICES Apart(tree') /\ Rooted(tree', Root)
               /\ \A p \in Paths : indexes'[p] # Absent => Present(tree', p)
  <2>1. \A n \in 0 .. Len(op'.dir) : ~ (n < op'.at)
    BY <1>3 DEF NotEnsuring
  <2> QED  BY <1>3, <2>1 DEF Layered, Working
<1>8. CASE IsDir(key)
  <2>1. tree' = tree /\ indexes' = [indexes EXCEPT ![key] = pair.val]
    BY <1>8 DEF SetWrite
  <2>2. op.dir = key
    BY <1>4, <1>8 DEF PairDir
  <2>3. \A p \in Paths : p # key => indexes'[p] = indexes[p]
    BY <2>1 DEF IInv, TypeOK
  <2> HIDE DEF pair, key
  <2> QED  BY <1>4, <1>6, <2>1, <2>2, <2>3
<1>9. CASE ~ IsDir(key)
  <2>1. /\ tree' = [tree EXCEPT ![key] = pair.val]
        /\ indexes' = AddChild(tree, indexes, Parent(key), ChildName(key))
        /\ ~ ReadOnly(tree, indexes, key) /\ key # Root
    BY <1>9 DEF SetWrite, WriteRefused, IsDir
  <2>2. tree \in [Paths -> Value] /\ pair.val.kind \in {"data", "ptr"}
    BY <1>2, <1>9 DEF IInv, TypeOK, ValidPair
  <2>3. op.dir = Parent(key)
    BY <1>4, <1>9 DEF PairDir
  <2>4. ASSUME NEW l \in Paths, tree[l].kind = "extindex", Under(key, tree[l].ext)
        PROVE  ~ Present(tree, l \o Relative(key, tree[l].ext))
    BY <1>1, <1>9, <2>4 DEF Layered, Working
  <2> HIDE DEF pair, key
  <2>5. /\ \A p \in Paths \ {key} : tree'[p] = tree[p]
        /\ tree'[key].kind \notin {"absent", "extindex"}
    BY <1>2, <2>1, <2>2
  <2>6. \A n \in 0 .. Len(key) : n < Len(key) => Present(tree, Ancestor(key, n))
    <3> SUFFICES ASSUME NEW n \in 0 .. Len(key), n < Len(key)
                 PROVE  Present(tree, Ancestor(key, n))
      OBVIOUS
    <3>1. Len(key) \in Nat /\ Len(key) - 1 \in 0 .. Len(key) /\ n \in 0 .. Len(key) - 1
      BY <1>2, PathSeq
    <3>2. op.dir = Ancestor(key, Len(key) - 1) /\ Len(op.dir) = Len(key) - 1
      BY <1>2, <2>1, <2>3, <3>1, AncestorSeq DEF Parent
    <3>3. Ancestor(op.dir, n) = Ancestor(key, n)
      BY <1>2, <3>1, <3>2, AncestorAncestor
    <3> QED  BY <1>5, <3>1, <3>2, <3>3
  <2>7. Apart(tree') /\ Rooted(tree', Root)
    <3>1. CASE Present(tree, key)
      <4>1. tree[key].kind # "absent"
        BY <1>2, <3>1 DEF Present, ValueAt
      <4>2. \A p \in Paths : tree'[p].kind = "absent" <=> tree[p].kind = "absent"
        BY <2>5, <4>1
      <4>3. \A p \in Paths : tree'[p].kind = "extindex" =>
                                tree[p].kind = "extindex" /\ tree'[p].ext = tree[p].ext
        BY <2>5
      <4>4. Apart(tree')
        BY <1>4, <4>2, <4>3, ApartFewer
      <4> QED  BY <1>4, <4>2, <4>4, RootedSame
    <3>2. CASE ~ Present(tree, key)
      <4>1. Apart(tree') /\ Rooted(tree', op.path)
        BY <1>2, <1>4, <2>1, <2>4, <2>5, <2>6, <3>2, NewKeyLayers
      <4> QED  BY <1>4, <4>1
    <3> QED  BY <3>1, <3>2
  <2>8. ASSUME NEW p \in Paths, indexes'[p] # Absent
        PROVE  Present(tree', p)
    <3>1. Present(tree, p)
      <4>1. CASE indexes'[p] = indexes[p]
        BY <1>4, <2>8, <4>1
      <4>2. CASE indexes'[p] # indexes[p]
        <5>1. p = Parent(key)
          BY <2>1, <4>2, AddChildCaches, IInvFacts
        <5> QED  BY <1>6, <2>3, <5>1
      <4> QED  BY <4>1, <4>2
    <3> QED  BY <2>5, <3>1 DEF Present, ValueAt
  <2> QED  BY <2>7, <2>8
<1> QED  BY <1>8, <1>9

LEMMA ExtIndexBeginLayers ==
  ASSUME IInv, IInv', Layered, NEW path \in Dirs, NEW extpath \in Dirs,
         ExtIndexBegin(path, extpath)
  PROVE  Layered'
<1> DEFINE v == ExtIndexOf(tree[path].kids, extpath)
<1>1. /\ tree' = [tree EXCEPT ![path] = v] /\ indexes' = indexes /\ Returned
      /\ LayersApart(tree', exts')
      /\ op' = [call |-> "ExtIndex", at |-> 0, dir |-> Parent(path), pairs |-> << >>,
                keys |-> << >>, path |-> path]
  BY DEF ExtIndexBegin, Idle, ValidExts
<1>2. op'.call = "ExtIndex" /\ op'.at = 0 /\ op'.path = path /\ path \in Paths
  BY <1>1 DEF Dirs
<1>3. v.kind = "extindex"
  BY DEF ExtIndexOf
<1>4. indexes = NoCache /\ op.path = Root /\ tree \in [Paths -> Value]
  BY <1>1 DEF IInv, CacheInv, TypeOK, Returned, Idle
<1> HIDE DEF v
<1>5. Apart(tree')
  <2> SUFFICES ASSUME NEW l \in Paths, NEW p \in Keys(tree'), tree'[l].kind = "extindex",
                      Under(p, l), p # l
               PROVE  ~ Present(tree', tree'[l].ext \o Relative(p, l))
    BY DEF Apart
  <2>1. l \in Dirs /\ tree'[l].ext \in Dirs /\ exts'[l] = tree'[l].ext
    BY DEF IInv, TypeOK, ExtsMirror, Target, DirKinds
  <2>2. l \in Bound(exts')
    BY <2>1, PathsAssumption DEF Bound, Dirs, PathsAssumption
  <2> QED  BY <1>1, <2>1, <2>2 DEF LayersApart
<1>6. Rooted(tree', path)
  <2> SUFFICES ASSUME NEW p \in Keys(tree'), NEW n \in 0 .. Len(p), ~ Present(tree', Ancestor(p, n))
               PROVE  Under(p, path) /\ n < Len(path)
    BY DEF Rooted
  <2>1. \A r : Present(tree', r) <=> Present(tree, r) \/ r = path
    BY <1>1, <1>2, <1>3, <1>4 DEF Present, ValueAt
  <2>2. p \in Paths /\ Len(p) \in Nat
    BY PathSeq DEF Keys
  <2>3. CASE p \in Keys(tree)
    <3>1. Len(Root) = 0
      BY DEF Root
    <3>2. ~ (n < Len(Root))
      BY <3>1
    <3> QED  BY <1>4, <2>1, <2>3, <3>2 DEF Layered, Rooted
  <2>4. CASE p \notin Keys(tree)
    <3>1. p = path
      BY <2>1, <2>2, <2>4 DEF Keys
    <3>2. n = Len(p) => Ancestor(p, n) = p
      BY <2>2, PathSeq DEF Ancestor
    <3>3. n # Len(p)
      BY <2>1, <3>1, <3>2
    <3>4. Under(p, p)
      BY <2>2, PathSeq, UnderMeans
    <3> QED  BY <2>2, <3>1, <3>3, <3>4
  <2> QED  BY <2>3, <2>4
<1>7. Working'
  <2>1. \A n \in 0 .. Len(op'.dir) : ~ (n < op'.at)
    BY <1>2
  <2>2. \A p \in Paths : indexes'[p] = Absent
    BY <1>1, <1>4 DEF NoCache
  <2> QED  BY <1>2, <2>1, <2>2 DEF Working
<1> QED  BY <1>2, <1>5, <1>6, <1>7 DEF Layered

LEMMA ExtIndexReturnLayers ==
  ASSUME IInv, Making, Layered, ExtIndexReturn
  PROVE  Layered'
<1> DEFINE q == op.path
           c == AddChild(tree, indexes, Parent(q), ChildName(q))
<1>1. /\ op.call = "ExtIndex" /\ op.at = Len(op.dir) + 1 /\ op.dir = Parent(q)
      /\ q \in Dirs /\ q # Root /\ q \in Paths
      /\ tree' = Flush(tree, c) /\ indexes' = NoCache /\ op' = Idle
  BY DEF ExtIndexReturn, EnsuredDir, Making, IInv, FrameInv, Dirs
<1>2. Parent(q) \in Dirs /\ Parent(q) \in Paths /\ ChildName(q) \in Child
  BY <1>1, ParentDir, ChildNameType DEF Dirs
<1>3. Apart(tree) /\ Rooted(tree, q) /\ \A p \in Paths : indexes[p] # Absent => Present(tree, p)
  BY DEF Layered, Working
<1>4. \A n \in 0 .. Len(op.dir) : Present(tree, Ancestor(op.dir, n))
  <2>1. \A n \in 0 .. Len(op.dir) : n < op.at
    BY <1>1, <1>2, PathSeq
  <2> QED  BY <2>1 DEF Layered, Working
<1>5. Present(tree, Parent(q))
  <2>1. Len(op.dir) \in 0 .. Len(op.dir) /\ Ancestor(op.dir, Len(op.dir)) = op.dir
    BY <1>1, <1>2, PathSeq DEF Ancestor
  <2> QED  BY <1>1, <1>4, <2>1
<1> HIDE DEF q
<1>6. c \in [Paths -> Value] /\ Dirty(tree, c)
  BY <1>2, IInvFacts, AddChildKeeps
<1>7. ASSUME NEW p \in Paths, c[p] # Absent
      PROVE  Present(tree, p)
  <2>1. CASE c[p] = indexes[p]
    BY <1>3, <1>7, <2>1
  <2>2. CASE c[p] # indexes[p]
    BY <1>5, <2>2, AddChildCaches, IInvFacts
  <2> QED  BY <2>1, <2>2
<1> HIDE DEF c
<1>8. Rooted(tree, Root)
  <2> SUFFICES ASSUME NEW p \in Keys(tree), NEW n \in 0 .. Len(p), ~ Present(tree, Ancestor(p, n))
               PROVE  FALSE
    BY DEF Rooted
  <2>1. Under(p, q) /\ n < Len(q) /\ p \in Paths
    BY <1>3 DEF Rooted, Keys
  <2>2. Len(q) \in 0 .. Len(p) /\ q = Ancestor(p, Len(q)) /\ Len(q) \in Nat
    BY <1>1, <2>1, UnderAncestor, PathSeq
  <2>3. n \in 0 .. Len(q) /\ n \in 0 .. Len(q) - 1 /\ Len(q) - 1 \in 0 .. Len(q)
    BY <2>1, <2>2
  <2>4. Ancestor(q, n) = Ancestor(p, n)
    BY <2>1, <2>2, <2>3, AncestorAncestor
  <2>5. op.dir = Ancestor(q, Len(q) - 1) /\ Len(op.dir) = Len(q) - 1
    BY <1>1, <2>3, AncestorSeq DEF Parent
  <2>6. Ancestor(op.dir, n) = Ancestor(q, n)
    BY <1>1, <2>3, <2>5, AncestorAncestor
  <2> QED  BY <1>4, <2>3, <2>4, <2>5, <2>6
<1> QED  BY <1>1, <1>3, <1>6, <1>7, <1>8, FlushLayers

\* Keys go, and with a key all that is below it; no call runs, or one that
\* deletes files.
LEMMA RemovalLayers ==
  ASSUME Apart(tree), Rooted(tree, Root),
         NEW S, \A p \in S, r \in Keys(tree) : p # r /\ (\E n \in 0 .. Len(r) : p = Ancestor(r, n)) => r \in S,
         \A p \in Paths : tree'[p].kind = (IF p \in S THEN "absent" ELSE tree[p].kind),
         \A p \in Paths \ S : tree'[p].ext = tree[p].ext,
         indexes' = NoCache, op'.call \in {"none", "Del"}, op'.path = Root,
         op'.at = NotEnsuring,
         \A i \in 1 .. Len(op'.keys) : ~ IsDir(op'.keys[i])
  PROVE  Layered'
<1>1. \A p : Present(tree', p) <=> Present(tree, p) /\ p \notin S
  BY DEF Present, ValueAt, Absent, Plain
<1>2. Apart(tree')
  <2>1. \A p \in Paths : tree'[p].kind # "absent" => tree[p].kind # "absent"
    OBVIOUS
  <2>2. \A p \in Paths : tree'[p].kind = "extindex" =>
                            tree[p].kind = "extindex" /\ tree'[p].ext = tree[p].ext
    OBVIOUS
  <2> QED  BY <2>1, <2>2, ApartFewer
<1>3. Rooted(tree', Root)
  <2> SUFFICES ASSUME NEW p \in Keys(tree'), NEW n \in 0 .. Len(p), ~ Present(tree', Ancestor(p, n))
               PROVE  FALSE
    BY DEF Rooted
  <2>1. p \in Keys(tree) /\ p \notin S
    BY <1>1 DEF Keys
  <2>2. ~ (n < Len(Root))
    BY DEF Root
  <2>3. Present(tree, Ancestor(p, n))
    BY <2>1, <2>2 DEF Rooted
  <2>4. Ancestor(p, n) \in S
    BY <1>1, <2>3
  <2> QED  BY <2>1, <2>4
<1>4. \A n \in 0 .. Len(op'.dir) : ~ (n < op'.at)
  BY DEF NotEnsuring
<1>5. \A p \in Paths : indexes'[p] = Absent
  BY DEF NoCache
<1>6. Working'
  BY <1>4, <1>5 DEF Working
<1> QED  BY <1>2, <1>3, <1>6 DEF Layered

\* Nothing is below a file.
LEMMA FileAlone ==
  ASSUME NEW p \in Paths, p \notin Dirs, NEW r \in Paths, NEW n \in 0 .. Len(r),
         p = Ancestor(r, n)
  PROVE  r = p
<1>1. ~ (n < Len(r))
  BY AncestorDir
<1>2. n = Len(r)
  BY <1>1, PathSeq
<1> QED  BY <1>2, PathSeq DEF Ancestor

\* What RemoveNames(Without(tree, S), gone) keeps.
LEMMA CutKeeps ==
  ASSUME IInv, NEW S, NEW gone, tree' = RemoveNames(Without(tree, S), gone)
  PROVE  /\ \A p \in Paths : tree'[p].kind = (IF p \in S THEN "absent" ELSE tree[p].kind)
         /\ \A p \in Paths \ S : tree'[p].ext = tree[p].ext
<1> DEFINE cut == Without(tree, S)
<1>1. Stored(cut)
  BY IInvFacts, WithoutKeeps
<1>2. \A p \in Paths : cut[p] = IF p \in S THEN Absent ELSE tree[p]
  BY DEF Without
<1> HIDE DEF cut
<1>3. \A p \in Paths : tree'[p].kind = cut[p].kind /\ tree'[p].ext = cut[p].ext
  BY <1>1, RemoveNamesKeeps DEF cut
<1> QED  BY <1>2, <1>3, ValueTypes

LEMMA DelKeyLayers ==
  ASSUME IInv, Layered, DelKey
  PROVE  Layered'
<1> DEFINE key == Head(op.keys)
           cut == Without(tree, {key})
           ext2 == [exts EXCEPT ![key] = NoPath]
           invalid == BreaksExts(tree, {key}, cut, ext2)
<1>1. op \in Frame /\ op.call = "Del" /\ op.keys # << >> /\ op.path = Root
      /\ Apart(tree) /\ Rooted(tree, Root)
  BY DEF DelKey, IInv, TypeOK, Layered, Working
<1>2. op.keys \in Seq(Paths)
  BY <1>1 DEF Frame
<1>3. key \in Paths /\ key = op.keys[1] /\ 1 \in 1 .. Len(op.keys)
  BY <1>1, <1>2
<1>4. key \notin Dirs
  BY <1>1, <1>3 DEF Layered, Working, Dirs
<1>5. ~ invalid
  <2>1. tree[key].kind # "index"
    BY <1>3, <1>4 DEF IInv, TypeOK, DirKinds
  <2> QED  BY <2>1 DEF BreaksExts
<1>6. indexes' = NoCache
  BY <1>1 DEF DelKey, IInv, CacheInv
<1>7. CASE ReadOnly(tree, NoCache, key)
  <2>1. tree' = tree /\ op' = Idle
    BY <1>7 DEF DelKey
  <2> QED  BY <1>1, <1>6, <2>1, IdleLayers
<1>8. CASE ~ ReadOnly(tree, NoCache, key)
  <2>1. tree' = RemoveNames(cut, {key}) /\ op' = [op EXCEPT !.keys = Tail(@)]
    BY <1>5, <1>8 DEF DelKey
  <2>2. op'.call = "Del" /\ op'.path = Root /\ op'.keys = Tail(op.keys) /\ op'.at = NotEnsuring
    BY <1>1, <2>1 DEF Frame, IInv, FrameInv
  <2>3. \A i \in 1 .. Len(op'.keys) : ~ IsDir(op'.keys[i])
    <3> SUFFICES ASSUME NEW i \in 1 .. Len(Tail(op.keys)) PROVE ~ IsDir(Tail(op.keys)[i])
      BY <2>2
    <3>1. i + 1 \in 1 .. Len(op.keys) /\ Tail(op.keys)[i] = op.keys[i + 1]
      BY <1>1, <1>2
    <3> QED  BY <1>1, <3>1 DEF Layered, Working
  <2> HIDE DEF key
  <2>4. \A p \in {key}, r \in Keys(tree) :
           p # r /\ (\E n \in 0 .. Len(r) : p = Ancestor(r, n)) => r \in {key}
    BY <1>3, <1>4, FileAlone DEF Keys
  <2>5. /\ \A p \in Paths : tree'[p].kind = (IF p \in {key} THEN "absent" ELSE tree[p].kind)
        /\ \A p \in Paths \ {key} : tree'[p].ext = tree[p].ext
    BY <2>1, CutKeeps
  <2> QED  BY <1>1, <1>6, <2>2, <2>3, <2>4, <2>5, RemovalLayers
<1> QED  BY <1>7, <1>8

\* DelTree takes with a key all keys below it.
LEMMA DoomedBelow ==
  ASSUME IInv, NEW prefix \in Paths, NEW p \in Doomed(tree, prefix), NEW r \in Keys(tree),
         NEW n \in 0 .. Len(r), p = Ancestor(r, n)
  PROVE  r \in Doomed(tree, prefix)
<1>1. r \in Paths /\ r \in Seq(Child) /\ prefix \in Seq(Child) /\ p \in Paths /\ p \in Seq(Child)
      /\ Under(r, p)
  BY PathSeq, AncestorPath, AncestorUnder DEF Keys
<1>2. ASSUME p \notin Dirs
      PROVE  r = p
  BY <1>1, <1>2, FileAlone
<1>3. CASE tree[prefix].kind = "ptr"
  <2>1. prefix \notin Dirs
    BY <1>3 DEF IInv, TypeOK, DirKinds
  <2> QED  BY <1>2, <1>3, <2>1 DEF Doomed
<1>4. CASE tree[prefix].kind # "ptr" /\ IsDir(prefix)
  <2>1. Under(p, prefix)
    BY <1>4 DEF Doomed
  <2>2. Under(r, prefix)
    BY <1>1, <2>1, UnderTransitive
  <2> QED  BY <1>4, <2>2 DEF Doomed
<1>5. CASE tree[prefix].kind # "ptr" /\ ~ IsDir(prefix)
  <2> DEFINE dir == AsDir(prefix)
  <2>1. dir \in Seq(Child)
    <3>1. prefix # Root /\ Len(prefix) \in 1 .. Len(prefix) /\ prefix[Len(prefix)] \in Child
      BY <1>5, PathSeq DEF IsDir
    <3>2. [prefix[Len(prefix)] EXCEPT !.dir = TRUE] \in Child
      BY <3>1 DEF Child
    <3>3. dir = [prefix EXCEPT ![Len(prefix)] = [prefix[Len(prefix)] EXCEPT !.dir = TRUE]]
      BY <1>1, <3>1 DEF AsDir
    <3> QED  BY <1>1, <3>1, <3>2, <3>3
  <2> HIDE DEF dir
  <2>2. p = prefix \/ Under(p, dir)
    BY <1>5 DEF Doomed, dir
  <2>3. CASE p = prefix
    BY <1>2, <1>5, <2>3 DEF Dirs
  <2>4. CASE Under(p, dir)
    <3>1. Under(r, dir)
      BY <1>1, <2>1, <2>4, UnderTransitive
    <3> QED  BY <1>5, <3>1 DEF Doomed, dir
  <2> QED  BY <2>2, <2>3, <2>4
<1> QED  BY <1>3, <1>4, <1>5

LEMMA DelTreeLayers ==
  ASSUME IInv, Layered, NEW prefix \in Paths, DelTree(prefix)
  PROVE  Layered'
<1> DEFINE doomed == Doomed(tree, prefix)
<1>1. /\ tree' = RemoveNames(Without(tree, doomed), IF doomed = {} THEN {prefix} ELSE doomed)
      /\ indexes' = indexes /\ op' = op /\ Returned
  BY DEF DelTree
<1>2. /\ indexes' = NoCache /\ op'.call = "none" /\ op'.path = Root /\ op.path = Root
      /\ op'.at = NotEnsuring /\ op'.keys = << >>
  BY <1>1 DEF IInv, CacheInv, Returned, Idle
<1>3. \A i \in 1 .. Len(op'.keys) : ~ IsDir(op'.keys[i])
  BY <1>2
<1>4. \A p \in doomed, r \in Keys(tree) :
         p # r /\ (\E n \in 0 .. Len(r) : p = Ancestor(r, n)) => r \in doomed
  BY DoomedBelow
<1> HIDE DEF doomed
<1>5. /\ \A p \in Paths : tree'[p].kind = (IF p \in doomed THEN "absent" ELSE tree[p].kind)
      /\ \A p \in Paths \ doomed : tree'[p].ext = tree[p].ext
  BY <1>1, CutKeeps
<1>6. Apart(tree) /\ Rooted(tree, Root)
  BY <1>2 DEF Layered
<1> QED  BY <1>2, <1>3, <1>4, <1>5, <1>6, RemovalLayers

LEMMA DelExtIndexLayers ==
  ASSUME IInv, Layered, NEW path \in Paths, DelExtIndex(path)
  PROVE  Layered'
<1> DEFINE v == IndexOf(tree[path].kids)
<1>1. /\ tree[path].kind = "extindex" /\ tree' = [tree EXCEPT ![path] = v] /\ v.kind = "index"
      /\ indexes' = indexes /\ op' = op /\ Returned
  BY DEF DelExtIndex, IndexOf
<1>2. indexes' = NoCache /\ op' = Idle /\ op.path = Root
  BY <1>1 DEF IInv, CacheInv, Returned, Idle
<1>3. tree \in [Paths -> Value]
  BY DEF IInv, TypeOK
<1> HIDE DEF v
<1>4. \A p \in Paths : tree'[p].kind = "absent" <=> tree[p].kind = "absent"
  BY <1>1, <1>3
<1>5. \A p \in Paths : tree'[p].kind = "extindex" =>
                          tree[p].kind = "extindex" /\ tree'[p].ext = tree[p].ext
  BY <1>1, <1>3
<1>6. Apart(tree')
  BY <1>4, <1>5, ApartFewer DEF Layered
<1>7. Rooted(tree', Root)
  BY <1>2, <1>4, RootedSame DEF Layered
<1> QED  BY <1>2, <1>6, <1>7, IdleLayers

LEMMA ClearLayers ==
  ASSUME IInv, Clear
  PROVE  Layered'
<1>1. \A p : ~ Present(tree', p)
  BY ValueTypes DEF Clear, NoCache, Present, ValueAt
<1>2. Apart(tree') /\ Rooted(tree', Root)
  BY <1>1 DEF Apart, Rooted, Keys
<1>3. indexes' = NoCache /\ op' = Idle
  BY DEF Clear, IInv, CacheInv, Returned
<1> QED  BY <1>2, <1>3, IdleLayers

\* The calls of those clients are calls of the store, and Del's are of files.
LEMMA FilesCalls ==
  /\ BatchesOf["files"] \subseteq Batches /\ DelsOf["files"] \subseteq DelCalls
  /\ TreesOf["files"] \subseteq DelTreeCalls /\ MountsOf["files"] \subseteq ExtIndexCalls
  /\ \A keys \in DelsOf["files"] : \A i \in 1 .. Len(keys) : ~ IsDir(keys[i])
<1>1. "files" \in ClientKinds
  BY DEF ClientKinds
<1> QED  BY <1>1, ClientsAssumption DEF ClientsAssumption, LeaveIndexes

LEMMA LayersStep ==
  ASSUME IInv, IInv', Making, Layered, FilesNext \/ UNCHANGED vars
  PROVE  Layered'
<1> USE FilesCalls
<1>1. ASSUME NEW batch \in BatchesOf["files"], SetBegin(batch) PROVE Layered'
  BY <1>1, SetBeginLayers
<1>2. CASE SetConflict
  BY <1>2, FlushReturnLayers DEF SetConflict, SetNextPair
<1>3. CASE SetPair
  BY <1>3, SetPairLayers
<1>4. CASE SetWrite
  BY <1>4, SetWriteLayers
<1>5. CASE SetRefused
  BY <1>5, FlushReturnLayers DEF SetRefused
<1>6. CASE SetReturn
  BY <1>6, FlushReturnLayers DEF SetReturn
<1>7. CASE EnsureDir
  BY <1>7, EnsureDirLayers
<1>8. ASSUME NEW dir \in MkindexCalls, MkindexBegin(dir) PROVE Layered'
  BY <1>8, MkindexBeginLayers
<1>9. CASE MkindexReturn
  BY <1>9, FlushReturnLayers DEF MkindexReturn
<1>10. ASSUME NEW call \in MountsOf["files"], ExtIndexBegin(call[1], call[2]) PROVE Layered'
  <2>1. call[1] \in Dirs /\ call[2] \in Dirs
    BY CallsAssumption DEF CallsAssumption
  <2> QED  BY <1>10, <2>1, ExtIndexBeginLayers
<1>11. CASE ExtIndexReturn
  BY <1>11, ExtIndexReturnLayers
<1>12. ASSUME NEW path \in DelExtCalls, DelExtIndex(path) PROVE Layered'
  BY <1>12, CallsAssumption, DelExtIndexLayers DEF CallsAssumption
<1>13. ASSUME NEW keys \in DelsOf["files"], DelBegin(keys) PROVE Layered'
  BY <1>13, DelBeginLayers
<1>14. CASE DelKey
  BY <1>14, DelKeyLayers
<1>15. CASE DelReturn
  <2>1. tree' = tree /\ op' = Idle /\ indexes' = NoCache /\ op.path = Root
    BY <1>15 DEF DelReturn, IInv, CacheInv, Layered, Working
  <2> QED  BY <2>1, IdleLayers DEF Layered
<1>16. ASSUME NEW prefix \in TreesOf["files"], DelTree(prefix) PROVE Layered'
  BY <1>16, CallsAssumption, DelTreeLayers DEF CallsAssumption
<1>17. CASE Clear
  BY <1>17, ClearLayers
<1>18. CASE UNCHANGED vars
  BY <1>18 DEF vars, Layered, Working, Apart, Rooted, Present, ValueAt, Keys
<1> QED
  BY <1>1, <1>2, <1>3, <1>4, <1>5, <1>6, <1>7, <1>8, <1>9, <1>10, <1>11, <1>12, <1>13,
     <1>14, <1>15, <1>16, <1>17, <1>18 DEF FilesNext, NextOf

\* Whichever the clients are, their calls are those of the store.
LEMMA ClientsStep ==
  ASSUME clients \in ClientKinds, [ClientsNext]_<<vars, clients>>
  PROVE  /\ [Next]_vars
         /\ clients' = clients
         /\ clients = "files" => FilesNext \/ UNCHANGED vars
<1>1. CASE UNCHANGED <<vars, clients>>
  BY <1>1
<1>2. CASE ClientsNext
  <2>1. /\ BatchesOf[clients] \subseteq Batches /\ DelsOf[clients] \subseteq DelCalls
        /\ TreesOf[clients] \subseteq DelTreeCalls /\ MountsOf[clients] \subseteq ExtIndexCalls
    BY ClientsAssumption DEF ClientsAssumption
  <2>2. NextOf(BatchesOf[clients], DelsOf[clients], TreesOf[clients], MountsOf[clients])
    BY <1>2 DEF ClientsNext
  <2>3. Next
    BY <2>1, <2>2 DEF Next, NextOf
  <2>4. clients = "files" => FilesNext
    BY <2>2 DEF FilesNext
  <2> QED  BY <1>2, <2>3, <2>4 DEF ClientsNext
<1> QED  BY <1>1, <1>2

LEMMA LayersInvariance ==
  ClientsSpec => [](clients \in ClientKinds /\ IInv /\ Making /\ (clients = "files" => Layered))
<1> DEFINE J == clients \in ClientKinds /\ IInv /\ Making /\ (clients = "files" => Layered)
<1>1. Init => Making /\ Layered
  <2> SUFFICES ASSUME Init PROVE Making /\ Layered
    OBVIOUS
  <2>1. op = Idle /\ indexes = NoCache /\ \A p : ~ Present(tree, p)
    BY ValueTypes DEF Init, NoCache, Present, ValueAt
  <2>2. op.call = "none" /\ op.path = Root /\ op.at = NotEnsuring
    BY <2>1 DEF Idle
  <2>3. \A n \in 0 .. Len(op.dir) : ~ (n < op.at)
    BY <2>2 DEF NotEnsuring
  <2>4. Working
    BY <2>1, <2>2, <2>3 DEF Working, NoCache
  <2>5. Apart(tree) /\ Rooted(tree, op.path)
    BY <2>1 DEF Apart, Rooted, Keys
  <2> QED  BY <2>2, <2>4, <2>5 DEF Making, Layered
<1>2. ClientsInit => J
  BY <1>1, InitInv DEF ClientsInit
<1>3. J /\ [ClientsNext]_<<vars, clients>> => J'
  <2> SUFFICES ASSUME J, [ClientsNext]_<<vars, clients>> PROVE J'
    OBVIOUS
  <2>1. [Next]_vars /\ clients' = clients /\ (clients = "files" => FilesNext \/ UNCHANGED vars)
    BY ClientsStep
  <2>2. IInv'
    BY <2>1, NextInv
  <2>3. Making'
    BY <2>1, <2>2, MakingStep
  <2>4. clients' = "files" => Layered'
    BY <2>1, <2>2, LayersStep
  <2> QED  BY <2>1, <2>2, <2>3, <2>4
<1> QED  BY <1>2, <1>3, PTL DEF ClientsSpec

\* Clients that delete files by Del and directories by DelTree never see a key
\* in both layers of an overlay: the checks of the calls that write, which look
\* at one key and at the nearest overlay, keep what ErrExtCollision asks of a
\* whole subtree.
THEOREM LayersKeptApart == ClientsSpec => []FilesDisjoint
<1>1. IInv /\ (clients = "files" => Layered) => FilesDisjoint
  BY DEF FilesDisjoint, Layered, Apart, LayersDisjoint, Overlays, Dirs
<1> QED  BY <1>1, LayersInvariance, PTL

-----------------------------------------------------------------------------
(* What a deleted key uncovers *)

LEMMA MovedChild ==
  ASSUME NEW p \in Paths, p # Root, NEW l \in Paths, Under(Parent(p), l), NEW e \in Seq(Child)
  PROVE  Append(e \o Relative(Parent(p), l), ChildName(p)) = e \o Relative(p, l)
<1> DEFINE d == Parent(p)
           x == Append(e \o Relative(d, l), ChildName(p))
           y == e \o Relative(p, l)
<1>1. /\ p \in Seq(Child) /\ l \in Seq(Child) /\ d \in Seq(Child) /\ ChildName(p) \in Child
      /\ Len(p) \in Nat /\ Len(l) \in Nat /\ Len(e) \in Nat /\ Len(p) # 0
      /\ ChildName(p) = p[Len(p)] /\ Under(d, l)
  <2>1. d \in Paths
    BY ParentUnder
  <2> QED  BY <2>1, PathSeq, ChildNameType DEF ChildName, Last, Root
<1>2. Len(d) = Len(p) - 1 /\ \A i \in 1 .. Len(p) - 1 : d[i] = p[i]
  BY <1>1, ParentSeq
<1>3. Under(p, l)
  <2>1. Under(p, d)
    BY ParentUnder
  <2> HIDE DEF d
  <2> QED  BY <1>1, <2>1, UnderTransitive
<1>4. Len(l) <= Len(d)
  <2> HIDE DEF d
  <2> QED  BY <1>1, UnderMeans
<1>5. /\ y \in Seq(Child) /\ Len(y) = Len(e) + Len(p) - Len(l)
      /\ \A i \in 1 .. Len(e) : y[i] = e[i]
      /\ \A i \in Len(e) + 1 .. Len(e) + Len(p) - Len(l) : y[i] = p[i - Len(e) + Len(l)]
  BY <1>1, <1>3, Moved
<1> DEFINE z == e \o Relative(d, l)
<1>6. /\ z \in Seq(Child) /\ Len(z) = Len(e) + Len(d) - Len(l)
      /\ \A i \in 1 .. Len(e) : z[i] = e[i]
      /\ \A i \in Len(e) + 1 .. Len(e) + Len(d) - Len(l) : z[i] = d[i - Len(e) + Len(l)]
  <2> HIDE DEF d
  <2> QED  BY <1>1, Moved
<1>7. x = Append(z, ChildName(p))
  OBVIOUS
<1> HIDE DEF d, x, y, z
<1>8. /\ x \in Seq(Child) /\ Len(x) = Len(z) + 1 /\ x[Len(z) + 1] = ChildName(p)
      /\ \A i \in 1 .. Len(z) : x[i] = z[i]
  BY <1>1, <1>6, <1>7
<1>9. Len(x) = Len(y) /\ Len(z) + 1 = Len(y)
  BY <1>1, <1>2, <1>5, <1>6, <1>8
<1>10. ASSUME NEW i \in 1 .. Len(x)
       PROVE  x[i] = y[i]
  <2>1. CASE i <= Len(e)
    BY <1>1, <1>2, <1>4, <1>5, <1>6, <1>8, <1>10, <2>1
  <2>2. CASE i > Len(e) /\ i <= Len(z)
    <3> DEFINE j == i - Len(e) + Len(l)
    <3>1. /\ i \in Len(e) + 1 .. Len(e) + Len(p) - Len(l)
          /\ i \in Len(e) + 1 .. Len(e) + Len(d) - Len(l)
          /\ i \in 1 .. Len(z) /\ j \in 1 .. Len(p) - 1
      BY <1>1, <1>2, <1>6, <1>8, <2>2
    <3>2. x[i] = d[j] /\ y[i] = p[j]
      BY <1>5, <1>6, <1>8, <3>1
    <3> HIDE DEF j
    <3> QED  BY <1>2, <3>1, <3>2
  <2>3. CASE i = Len(z) + 1
    <3>1. i \in Len(e) + 1 .. Len(e) + Len(p) - Len(l) /\ i - Len(e) + Len(l) = Len(p)
      BY <1>1, <1>2, <1>4, <1>6, <2>3
    <3>2. y[i] = p[Len(p)]
      BY <1>5, <3>1
    <3> QED  BY <1>1, <1>8, <2>3, <3>2
  <2>4. \/ i <= Len(e)
        \/ i > Len(e) /\ i <= Len(z)
        \/ i = Len(z) + 1
    BY <1>1, <1>6, <1>8
  <2> QED  BY <2>1, <2>2, <2>3, <2>4
<1>11. x = y
  BY <1>5, <1>8, <1>9, <1>10, SeqEqual
<1> QED  BY <1>11 DEF x, y, d

\* While no key and no overlay is added, what an overlay has deleted is not
\* found in its target.
LEMMA Uncovers ==
  ASSUME IInv, Layered, NEW t2,
         \A p \in Paths : t2[p].kind # "absent" => tree[p].kind # "absent",
         \A p \in Paths : t2[p].kind = "extindex" =>
                             tree[p].kind = "extindex" /\ t2[p].ext = tree[p].ext,
         NEW p \in Paths, Present(tree, p), ~ Present(t2, p)
  PROVE  Get(t2, p).kind = "absent"
<1> DEFINE far == Fallback(t2, Parent(p))
<1>1. CASE p = Root \/ far = NoPath
  BY <1>1 DEF Get, Present
<1>2. CASE p # Root /\ far # NoPath
  <2>1. Parent(p) \in Dirs /\ Parent(p) \in Paths /\ DirOf(Parent(p)) = Parent(p)
    BY ParentDir DEF Dirs, DirOf
  <2>2. PICK o \in Paths : /\ t2[o].kind = "extindex" /\ Under(Parent(p), o)
                           /\ far = t2[o].ext \o Relative(Parent(p), o)
    BY <1>2, <2>1, FallbackFrom
  <2>3. tree[o].kind = "extindex" /\ t2[o].ext = tree[o].ext /\ tree[o].ext \in Seq(Child)
    BY <2>2, OverlayFacts
  <2>4. Under(p, o) /\ p # o
    <3>1. Under(p, Parent(p)) /\ ~ Under(Parent(p), p)
      BY <1>2, ParentUnder, UnderItself
    <3> QED  BY <2>1, <2>2, <3>1, PathSeq, UnderTransitive
  <2>5. Append(far, ChildName(p)) = tree[o].ext \o Relative(p, o)
    <3> DEFINE e == tree[o].ext
    <3>1. far = e \o Relative(Parent(p), o) /\ e \in Seq(Child)
      BY <2>2, <2>3
    <3> HIDE DEF e, far
    <3> QED  BY <1>2, <2>2, <3>1, MovedChild DEF e
  <2>6. ~ Present(tree, tree[o].ext \o Relative(p, o))
    BY <2>3, <2>4 DEF Layered, Apart, Keys
  <2> HIDE DEF far
  <2>7. ~ Present(t2, Append(far, ChildName(p)))
    BY <2>5, <2>6 DEF Present, ValueAt
  <2>8. Get(t2, p) = ValueAt(t2, p) \/ Get(t2, p) = ValueAt(t2, Append(far, ChildName(p)))
    BY DEF Get, far
  <2> QED  BY <2>7, <2>8 DEF Present
<1> QED  BY <1>1, <1>2

\* The other calls take no key away.
LEMMA KeysStay ==
  ASSUME IInv, Layered, [Next]_vars, ~ DelKey, ~ Clear,
         ~ \E prefix \in DelTreeCalls : DelTree(prefix)
  PROVE  \A p \in Paths : tree[p].kind # "absent" => tree'[p].kind # "absent"
<1>1. tree \in [Paths -> Value] /\ \A p \in Paths : indexes[p] # Absent => indexes[p].kind # "absent"
  BY DEF IInv, TypeOK, CacheInv, Dirty, DirKinds
<1>2. ASSUME NEW c \in [Paths -> Value], Dirty(tree, c), tree' = Flush(tree, c)
      PROVE  \A p \in Paths : tree[p].kind # "absent" => tree'[p].kind # "absent"
  BY <1>2 DEF Flush, Dirty, DirKinds
<1>3. FlushAndReturn => \E c \in [Paths -> Value] : Dirty(tree, c) /\ tree' = Flush(tree, c)
  BY IInvFacts DEF FlushAndReturn
<1>4. ExtIndexReturn => \E c \in [Paths -> Value] : Dirty(tree, c) /\ tree' = Flush(tree, c)
  <2> SUFFICES ASSUME ExtIndexReturn
               PROVE  \E c \in [Paths -> Value] : Dirty(tree, c) /\ tree' = Flush(tree, c)
    OBVIOUS
  <2> DEFINE c == AddChild(tree, indexes, Parent(op.path), ChildName(op.path))
  <2>1. op.path \in Paths /\ op.path # Root /\ tree' = Flush(tree, c)
    BY DEF ExtIndexReturn, IInv, FrameInv, Dirs
  <2>2. Parent(op.path) \in Dirs /\ ChildName(op.path) \in Child
    BY <2>1, ParentDir, ChildNameType
  <2>3. c \in [Paths -> Value] /\ Dirty(tree, c)
    BY <2>2, IInvFacts, AddChildKeeps
  <2> QED  BY <2>1, <2>3
<1>5. CASE EnsureDir
  <2>1. /\ \A p \in Paths \ {NextDir} : tree'[p] = tree[p]
        /\ Present(tree, NextDir) => tree' = tree
        /\ ~ Present(tree, NextDir) => tree'[NextDir] = IndexOf({})
    BY <1>5, EnsureDirMeans
  <2> QED  BY <2>1 DEF IndexOf
<1>6. CASE SetWrite
  <2> DEFINE pair == Head(op.pairs)
  <2>1. op.pairs \in Seq(Pair) /\ op.pairs # << >>
    <3>1. op \in Frame /\ op.call = "Set" /\ EnsuredDir
      BY <1>6 DEF SetWrite, IInv, TypeOK
    <3>2. op.at # NotEnsuring
      BY <3>1, PathSeq DEF EnsuredDir, NotEnsuring, Frame, Dirs
    <3> QED  BY <3>1, <3>2 DEF IInv, FrameInv, Frame
  <2>2. 1 \in 1 .. Len(op.pairs) /\ pair = op.pairs[1]
    BY <2>1
  <2>3. ValidPair(pair)
    BY <2>2 DEF IInv, FrameInv
  <2>4. tree' = tree \/ (~ IsDir(pair.key) /\ tree' = [tree EXCEPT ![pair.key] = pair.val])
    BY <1>6 DEF SetWrite
  <2>5. ~ IsDir(pair.key) => pair.val.kind # "absent"
    BY <2>3 DEF ValidPair
  <2> HIDE DEF pair
  <2> QED  BY <1>1, <2>4, <2>5
<1>7. ASSUME NEW call \in ExtIndexCalls, ExtIndexBegin(call[1], call[2])
      PROVE  \A p \in Paths : tree[p].kind # "absent" => tree'[p].kind # "absent"
  <2> DEFINE v == ExtIndexOf(tree[call[1]].kids, call[2])
  <2>1. tree' = [tree EXCEPT ![call[1]] = v] /\ v.kind = "extindex"
    BY <1>7 DEF ExtIndexBegin, ExtIndexOf
  <2> HIDE DEF v
  <2> QED  BY <1>1, <2>1
<1>8. ASSUME NEW path \in DelExtCalls, DelExtIndex(path)
      PROVE  \A p \in Paths : tree[p].kind # "absent" => tree'[p].kind # "absent"
  <2> DEFINE v == IndexOf(tree[path].kids)
  <2>1. tree' = [tree EXCEPT ![path] = v] /\ v.kind = "index"
    BY <1>8 DEF DelExtIndex, IndexOf
  <2> HIDE DEF v
  <2> QED  BY <1>1, <2>1
<1>9. CASE tree' = tree
  BY <1>9
<1>10. FlushAndReturn \/ ExtIndexReturn => \A p \in Paths : tree[p].kind # "absent" => tree'[p].kind # "absent"
  BY <1>2, <1>3, <1>4
<1> QED
  BY <1>5, <1>6, <1>7, <1>8, <1>9, <1>10
     DEF Next, NextOf, vars, SetBegin, SetConflict, SetPair, SetRefused, SetReturn, MkindexBegin,
         MkindexReturn, DelBegin, DelReturn

\* Deleting a key uncovers no other: where an overlay held one, its target has
\* none, whatever the clients of LayersKeptApart have done before.
THEOREM NeverUncovered == ClientsSpec => NothingUncovered
<1>1. IInv /\ Layered /\ [Next]_vars => ~ Uncovering
  <2> SUFFICES ASSUME IInv, Layered, [Next]_vars,
                      NEW p \in Paths, Present(tree, p), ~ Present(tree', p)
               PROVE  Get(tree', p).kind = "absent"
    BY DEF Uncovering
  <2>1. tree[p].kind # "absent" /\ tree'[p].kind = "absent"
    BY DEF Present, ValueAt
  <2>2. \/ DelKey \/ Clear
        \/ \E prefix \in DelTreeCalls : DelTree(prefix)
    BY <2>1, KeysStay
  <2>3. /\ \A q \in Paths : tree'[q].kind # "absent" => tree[q].kind # "absent"
        /\ \A q \in Paths : tree'[q].kind = "extindex" =>
                               tree[q].kind = "extindex" /\ tree'[q].ext = tree[q].ext
    <3>1. CASE Clear
      BY <3>1, ValueTypes DEF Clear, NoCache
    <3>2. ASSUME NEW S, NEW gone, tree' = RemoveNames(Without(tree, S), gone)
          PROVE  /\ \A q \in Paths : tree'[q].kind # "absent" => tree[q].kind # "absent"
                 /\ \A q \in Paths : tree'[q].kind = "extindex" =>
                                        tree[q].kind = "extindex" /\ tree'[q].ext = tree[q].ext
      <4>1. /\ \A q \in Paths : tree'[q].kind = (IF q \in S THEN "absent" ELSE tree[q].kind)
            /\ \A q \in Paths \ S : tree'[q].ext = tree[q].ext
        BY <3>2, CutKeeps
      <4> QED  BY <4>1
    <3>3. CASE DelKey
      <4> DEFINE cut == Without(tree, {Head(op.keys)})
      <4>1. \/ tree' = tree
            \/ tree' = [cut EXCEPT ![Head(op.keys)] = tree[Head(op.keys)]]
            \/ tree' = RemoveNames(cut, {Head(op.keys)})
        BY <3>3 DEF DelKey
      <4>2. CASE tree' = [cut EXCEPT ![Head(op.keys)] = tree[Head(op.keys)]]
        <5>1. \A q \in Paths : tree'[q] = tree[q] \/ tree'[q] = Absent
          BY <4>2 DEF Without
        <5> QED  BY <5>1, ValueTypes
      <4> QED  BY <3>2, <4>1, <4>2
    <3>4. ASSUME NEW prefix \in DelTreeCalls, DelTree(prefix)
          PROVE  \E S, gone : tree' = RemoveNames(Without(tree, S), gone)
      BY <3>4 DEF DelTree
    <3> QED  BY <2>2, <3>1, <3>2, <3>3, <3>4
  <2> QED  BY <2>3, Uncovers
<1>2. clients \in ClientKinds /\ IInv /\ (clients = "files" => Layered)
        /\ [ClientsNext]_<<vars, clients>> => (clients = "files" => ~ Uncovering)
  BY <1>1, ClientsStep
<1>3. (clients = "files" => ~ Uncovering) => [clients = "files" => ~ Uncovering]_<<vars, clients>>
  OBVIOUS
<1> QED  BY <1>2, <1>3, LayersInvariance, PTL DEF ClientsSpec, NothingUncovered

-----------------------------------------------------------------------------
(* The names that indexes hold *)

\* A directory that is not there names nothing, and what an index in the tree
\* or in the cache names is there.
Named(t, c) ==
    \A d \in Dirs :
        /\ t[d].kind = "absent" => t[d].kids = {}
        /\ \A name \in t[d].kids \cup c[d].kids : Present(t, Append(d, name))

\* In the middle of a call too, and Set is to write no names.
Naming ==
    /\ Named(tree, indexes)
    /\ \A i \in 1 .. Len(op.pairs) :
          IsDir(op.pairs[i].key) => op.pairs[i].val.kids = {}

LEMMA AppendFacts ==
  ASSUME NEW d \in Seq(Child), NEW name \in Child
  PROVE  /\ Append(d, name) \in Seq(Child) \ {Root}
         /\ Parent(Append(d, name)) = d
         /\ ChildName(Append(d, name)) = name
<1> DEFINE p == Append(d, name)
<1>1. /\ p \in Seq(Child) /\ Len(p) = Len(d) + 1 /\ Len(d) \in Nat
      /\ p[Len(p)] = name /\ \A i \in 1 .. Len(d) : p[i] = d[i]
  OBVIOUS
<1> HIDE DEF p
<1>2. p # Root
  BY <1>1 DEF Root
<1>3. ChildName(p) = name
  BY <1>1 DEF ChildName, Last
<1>4. /\ Parent(p) \in Seq(Child) /\ Len(Parent(p)) = Len(p) - 1
      /\ \A i \in 1 .. Len(p) - 1 : Parent(p)[i] = p[i]
  BY <1>1, <1>2, ParentSeq
<1>5. Parent(p) = d
  BY <1>1, <1>4, SeqEqual
<1> QED  BY <1>1, <1>2, <1>3, <1>5 DEF p

LEMMA ParentAppend ==
  ASSUME NEW p \in Paths, p # Root
  PROVE  Append(Parent(p), ChildName(p)) = p
<1>1. p \in Seq(Child) \ {Root} /\ Parent(p) \in Seq(Child) /\ ChildName(p) \in Child
  BY PathSeq, ParentUnder, ChildNameType
<1> DEFINE q == Append(Parent(p), ChildName(p))
<1>2. q \in Seq(Child) \ {Root} /\ Parent(q) = Parent(p) /\ ChildName(q) = ChildName(p)
  BY <1>1, AppendFacts
<1> HIDE DEF q
<1>3. q = p
  BY <1>1, <1>2, ParentAndName
<1> QED  BY <1>3 DEF q

LEMMA AddChildNames ==
  ASSUME NEW t \in [Paths -> Value], NEW c \in [Paths -> Value], NEW d \in Paths, NEW name,
         NEW p \in Paths
  PROVE  AddChild(t, c, d, name)[p].kids \subseteq t[p].kids \cup c[p].kids \cup {k \in {name} : p = d}
<1> DEFINE v == View(t, c, d)
           w == IF v.kind = "absent" THEN IndexOf({}) ELSE v
           u == [w EXCEPT !.kids = @ \cup {name}]
           c2 == AddChild(t, c, d, name)
<1>1. v \in Value /\ w \in Value /\ w.kids \subseteq v.kids /\ v.kids \subseteq t[d].kids \cup c[d].kids
  BY ValueTypes DEF View, ValueAt, IndexOf
<1>2. u.kids = w.kids \cup {name}
  BY <1>1 DEF Value
<1>3. c2 = c \/ c2 = [c EXCEPT ![d] = u]
  BY DEF AddChild
<1> HIDE DEF u, w, c2, v
<1>4. c2[p] = c[p] \/ (p = d /\ c2[p] = u)
  BY <1>3
<1> QED  BY <1>1, <1>2, <1>4 DEF c2

\* Keys may be added, and names of keys that are there.
LEMMA NamedGrows ==
  ASSUME NEW t, NEW c, Named(t, c), NEW t2, NEW c2,
         \A p \in Paths : t[p].kind # "absent" => t2[p].kind # "absent",
         \A d \in Dirs : t2[d].kind = "absent" => t2[d].kids = {},
         \A d \in Dirs : \A name \in t2[d].kids \cup c2[d].kids :
            name \in t[d].kids \cup c[d].kids \/ Present(t2, Append(d, name))
  PROVE  Named(t2, c2)
BY DEF Named, Present, ValueAt

\* Keys may be deleted with their names.
LEMMA NamedRemoval ==
  ASSUME IInv, Named(tree, NoCache), NEW S, NEW gone, S \subseteq gone,
         tree' = RemoveNames(Without(tree, S), gone)
  PROVE  Named(tree', NoCache)
<1> DEFINE cut == Without(tree, S)
           gonein(d) == {ChildName(p) : p \in {q \in gone \ {Root} : Parent(q) = d}}
<1>1. \A p \in Paths : tree'[p].kind = (IF p \in S THEN "absent" ELSE tree[p].kind)
  BY CutKeeps
<1>2. cut \in [Paths -> Value] /\ tree \in [Paths -> Value]
  BY IInvFacts, WithoutKeeps DEF Stored
<1>3. \A d \in Paths : tree'[d] = IF cut[d].kind \in DirKinds
                                  THEN [cut[d] EXCEPT !.kids = @ \ gonein(d)] ELSE cut[d]
  BY DEF RemoveNames
<1>4. \A p \in Paths : cut[p] = IF p \in S THEN Absent ELSE tree[p]
  BY DEF Without
<1>5. Absent.kids = {} /\ Absent.kind = "absent" /\ "absent" \notin DirKinds
  BY DEF Absent, Plain, DirKinds
<1> HIDE DEF cut, gonein
<1> SUFFICES ASSUME NEW d \in Dirs
             PROVE  /\ tree'[d].kind = "absent" => tree'[d].kids = {}
                    /\ \A name \in tree'[d].kids : Present(tree', Append(d, name))
  BY <1>5 DEF Named, NoCache, Dirs
<1>6. d \in Paths /\ tree[d].kind \in {"absent"} \cup DirKinds /\ cut[d] \in Value
  BY <1>2 DEF Dirs, IInv, TypeOK
<1>7. CASE cut[d].kind = "absent"
  <2>1. cut[d].kids = {}
    BY <1>4, <1>5, <1>6, <1>7 DEF Named
  <2>2. tree'[d] = cut[d]
    BY <1>3, <1>5, <1>6, <1>7
  <2> QED  BY <2>1, <2>2
<1>8. CASE cut[d].kind # "absent"
  <2>1. d \notin S /\ cut[d] = tree[d] /\ cut[d].kind \in DirKinds
    BY <1>4, <1>5, <1>6, <1>8
  <2>2. tree'[d].kind = tree[d].kind /\ tree'[d].kids = tree[d].kids \ gonein(d)
    BY <1>3, <1>6, <2>1 DEF Value
  <2>3. ASSUME NEW name \in tree'[d].kids
        PROVE  Present(tree', Append(d, name))
    <3> DEFINE q == Append(d, name)
    <3>1. name \in Child /\ d \in Seq(Child)
      BY <1>2, <1>6, <2>2, <2>3, PathSeq DEF Value
    <3>2. q \in Seq(Child) \ {Root} /\ Parent(q) = d /\ ChildName(q) = name
      BY <3>1, AppendFacts
    <3>3. Present(tree, q)
      BY <2>2, <2>3 DEF Named
    <3> HIDE DEF q
    <3>4. q \notin gone
      BY <2>2, <2>3, <3>2 DEF gonein
    <3>5. q \in Paths /\ q \notin S
      BY <3>3, <3>4 DEF Present, ValueAt, Absent, Plain
    <3>6. Present(tree', q)
      BY <1>1, <3>3, <3>5 DEF Present, ValueAt
    <3> QED  BY <3>6 DEF q
  <2> QED  BY <1>8, <2>1, <2>2, <2>3
<1> QED  BY <1>7, <1>8

LEMMA IdleNaming ==
  ASSUME Named(tree', NoCache), indexes' = NoCache, op'.pairs = << >>
  PROVE  Naming'
BY DEF Naming

LEMMA FlushNaming ==
  ASSUME IInv, Named(tree, indexes), NEW c \in [Paths -> Value], Dirty(tree, c),
         \A d \in Dirs : \A name \in c[d].kids :
            name \in tree[d].kids \cup indexes[d].kids \/ Present(tree, Append(d, name)),
         tree' = Flush(tree, c), indexes' = NoCache, op' = Idle
  PROVE  Naming'
<1>1. \A p \in Paths : tree'[p] = IF c[p] # Absent THEN c[p] ELSE tree[p]
  BY DEF Flush
<1>2. \A p \in Paths : c[p] # Absent => c[p].kind # "absent"
  BY DEF Dirty, DirKinds
<1>3. \A p \in Paths : tree[p].kind # "absent" => tree'[p].kind # "absent"
  BY <1>1, <1>2
<1>4. \A d \in Dirs : tree'[d].kind = "absent" => tree'[d].kids = {}
  BY <1>1, <1>2 DEF Named, Dirs
<1>5. \A p \in Paths : NoCache[p].kids = {}
  BY DEF NoCache, Absent, Plain
<1>6. ASSUME NEW d \in Dirs, NEW name \in tree'[d].kids \cup NoCache[d].kids
      PROVE  name \in tree[d].kids \cup indexes[d].kids \/ Present(tree', Append(d, name))
  <2>1. d \in Paths /\ name \in tree'[d].kids
    BY <1>5, <1>6 DEF Dirs
  <2>2. name \in tree[d].kids \/ name \in c[d].kids
    BY <1>1, <2>1
  <2> QED  BY <1>3, <2>2 DEF Present, ValueAt
<1>7. Named(tree', NoCache)
  BY <1>3, <1>4, <1>6, NamedGrows
<1>8. op'.pairs = << >>
  BY DEF Idle
<1> QED  BY <1>7, <1>8, IdleNaming

LEMMA FlushReturnNaming ==
  ASSUME IInv, Naming, FlushAndReturn
  PROVE  Naming'
<1>1. Dirty(tree, indexes) /\ indexes \in [Paths -> Value]
  BY IInvFacts
<1> QED  BY <1>1, FlushNaming DEF FlushAndReturn, Naming

\* A directory that is made is listed, and a key that is written.
LEMMA AddChildNamed ==
  ASSUME IInv, IInv', Named(tree, indexes), NEW d \in Paths, d # Root, NEW v \in Value,
         v.kind # "absent", IsDir(d) => v.kids = {} \/ v = tree[d],
         tree' = [tree EXCEPT ![d] = v],
         indexes' = AddChild(tree, indexes, Parent(d), ChildName(d))
  PROVE  Named(tree', indexes')
<1>1. /\ tree \in [Paths -> Value] /\ indexes \in [Paths -> Value]
      /\ Parent(d) \in Paths /\ Append(Parent(d), ChildName(d)) = d
  BY IInvFacts, ParentUnder, ParentAppend DEF Stored
<1>2. \A p \in Paths : tree'[p] = IF p = d THEN v ELSE tree[p]
  BY <1>1
<1>3. \A p \in Paths : tree[p].kind # "absent" => tree'[p].kind # "absent"
  BY <1>2
<1>4. \A p \in Dirs : tree'[p].kind = "absent" => tree'[p].kids = {}
  BY <1>2 DEF Named, Dirs
<1>5. Present(tree', d)
  BY <1>2 DEF Present, ValueAt
<1>6. ASSUME NEW p \in Dirs, NEW name \in tree'[p].kids \cup indexes'[p].kids
      PROVE  name \in tree[p].kids \cup indexes[p].kids \/ Present(tree', Append(p, name))
  <2>1. p \in Paths /\ IsDir(p)
    BY DEF Dirs
  <2>2. tree'[p].kids \subseteq tree[p].kids
    BY <1>2, <2>1
  <2>3. indexes'[p].kids \subseteq tree[p].kids \cup indexes[p].kids
                                     \cup {k \in {ChildName(d)} : p = Parent(d)}
    BY <1>1, <2>1, AddChildNames
  <2>4. CASE name \in {k \in {ChildName(d)} : p = Parent(d)}
    BY <1>1, <1>5, <2>4
  <2> QED  BY <1>6, <2>2, <2>3, <2>4
<1>7. \A p \in Dirs : \A name \in tree'[p].kids \cup indexes'[p].kids :
         name \in tree[p].kids \cup indexes[p].kids \/ Present(tree', Append(p, name))
  BY <1>6
<1>8. ASSUME NEW p \in Dirs, NEW name \in tree'[p].kids \cup indexes'[p].kids
      PROVE  Present(tree', Append(p, name))
  <2>1. CASE name \in tree[p].kids \cup indexes[p].kids
    <3>1. Present(tree, Append(p, name))
      BY <2>1 DEF Named
    <3> QED  BY <1>3, <3>1 DEF Present, ValueAt
  <2> QED  BY <1>7, <1>8, <2>1
<1> QED  BY <1>4, <1>8 DEF Named

LEMMA EnsureDirNaming ==
  ASSUME IInv, IInv', Naming, EnsureDir
  PROVE  Naming'
<1>1. /\ NextDir \in Dirs /\ NextDir \in Paths /\ op'.pairs = op.pairs
      /\ tree' \in [Paths -> Value]
      /\ \A p \in Paths \ {NextDir} : tree'[p] = tree[p]
      /\ Present(tree, NextDir) => tree' = tree
      /\ ~ Present(tree, NextDir) => tree'[NextDir] = IndexOf({})
      /\ IF NextDir = Root THEN indexes' = indexes
         ELSE indexes' = AddChild(tree, indexes, Parent(NextDir), ChildName(NextDir))
  BY EnsureDirMeans
<1>2. IndexOf({}) \in Value /\ IndexOf({}).kind = "index" /\ IndexOf({}).kids = {}
  BY ValueTypes DEF IndexOf
<1>3. tree \in [Paths -> Value]
  BY IInvFacts DEF Stored
<1> DEFINE v == IF Present(tree, NextDir) THEN tree[NextDir] ELSE IndexOf({})
<1>4. /\ v \in Value /\ v.kind # "absent" /\ (v.kids = {} \/ v = tree[NextDir])
      /\ tree' = [tree EXCEPT ![NextDir] = v]
  BY <1>1, <1>2, <1>3 DEF Present, ValueAt
<1> HIDE DEF v
<1>5. Named(tree', indexes')
  <2>1. CASE NextDir # Root
    BY <1>1, <1>4, <2>1, AddChildNamed DEF Naming
  <2>2. CASE NextDir = Root
    <3>1. indexes' = indexes /\ \A p \in Paths : tree'[p] = IF p = NextDir THEN v ELSE tree[p]
      BY <1>1, <1>3, <1>4, <2>2
    <3>2. \A p \in Paths : tree'[p].kids \subseteq tree[p].kids
      BY <1>4, <3>1
    <3>3. \A d \in Dirs : tree'[d].kind = "absent" => tree'[d].kids = {}
      BY <1>4, <3>1 DEF Naming, Named, Dirs
    <3>4. \A p \in Paths : tree[p].kind # "absent" => tree'[p].kind # "absent"
      BY <1>4, <3>1
    <3> QED  BY <3>1, <3>2, <3>3, <3>4, NamedGrows DEF Naming, Dirs
  <2> QED  BY <2>1, <2>2
<1> QED  BY <1>1, <1>5 DEF Naming

LEMMA SetBeginNaming ==
  ASSUME IInv, Naming, NEW batch \in Batches, SetBegin(batch),
         \A i \in 1 .. Len(batch) :
            IsDir(batch[i].key) /\ ValidPair(batch[i]) => batch[i].val.kids = {}
  PROVE  Naming'
<1>1. PICK n \in 1 .. Len(batch) :
         PreparedPairs(tree, batch, n) /\ op'.pairs = SubSeq(batch, 1, n)
  BY DEF SetBegin, Idle
<1>2. batch \in Seq(Pair) /\ Len(batch) \in Nat
  BY CallsAssumption DEF CallsAssumption
<1>3. Len(op'.pairs) = n /\ \A i \in 1 .. n : op'.pairs[i] = batch[i]
  BY <1>1, <1>2
<1>4. \A i \in 1 .. n : i \in 1 .. Len(batch) /\ ValidPair(batch[i])
  BY <1>1, <1>2 DEF PreparedPairs
<1>5. \A i \in 1 .. Len(op'.pairs) : IsDir(op'.pairs[i].key) => op'.pairs[i].val.kids = {}
  BY <1>3, <1>4
<1> QED  BY <1>5 DEF SetBegin, Naming

LEMMA SetWriteNaming ==
  ASSUME IInv, IInv', Naming, SetWrite
  PROVE  Naming'
<1> DEFINE pair == Head(op.pairs)
           key == pair.key
<1>1. op \in Frame /\ op.pairs # << >>
  <2>1. op \in Frame /\ op.call = "Set" /\ op.at = Len(op.dir) + 1 /\ op.dir \in Paths
    BY DEF SetWrite, EnsuredDir, IInv, TypeOK, Frame, Dirs
  <2>2. op.at # NotEnsuring
    BY <2>1, PathSeq DEF NotEnsuring
  <2> QED  BY <2>1, <2>2 DEF IInv, FrameInv
<1>2. op.pairs \in Seq(Pair)
  BY <1>1 DEF Frame
<1>3. pair \in Pair /\ 1 \in 1 .. Len(op.pairs) /\ pair = op.pairs[1]
  BY <1>1, <1>2
<1>4. key \in Paths /\ pair.val \in Value /\ ValidPair(pair) /\ (IsDir(key) => pair.val.kids = {})
  BY <1>3 DEF Pair, IInv, FrameInv, Naming
<1>5. \A i \in 1 .. Len(op'.pairs) : IsDir(op'.pairs[i].key) => op'.pairs[i].val.kids = {}
  <2>1. op'.pairs = Tail(op.pairs)
    BY DEF SetWrite, Idle
  <2> SUFFICES ASSUME NEW i \in 1 .. Len(Tail(op.pairs)), IsDir(Tail(op.pairs)[i].key)
               PROVE  Tail(op.pairs)[i].val.kids = {}
    BY <2>1
  <2>2. i + 1 \in 1 .. Len(op.pairs) /\ Tail(op.pairs)[i] = op.pairs[i + 1]
    BY <1>1, <1>2
  <2> QED  BY <2>2 DEF Naming
<1>6. tree \in [Paths -> Value] /\ indexes \in [Paths -> Value]
  BY IInvFacts DEF Stored
<1>7. CASE IsDir(key)
  <2>1. tree' = tree /\ indexes' = [indexes EXCEPT ![key] = pair.val]
    BY <1>7 DEF SetWrite
  <2> HIDE DEF pair
  <2>2. \A p \in Paths : indexes'[p].kids \subseteq indexes[p].kids
    BY <1>4, <1>6, <1>7, <2>1
  <2>3. Named(tree', indexes')
    BY <2>1, <2>2 DEF Naming, Named, Dirs
  <2> QED  BY <1>5, <2>3 DEF Naming
<1>8. CASE ~ IsDir(key)
  <2>1. /\ tree' = [tree EXCEPT ![key] = pair.val]
        /\ indexes' = AddChild(tree, indexes, Parent(key), ChildName(key))
    BY <1>8 DEF SetWrite
  <2>2. pair.val.kind # "absent" /\ key # Root
    BY <1>4, <1>8 DEF ValidPair, IsDir
  <2> HIDE DEF pair
  <2>3. Named(tree', indexes')
    BY <1>4, <1>8, <2>1, <2>2, AddChildNamed DEF Naming
  <2> QED  BY <1>5, <2>3 DEF Naming
<1> QED  BY <1>7, <1>8

\* No call is running, or one that deletes keys.
LEMMA QuietNaming ==
  ASSUME IInv, Naming, Returned \/ op.call = "Del"
  PROVE  Named(tree, NoCache) /\ indexes = NoCache
<1>1. indexes = NoCache
  BY DEF IInv, CacheInv
<1> QED  BY <1>1 DEF Naming

LEMMA ExtIndexBeginNaming ==
  ASSUME IInv, Naming, NEW path \in Dirs, NEW extpath \in Dirs, ExtIndexBegin(path, extpath)
  PROVE  Naming'
<1> DEFINE v == ExtIndexOf(tree[path].kids, extpath)
<1>1. /\ tree' = [tree EXCEPT ![path] = v] /\ indexes' = indexes
      /\ op'.pairs = << >> /\ path \in Paths
  BY DEF ExtIndexBegin, Idle, Dirs
<1>2. v.kind = "extindex" /\ v.kids = tree[path].kids /\ tree \in [Paths -> Value]
  BY IInvFacts DEF ExtIndexOf, Stored
<1> HIDE DEF v
<1>3. \A p \in Paths : tree'[p] = IF p = path THEN v ELSE tree[p]
  BY <1>1, <1>2
<1>4. \A p \in Paths : tree[p].kind # "absent" => tree'[p].kind # "absent"
  BY <1>2, <1>3
<1>5. \A d \in Dirs : /\ tree'[d].kids = tree[d].kids
                      /\ tree'[d].kind = "absent" => tree[d].kind = "absent"
  BY <1>2, <1>3 DEF Dirs
<1>6. \A d \in Dirs : \A name \in tree[d].kids \cup indexes[d].kids : Present(tree', Append(d, name))
  BY <1>4 DEF Naming, Named, Present, ValueAt
<1>7. Named(tree', indexes')
  BY <1>1, <1>5, <1>6 DEF Naming, Named
<1> QED  BY <1>1, <1>7 DEF Naming

LEMMA ExtIndexReturnNaming ==
  ASSUME IInv, Making, Naming, ExtIndexReturn
  PROVE  Naming'
<1> DEFINE q == op.path
           c == AddChild(tree, indexes, Parent(q), ChildName(q))
<1>1. /\ q \in Dirs /\ q # Root /\ q \in Paths /\ q \in Bound(exts)
      /\ tree' = Flush(tree, c) /\ indexes' = NoCache /\ op' = Idle
  BY DEF ExtIndexReturn, Making, IInv, FrameInv, Dirs
<1>2. /\ Parent(q) \in Dirs /\ Parent(q) \in Paths /\ ChildName(q) \in Child
      /\ Append(Parent(q), ChildName(q)) = q
  BY <1>1, ParentDir, ChildNameType, ParentAppend DEF Dirs
<1>3. Present(tree, q)
  <2>1. exts[q] # NoPath /\ exts[q] = Target(tree[q])
    BY <1>1, IInvFacts DEF Bound
  <2> QED  BY <1>1, <2>1 DEF Target, Present, ValueAt
<1> HIDE DEF q
<1>4. c \in [Paths -> Value] /\ Dirty(tree, c)
  BY <1>2, IInvFacts, AddChildKeeps
<1>5. tree \in [Paths -> Value] /\ indexes \in [Paths -> Value]
  BY IInvFacts DEF Stored
<1>6. ASSUME NEW d \in Dirs, NEW name \in c[d].kids
      PROVE  name \in tree[d].kids \cup indexes[d].kids \/ Present(tree, Append(d, name))
  <2>1. c[d].kids \subseteq tree[d].kids \cup indexes[d].kids \cup {k \in {ChildName(q)} : d = Parent(q)}
    BY <1>2, <1>5, AddChildNames DEF Dirs
  <2>2. CASE name \in {k \in {ChildName(q)} : d = Parent(q)}
    BY <1>2, <1>3, <2>2
  <2> QED  BY <1>6, <2>1, <2>2
<1> HIDE DEF c
<1> QED  BY <1>1, <1>4, <1>6, FlushNaming DEF Naming

LEMMA DelExtIndexNaming ==
  ASSUME IInv, Naming, NEW path \in Paths, DelExtIndex(path)
  PROVE  Naming'
<1> DEFINE v == IndexOf(tree[path].kids)
<1>1. tree' = [tree EXCEPT ![path] = v] /\ indexes' = indexes /\ op' = op
  BY DEF DelExtIndex
<1>2. v.kind = "index" /\ v.kids = tree[path].kids /\ tree \in [Paths -> Value]
  BY IInvFacts DEF IndexOf, Stored
<1> HIDE DEF v
<1>3. \A p \in Paths : tree'[p] = IF p = path THEN v ELSE tree[p]
  BY <1>1, <1>2
<1>4. \A p \in Paths : tree[p].kind # "absent" => tree'[p].kind # "absent"
  BY <1>2, <1>3
<1>5. \A d \in Dirs : /\ tree'[d].kids = tree[d].kids
                      /\ tree'[d].kind = "absent" => tree[d].kind = "absent"
  BY <1>2, <1>3 DEF Dirs
<1>6. \A d \in Dirs : \A name \in tree[d].kids \cup indexes[d].kids : Present(tree', Append(d, name))
  BY <1>4 DEF Naming, Named, Present, ValueAt
<1>7. Named(tree', indexes')
  BY <1>1, <1>5, <1>6 DEF Naming, Named
<1> QED  BY <1>1, <1>7 DEF Naming

LEMMA DelKeyNaming ==
  ASSUME IInv, Naming, DelKey
  PROVE  Naming'
<1> DEFINE key == Head(op.keys)
           cut == Without(tree, {key})
<1>1. /\ Named(tree, NoCache) /\ indexes' = NoCache /\ tree \in [Paths -> Value]
      /\ op \in Frame /\ op.keys # << >>
  BY QuietNaming, IInvFacts DEF DelKey, Stored, IInv, TypeOK
<1>2. op'.pairs = op.pairs \/ op'.pairs = << >>
  BY <1>1 DEF DelKey, Frame, Idle
<1>3. \/ tree' = tree
      \/ tree' = [cut EXCEPT ![key] = tree[key]]
      \/ tree' = RemoveNames(cut, {key})
  BY DEF DelKey
<1>4. key \in Paths
  <2>1. op.keys \in Seq(Paths)
    BY <1>1 DEF Frame
  <2> QED  BY <1>1, <2>1
<1>5. [cut EXCEPT ![key] = tree[key]] = tree
  <2> HIDE DEF key
  <2> QED  BY <1>1, <1>4 DEF Without
<1>6. Named(tree', NoCache)
  <2>1. CASE tree' = RemoveNames(cut, {key})
    BY <1>1, <2>1, NamedRemoval
  <2>2. CASE tree' = tree
    BY <1>1, <2>2
  <2> QED  BY <1>3, <1>5, <2>1, <2>2
<1> QED  BY <1>1, <1>2, <1>6 DEF Naming

LEMMA DelTreeNaming ==
  ASSUME IInv, Naming, NEW prefix \in Paths, DelTree(prefix)
  PROVE  Naming'
<1> DEFINE doomed == Doomed(tree, prefix)
           gone == IF doomed = {} THEN {prefix} ELSE doomed
<1>1. /\ tree' = RemoveNames(Without(tree, doomed), gone)
      /\ indexes' = indexes /\ op' = op /\ Returned
  BY DEF DelTree
<1>2. Named(tree, NoCache) /\ indexes = NoCache
  BY <1>1, QuietNaming
<1>3. doomed \subseteq gone
  OBVIOUS
<1> HIDE DEF doomed, gone
<1>4. Named(tree', NoCache)
  BY <1>1, <1>2, <1>3, NamedRemoval
<1> QED  BY <1>1, <1>2, <1>4 DEF Naming

LEMMA ClearNaming ==
  ASSUME IInv, Clear
  PROVE  Naming'
<1>1. \A p \in Paths : NoCache[p].kind = "absent" /\ NoCache[p].kids = {}
  BY DEF NoCache, Absent, Plain
<1>2. Named(NoCache, NoCache)
  BY <1>1 DEF Named, Dirs
<1>3. tree' = NoCache /\ indexes' = NoCache /\ op'.pairs = << >>
  BY DEF Clear, IInv, CacheInv, Returned, Idle
<1> QED  BY <1>2, <1>3, IdleNaming

\* What the store does for clients that write no names.
LEMMA NamingStep ==
  ASSUME IInv, IInv', Making, Naming,
         NEW batches \in SUBSET Batches, WriteNoNames(batches),
         NEW dels \in SUBSET DelCalls, NEW trees \in SUBSET DelTreeCalls,
         NEW mounts \in SUBSET ExtIndexCalls,
         NextOf(batches, dels, trees, mounts)
  PROVE  Naming'
<1>1. ASSUME NEW batch \in batches, SetBegin(batch) PROVE Naming'
  BY <1>1, SetBeginNaming DEF WriteNoNames
<1>2. CASE SetConflict
  BY <1>2, FlushReturnNaming DEF SetConflict
<1>3. CASE SetPair
  <2>1. op \in Frame
    BY DEF IInv, TypeOK
  <2>2. op'.pairs = op.pairs
    BY <1>3, <2>1 DEF SetPair, Frame
  <2> QED  BY <1>3, <2>2 DEF SetPair, Naming
<1>4. CASE SetWrite
  BY <1>4, SetWriteNaming
<1>5. CASE SetRefused
  BY <1>5, FlushReturnNaming DEF SetRefused
<1>6. CASE SetReturn
  BY <1>6, FlushReturnNaming DEF SetReturn
<1>7. CASE EnsureDir
  BY <1>7, EnsureDirNaming
<1>8. ASSUME NEW dir \in MkindexCalls, MkindexBegin(dir) PROVE Naming'
  BY <1>8 DEF MkindexBegin, Naming, Idle
<1>9. CASE MkindexReturn
  BY <1>9, FlushReturnNaming DEF MkindexReturn
<1>10. ASSUME NEW call \in mounts, ExtIndexBegin(call[1], call[2]) PROVE Naming'
  <2>1. call[1] \in Dirs /\ call[2] \in Dirs
    BY CallsAssumption DEF CallsAssumption
  <2> QED  BY <1>10, <2>1, ExtIndexBeginNaming
<1>11. CASE ExtIndexReturn
  BY <1>11, ExtIndexReturnNaming
<1>12. ASSUME NEW path \in DelExtCalls, DelExtIndex(path) PROVE Naming'
  BY <1>12, CallsAssumption, DelExtIndexNaming DEF CallsAssumption
<1>13. ASSUME NEW keys \in dels, DelBegin(keys) PROVE Naming'
  BY <1>13 DEF DelBegin, Naming, Idle
<1>14. CASE DelKey
  BY <1>14, DelKeyNaming
<1>15. CASE DelReturn
  BY <1>15 DEF DelReturn, Naming, Idle
<1>16. ASSUME NEW prefix \in trees, DelTree(prefix) PROVE Naming'
  BY <1>16, CallsAssumption, DelTreeNaming DEF CallsAssumption
<1>17. CASE Clear
  BY <1>17, ClearNaming
<1> QED
  BY <1>1, <1>2, <1>3, <1>4, <1>5, <1>6, <1>7, <1>8, <1>9, <1>10, <1>11, <1>12, <1>13,
     <1>14, <1>15, <1>16, <1>17 DEF NextOf

LEMMA NamingInvariance == ClientsSpec => [](clients # "indexes" => Naming)
<1> DEFINE J == clients # "indexes" => Naming
           I == clients \in ClientKinds /\ IInv /\ Making /\ (clients = "files" => Layered)
<1>1. ClientsInit => J
  <2> SUFFICES ASSUME Init PROVE Naming
    BY DEF ClientsInit
  <2>1. \A p \in Paths : NoCache[p].kind = "absent" /\ NoCache[p].kids = {}
    BY DEF NoCache, Absent, Plain
  <2>2. tree = NoCache /\ indexes = NoCache /\ op.pairs = << >>
    BY DEF Init, Idle
  <2> QED  BY <2>1, <2>2 DEF Naming, Named, Dirs
<1>2. I /\ J /\ [ClientsNext]_<<vars, clients>> => J'
  <2> SUFFICES ASSUME I, Naming, [ClientsNext]_<<vars, clients>>, clients # "indexes"
               PROVE  Naming'
    BY ClientsStep
  <2>1. IInv'
    BY ClientsStep, NextInv
  <2>2. CASE UNCHANGED vars
    BY <2>2 DEF vars, Naming
  <2>3. CASE ClientsNext
    <3>1. /\ BatchesOf[clients] \in SUBSET Batches /\ DelsOf[clients] \in SUBSET DelCalls
          /\ TreesOf[clients] \in SUBSET DelTreeCalls /\ MountsOf[clients] \in SUBSET ExtIndexCalls
      BY ClientsAssumption DEF ClientsAssumption
    <3>2. WriteNoNames(BatchesOf[clients])
      BY ClientsAssumption DEF ClientsAssumption, ClientKinds, LeaveIndexes, WriteNoNames
    <3> QED  BY <2>1, <2>3, <3>1, <3>2, NamingStep DEF ClientsNext
  <2> QED  BY <2>2, <2>3
<1> QED  BY <1>1, <1>2, LayersInvariance, PTL DEF ClientsSpec

\* Clients that write no names into indexes never find a name in an index
\* without the key, however they delete directories and whatever was refused in
\* the middle of a call: what they leave behind is orphans.
THEOREM NamesNeverDangle == ClientsSpec => []NamesKept
<1>1. (clients # "indexes" => Naming) => NamesKept
  BY DEF Naming, Named, NamesKept, NoDanglingNames, DirIndex, ValueAt, Dirs
<1> QED  BY <1>1, NamingInvariance, PTL

-----------------------------------------------------------------------------
(* The keys that indexes name *)

\* The index of its directory, in the cache or in the tree, names every key,
\* except that a new overlay may still be missing.
Lists(t, c, q) ==
    \A p \in Keys(t) \ {Root} : ChildName(p) \in View(t, c, Parent(p)).kids \/ p = q

\* In the middle of a call too, and Set is to write files only.
Listing ==
    /\ Lists(tree, indexes, op.path)
    /\ \A i \in 1 .. Len(op.pairs) : ~ IsDir(op.pairs[i].key)

\* No index loses a name to the cache, and the one that is added is there.
LEMMA AddChildLists ==
  ASSUME NEW t \in [Paths -> Value], NEW c \in [Paths -> Value], NEW d \in Paths, NEW name,
         View(t, c, d).kind = "absent" => View(t, c, d).kids = {},
         NEW t2, NEW p \in Paths, t2[p].kids = t[p].kids
  PROVE  /\ View(t, c, p).kids \subseteq View(t2, AddChild(t, c, d, name), p).kids
         /\ p = d => name \in View(t2, AddChild(t, c, d, name), p).kids
<1> DEFINE v == View(t, c, d)
           w == IF v.kind = "absent" THEN IndexOf({}) ELSE v
           u == [w EXCEPT !.kids = @ \cup {name}]
           c2 == AddChild(t, c, d, name)
<1>1. v \in Value /\ w \in Value /\ w.kids = v.kids
  BY ValueTypes DEF View, ValueAt, IndexOf
<1>2. u.kids = w.kids \cup {name}
  BY <1>1 DEF Value
<1>3. c2 = IF name \in v.kids THEN c ELSE [c EXCEPT ![d] = u]
  BY DEF AddChild
<1>4. Absent.kids = {}
  BY DEF Absent, Plain
<1>5. v = View(t, c, d)
  OBVIOUS
<1> HIDE DEF u, w, c2, v
<1>6. CASE name \in v.kids
  <2>1. c2 = c
    BY <1>3, <1>6
  <2>2. View(t2, c2, p).kids = View(t, c, p).kids
    BY <2>1 DEF View, ValueAt
  <2> QED  BY <1>5, <1>6, <2>2 DEF c2
<1>7. CASE name \notin v.kids /\ p # d
  <2>1. c2[p] = c[p]
    BY <1>3, <1>7
  <2>2. View(t2, c2, p).kids = View(t, c, p).kids
    BY <2>1 DEF View, ValueAt
  <2> QED  BY <1>7, <2>2 DEF c2
<1>8. CASE name \notin v.kids /\ p = d
  <2>1. c2[p] = u /\ u # Absent
    BY <1>2, <1>3, <1>4, <1>8
  <2>2. View(t2, c2, p) = u
    BY <2>1 DEF View
  <2> QED  BY <1>1, <1>2, <1>5, <1>8, <2>2 DEF c2
<1> QED  BY <1>6, <1>7, <1>8

\* What is read of an absent directory is empty.
LEMMA ViewBlank ==
  ASSUME IInv, Named(tree, indexes), NEW d \in Dirs
  PROVE  View(tree, indexes, d).kind = "absent" => View(tree, indexes, d).kids = {}
<1>1. indexes[d] # Absent => indexes[d].kind # "absent"
  BY DEF IInv, CacheInv, Dirty, DirKinds, Dirs
<1> QED  BY <1>1 DEF Named, View, ValueAt, Dirs

\* A key is made or kept, and its directory's index is given its name.
LEMMA AddChildListed ==
  ASSUME IInv, IInv', Naming, NEW q, Lists(tree, indexes, q), NEW d \in Paths, d # Root,
         \A p \in Paths : tree'[p].kind # "absent" => tree[p].kind # "absent" \/ p = d,
         \A p \in Dirs : tree'[p].kids = tree[p].kids,
         indexes' = AddChild(tree, indexes, Parent(d), ChildName(d))
  PROVE  Lists(tree', indexes', q)
<1>1. /\ tree \in [Paths -> Value] /\ indexes \in [Paths -> Value]
      /\ Parent(d) \in Paths /\ Parent(d) \in Dirs
  BY IInvFacts, ParentUnder, ParentDir DEF Stored
<1>2. View(tree, indexes, Parent(d)).kind = "absent" => View(tree, indexes, Parent(d)).kids = {}
  BY <1>1, ViewBlank DEF Naming
<1> SUFFICES ASSUME NEW p \in Keys(tree') \ {Root}, p # q
             PROVE  ChildName(p) \in View(tree', indexes', Parent(p)).kids
  BY DEF Lists
<1>3. p \in Paths /\ p # Root /\ tree'[p].kind # "absent" /\ Parent(p) \in Paths /\ Parent(p) \in Dirs
  BY ParentUnder, ParentDir DEF Keys, Present, ValueAt
<1>4. tree'[Parent(p)].kids = tree[Parent(p)].kids
  BY <1>3
<1>5. /\ View(tree, indexes, Parent(p)).kids \subseteq View(tree', indexes', Parent(p)).kids
      /\ Parent(p) = Parent(d) => ChildName(d) \in View(tree', indexes', Parent(p)).kids
  BY <1>1, <1>2, <1>3, <1>4, AddChildLists
<1>6. CASE p = d
  BY <1>5, <1>6
<1>7. CASE p # d
  <2>1. p \in Keys(tree) \ {Root}
    BY <1>3, <1>7 DEF Keys, Present, ValueAt
  <2> QED  BY <1>5, <2>1 DEF Lists
<1> QED  BY <1>6, <1>7

LEMMA FlushListing ==
  ASSUME NEW c, Lists(tree, c, Root), \A p \in Paths : c[p] # Absent => Present(tree, p),
         tree' = Flush(tree, c), indexes' = NoCache, op' = Idle
  PROVE  Listing'
<1>1. op'.path = Root /\ op'.pairs = << >>
  BY DEF Idle
<1>2. \A p \in Paths : tree'[p] = IF c[p] # Absent THEN c[p] ELSE tree[p]
  BY DEF Flush
<1>3. ASSUME NEW p \in Keys(tree') \ {Root}
      PROVE  ChildName(p) \in View(tree', NoCache, Parent(p)).kids
  <2>1. p \in Paths /\ p # Root /\ Parent(p) \in Paths /\ tree'[p].kind # "absent"
    BY ParentUnder DEF Keys, Present, ValueAt
  <2>2. p \in Keys(tree) \ {Root}
    BY <1>2, <2>1 DEF Keys, Present, ValueAt
  <2>3. ChildName(p) \in View(tree, c, Parent(p)).kids
    BY <2>2 DEF Lists
  <2>4. View(tree, c, Parent(p)) = tree'[Parent(p)]
    BY <1>2, <2>1 DEF View, ValueAt
  <2>5. View(tree', NoCache, Parent(p)) = tree'[Parent(p)]
    BY <2>1 DEF View, ValueAt, NoCache
  <2> QED  BY <2>3, <2>4, <2>5
<1> QED  BY <1>1, <1>3 DEF Listing, Lists

LEMMA FlushReturnListing ==
  ASSUME IInv, Layered, Listing, FlushAndReturn, op.call # "ExtIndex"
  PROVE  Listing'
<1>1. op.path = Root /\ \A p \in Paths : indexes[p] # Absent => Present(tree, p)
  BY DEF Layered, Working
<1> QED  BY <1>1, FlushListing DEF FlushAndReturn, Listing

LEMMA BeginListing ==
  ASSUME IInv, Layered, Listing, Returned, UNCHANGED <<tree, indexes>>, op'.path = Root,
         \A i \in 1 .. Len(op'.pairs) : ~ IsDir(op'.pairs[i].key)
  PROVE  Listing'
<1>1. op.path = Root
  BY DEF Returned, Idle
<1> QED  BY <1>1 DEF Listing

LEMMA SetBeginListing ==
  ASSUME IInv, Layered, Listing, NEW batch \in Batches, SetBegin(batch),
         \A i \in 1 .. Len(batch) : IsDir(batch[i].key) => ~ ValidPair(batch[i])
  PROVE  Listing'
<1>1. PICK n \in 1 .. Len(batch) :
         PreparedPairs(tree, batch, n) /\ op'.pairs = SubSeq(batch, 1, n)
  BY DEF SetBegin, Idle
<1>2. batch \in Seq(Pair) /\ Len(batch) \in Nat
  BY CallsAssumption DEF CallsAssumption
<1>3. Len(op'.pairs) = n /\ \A i \in 1 .. n : op'.pairs[i] = batch[i]
  BY <1>1, <1>2
<1>4. \A i \in 1 .. n : i \in 1 .. Len(batch) /\ ValidPair(batch[i])
  BY <1>1, <1>2 DEF PreparedPairs
<1>5. \A i \in 1 .. Len(op'.pairs) : ~ IsDir(op'.pairs[i].key)
  BY <1>3, <1>4
<1>6. op'.path = Root
  BY DEF SetBegin, Idle
<1> QED  BY <1>5, <1>6, BeginListing DEF SetBegin

LEMMA EnsureDirListing ==
  ASSUME IInv, IInv', Naming, Listing, EnsureDir
  PROVE  Listing'
<1>1. /\ NextDir \in Dirs /\ NextDir \in Paths /\ op'.pairs = op.pairs /\ op'.path = op.path
      /\ \A p \in Paths \ {NextDir} : tree'[p] = tree[p]
      /\ Present(tree, NextDir) => tree' = tree
      /\ ~ Present(tree, NextDir) => tree'[NextDir] = IndexOf({})
      /\ IF NextDir = Root THEN indexes' = indexes
         ELSE indexes' = AddChild(tree, indexes, Parent(NextDir), ChildName(NextDir))
  BY EnsureDirMeans
<1>2. \A p \in Dirs : tree'[p].kids = tree[p].kids
  <2>1. ~ Present(tree, NextDir) => tree[NextDir].kids = {}
    BY <1>1 DEF Naming, Named, Present, ValueAt
  <2>2. IndexOf({}).kids = {}
    BY DEF IndexOf
  <2> QED  BY <1>1, <2>1, <2>2 DEF Dirs
<1>3. \A p \in Paths : tree'[p].kind # "absent" => tree[p].kind # "absent" \/ p = NextDir
  BY <1>1
<1>4. Lists(tree', indexes', op.path)
  <2>1. CASE NextDir # Root
    BY <1>1, <1>2, <1>3, <2>1, AddChildListed DEF Listing
  <2>2. CASE NextDir = Root
    <3> SUFFICES ASSUME NEW p \in Keys(tree') \ {Root}, p # op.path
                 PROVE  ChildName(p) \in View(tree', indexes', Parent(p)).kids
      BY DEF Lists
    <3>1. p \in Keys(tree) \ {Root} /\ Parent(p) \in Dirs /\ Parent(p) \in Paths
      BY <1>3, <2>2, ParentDir DEF Keys, Present, ValueAt, Dirs
    <3>2. View(tree', indexes', Parent(p)).kids = View(tree, indexes, Parent(p)).kids
      BY <1>1, <1>2, <2>2, <3>1 DEF View, ValueAt
    <3> QED  BY <3>1, <3>2 DEF Listing, Lists
  <2> QED  BY <2>1, <2>2
<1> QED  BY <1>1, <1>4 DEF Listing

LEMMA SetWriteListing ==
  ASSUME IInv, IInv', Layered, Naming, Listing, SetWrite
  PROVE  Listing'
<1> DEFINE pair == Head(op.pairs)
           key == pair.key
<1>1. op \in Frame /\ op.pairs # << >> /\ op.call = "Set"
  <2>1. op \in Frame /\ op.call = "Set" /\ op.at = Len(op.dir) + 1 /\ op.dir \in Paths
    BY DEF SetWrite, EnsuredDir, IInv, TypeOK, Frame, Dirs
  <2>2. op.at # NotEnsuring
    BY <2>1, PathSeq DEF NotEnsuring
  <2> QED  BY <2>1, <2>2 DEF IInv, FrameInv
<1>2. op.pairs \in Seq(Pair)
  BY <1>1 DEF Frame
<1>3. pair \in Pair /\ 1 \in 1 .. Len(op.pairs) /\ pair = op.pairs[1]
  BY <1>1, <1>2
<1>4. key \in Paths /\ ~ IsDir(key) /\ key # Root
  BY <1>3 DEF Pair, Listing, IsDir
<1>5. \A i \in 1 .. Len(op'.pairs) : ~ IsDir(op'.pairs[i].key)
  <2>1. op'.pairs = Tail(op.pairs)
    BY DEF SetWrite, Idle
  <2> SUFFICES ASSUME NEW i \in 1 .. Len(Tail(op.pairs)) PROVE  ~ IsDir(Tail(op.pairs)[i].key)
    BY <2>1
  <2>2. i + 1 \in 1 .. Len(op.pairs) /\ Tail(op.pairs)[i] = op.pairs[i + 1]
    BY <1>1, <1>2
  <2> QED  BY <2>2 DEF Listing
<1>6. /\ tree' = [tree EXCEPT ![key] = pair.val]
      /\ indexes' = AddChild(tree, indexes, Parent(key), ChildName(key))
      /\ op'.path = Root /\ op.path = Root
  BY <1>1, <1>4 DEF SetWrite, Idle, Layered, Working
<1>7. tree \in [Paths -> Value]
  BY IInvFacts DEF Stored
<1> HIDE DEF pair
<1>8. \A p \in Paths : tree'[p] = IF p = key THEN pair.val ELSE tree[p]
  BY <1>6, <1>7
<1>9. \A p \in Paths : tree'[p].kind # "absent" => tree[p].kind # "absent" \/ p = key
  BY <1>8
<1>10. \A p \in Dirs : tree'[p].kids = tree[p].kids
  BY <1>4, <1>8 DEF Dirs
<1>11. Lists(tree', indexes', Root)
  BY <1>4, <1>6, <1>9, <1>10, AddChildListed DEF Listing
<1> QED  BY <1>5, <1>6, <1>11 DEF Listing

LEMMA ExtIndexBeginListing ==
  ASSUME IInv, Layered, Listing, NEW path \in Dirs, NEW extpath \in Dirs,
         ExtIndexBegin(path, extpath)
  PROVE  Listing'
<1> DEFINE v == ExtIndexOf(tree[path].kids, extpath)
<1>1. /\ tree' = [tree EXCEPT ![path] = v] /\ indexes' = indexes
      /\ op'.pairs = << >> /\ op'.path = path /\ path \in Paths /\ op.path = Root
  BY DEF ExtIndexBegin, Idle, Dirs, Returned
<1>2. v.kids = tree[path].kids /\ tree \in [Paths -> Value]
  BY IInvFacts DEF ExtIndexOf, Stored
<1> HIDE DEF v
<1>3. \A p \in Paths : tree'[p] = IF p = path THEN v ELSE tree[p]
  BY <1>1, <1>2
<1>4. \A p \in Paths : tree'[p].kids = tree[p].kids
  BY <1>2, <1>3
<1>5. ASSUME NEW p \in Keys(tree') \ {Root}, p # path
      PROVE  ChildName(p) \in View(tree', indexes', Parent(p)).kids
  <2>1. p \in Keys(tree) \ {Root} /\ Parent(p) \in Paths
    BY <1>3, <1>5, ParentUnder DEF Keys, Present, ValueAt
  <2>2. View(tree', indexes', Parent(p)).kids = View(tree, indexes, Parent(p)).kids
    BY <1>1, <1>4, <2>1 DEF View, ValueAt
  <2> QED  BY <1>1, <2>1, <2>2 DEF Listing, Lists
<1>6. Lists(tree', indexes', path)
  BY <1>5 DEF Lists
<1> QED  BY <1>1, <1>6 DEF Listing

\* The directories above a new overlay are there when it is entered.
LEMMA EnsuredParent ==
  ASSUME IInv, Making, Layered, ExtIndexReturn
  PROVE  Present(tree, Parent(op.path))
<1>1. op.at = Len(op.dir) + 1 /\ op.dir = Parent(op.path) /\ op.dir \in Paths
  BY DEF ExtIndexReturn, EnsuredDir, Making, IInv, TypeOK, Frame, Dirs
<1>2. Len(op.dir) \in 0 .. Len(op.dir) /\ Len(op.dir) < op.at
  BY <1>1, PathSeq
<1>3. Ancestor(op.dir, Len(op.dir)) = op.dir
  BY <1>1, PathSeq DEF Ancestor
<1>4. Present(tree, Ancestor(op.dir, Len(op.dir)))
  BY <1>2 DEF Layered, Working
<1> QED  BY <1>1, <1>3, <1>4

LEMMA ExtIndexReturnListing ==
  ASSUME IInv, Making, Layered, Naming, Listing, ExtIndexReturn
  PROVE  Listing'
<1> DEFINE q == op.path
           c == AddChild(tree, indexes, Parent(q), ChildName(q))
<1>1. /\ q \in Dirs /\ q # Root /\ q \in Paths
      /\ tree' = Flush(tree, c) /\ indexes' = NoCache /\ op' = Idle
  BY DEF ExtIndexReturn, IInv, FrameInv, Dirs
<1>2. Parent(q) \in Dirs /\ Parent(q) \in Paths /\ Present(tree, Parent(q))
  BY <1>1, ParentDir, EnsuredParent DEF Dirs
<1> HIDE DEF q
<1>3. tree \in [Paths -> Value] /\ indexes \in [Paths -> Value]
  BY IInvFacts DEF Stored
<1>4. View(tree, indexes, Parent(q)).kind = "absent" => View(tree, indexes, Parent(q)).kids = {}
  BY <1>2, ViewBlank DEF Naming
<1>5. ASSUME NEW p \in Keys(tree) \ {Root}
      PROVE  ChildName(p) \in View(tree, c, Parent(p)).kids
  <2>1. Parent(p) \in Paths
    BY ParentUnder DEF Keys
  <2>2. /\ View(tree, indexes, Parent(p)).kids \subseteq View(tree, c, Parent(p)).kids
        /\ Parent(p) = Parent(q) => ChildName(q) \in View(tree, c, Parent(p)).kids
    BY <1>2, <1>3, <1>4, <2>1, AddChildLists
  <2>3. ChildName(p) \in View(tree, indexes, Parent(p)).kids \/ p = q
    BY DEF Listing, Lists, q
  <2> QED  BY <2>2, <2>3
<1>6. ASSUME NEW p \in Paths, c[p] # Absent
      PROVE  Present(tree, p)
  <2>1. CASE c[p] = indexes[p]
    BY <1>6, <2>1 DEF Layered, Working
  <2>2. CASE c[p] # indexes[p]
    BY <1>2, <1>3, <2>2, AddChildCaches
  <2> QED  BY <2>1, <2>2
<1> HIDE DEF c
<1>7. Lists(tree, c, Root)
  BY <1>5 DEF Lists
<1> QED  BY <1>1, <1>6, <1>7, FlushListing

LEMMA DelExtIndexListing ==
  ASSUME IInv, Listing, NEW path \in Paths, DelExtIndex(path)
  PROVE  Listing'
<1> DEFINE v == IndexOf(tree[path].kids)
<1>1. /\ tree' = [tree EXCEPT ![path] = v] /\ indexes' = indexes /\ op' = op
      /\ tree[path].kind = "extindex"
  BY DEF DelExtIndex
<1>2. v.kids = tree[path].kids /\ tree \in [Paths -> Value]
  BY IInvFacts DEF IndexOf, Stored
<1> HIDE DEF v
<1>3. \A p \in Paths : tree'[p] = IF p = path THEN v ELSE tree[p]
  BY <1>1, <1>2
<1>4. \A p \in Paths : tree'[p].kids = tree[p].kids
  BY <1>2, <1>3
<1>5. ASSUME NEW p \in Keys(tree') \ {Root}
      PROVE  ChildName(p) \in View(tree', indexes', Parent(p)).kids \/ p = op.path
  <2>1. p \in Keys(tree) \ {Root} /\ Parent(p) \in Paths
    BY <1>1, <1>3, ParentUnder DEF Keys, Present, ValueAt
  <2>2. View(tree', indexes', Parent(p)).kids = View(tree, indexes, Parent(p)).kids
    BY <1>1, <1>4, <2>1 DEF View, ValueAt
  <2> QED  BY <2>1, <2>2 DEF Listing, Lists
<1> QED  BY <1>1, <1>5 DEF Listing, Lists

\* Keys go with their names, and the directories of the others stay.
LEMMA RemovalListing ==
  ASSUME IInv, Listing, indexes = NoCache, op.path = Root, indexes' = NoCache, op'.path = Root,
         Rooted(tree', Root), NEW S, NEW gone \in SUBSET Paths, gone \cap Keys(tree) \subseteq S,
         tree' = RemoveNames(Without(tree, S), gone)
  PROVE  Lists(tree', NoCache, Root)
<1> DEFINE cut == Without(tree, S)
           gonein(d) == {ChildName(p) : p \in {q \in gone \ {Root} : Parent(q) = d}}
<1>1. \A p \in Paths : tree'[p].kind = (IF p \in S THEN "absent" ELSE tree[p].kind)
  BY CutKeeps
<1>2. cut \in [Paths -> Value] /\ tree \in [Paths -> Value]
  BY IInvFacts, WithoutKeeps DEF Stored
<1>3. \A d \in Paths : tree'[d] = IF cut[d].kind \in DirKinds
                                  THEN [cut[d] EXCEPT !.kids = @ \ gonein(d)] ELSE cut[d]
  BY DEF RemoveNames
<1>4. \A p \in Paths : cut[p] = IF p \in S THEN Absent ELSE tree[p]
  BY DEF Without
<1> HIDE DEF cut
<1> SUFFICES ASSUME NEW p \in Keys(tree') \ {Root}
             PROVE  ChildName(p) \in View(tree', NoCache, Parent(p)).kids
  BY DEF Lists
<1>5. p \in Paths /\ p # Root /\ p \notin S /\ p \in Keys(tree) \ {Root}
  BY <1>1 DEF Keys, Present, ValueAt
<1>6. Parent(p) \in Paths /\ p \in Seq(Child) \ {Root}
  BY <1>5, ParentUnder, PathSeq
<1>7. Present(tree', Parent(p))
  <2>1. Len(p) - 1 \in 0 .. Len(p) /\ Parent(p) = Ancestor(p, Len(p) - 1)
    BY <1>5, PathSeq DEF Parent
  <2>2. Present(tree', Ancestor(p, Len(p) - 1)) \/ Len(p) - 1 < Len(Root)
    BY <2>1 DEF Rooted
  <2>3. Len(Root) = 0
    BY DEF Root
  <2> QED  BY <2>1, <2>2, <2>3, <1>5, PathSeq
<1>8. Parent(p) \notin S /\ cut[Parent(p)] = tree[Parent(p)]
  BY <1>1, <1>4, <1>6, <1>7 DEF Present, ValueAt
<1>9. ChildName(p) \in tree[Parent(p)].kids
  <2>1. ChildName(p) \in View(tree, NoCache, Parent(p)).kids
    BY <1>5 DEF Listing, Lists
  <2> QED  BY <1>6, <2>1 DEF View, ValueAt, NoCache
<1>10. ChildName(p) \notin gonein(Parent(p))
  <2> SUFFICES ASSUME NEW q \in gone \ {Root}, Parent(q) = Parent(p), ChildName(q) = ChildName(p)
               PROVE  FALSE
    OBVIOUS
  <2>1. q \in Seq(Child) \ {Root}
    BY PathSeq
  <2>2. q = p
    BY <1>6, <2>1, ParentAndName
  <2> QED  BY <1>5, <2>2
<1>11. ChildName(p) \in tree'[Parent(p)].kids
  <2> DEFINE d == Parent(p)
             kids == cut[d].kids \ gonein(d)
  <2>1. cut[d] \in Value /\ ChildName(p) \in kids
    BY <1>2, <1>6, <1>8, <1>9, <1>10
  <2>2. CASE cut[d].kind \in DirKinds
    <3>1. tree'[d] = [cut[d] EXCEPT !.kids = kids]
      BY <1>3, <1>6, <2>2
    <3> HIDE DEF kids, d
    <3>2. tree'[d].kids = kids
      BY <2>1, <3>1 DEF Value
    <3> QED  BY <2>1, <3>2 DEF d
  <2>3. CASE cut[d].kind \notin DirKinds
    <3>1. tree'[d] = cut[d]
      BY <1>3, <1>6, <2>3
    <3> QED  BY <1>8, <1>9, <3>1
  <2> QED  BY <2>2, <2>3
<1>12. View(tree', NoCache, Parent(p)) = tree'[Parent(p)]
  BY <1>6 DEF View, ValueAt, NoCache
<1> QED  BY <1>11, <1>12

LEMMA DelKeyListing ==
  ASSUME IInv, Layered, Layered', Listing, DelKey
  PROVE  Listing'
<1> DEFINE key == Head(op.keys)
           cut == Without(tree, {key})
<1>1. /\ indexes = NoCache /\ indexes' = NoCache /\ tree \in [Paths -> Value]
      /\ op \in Frame /\ op.keys # << >> /\ op.path = Root
  BY IInvFacts DEF DelKey, Stored, IInv, TypeOK, CacheInv, Layered, Working
<1>2. (op'.pairs = op.pairs \/ op'.pairs = << >>) /\ op'.path = Root
  BY <1>1 DEF DelKey, Frame, Idle
<1>3. \/ tree' = tree
      \/ tree' = [cut EXCEPT ![key] = tree[key]]
      \/ tree' = RemoveNames(cut, {key})
  BY DEF DelKey
<1>4. key \in Paths
  <2>1. op.keys \in Seq(Paths)
    BY <1>1 DEF Frame
  <2> QED  BY <1>1, <2>1
<1>5. [cut EXCEPT ![key] = tree[key]] = tree
  <2> HIDE DEF key
  <2> QED  BY <1>1, <1>4 DEF Without
<1>6. Rooted(tree', Root)
  BY <1>2 DEF Layered
<1> HIDE DEF key
<1>7. Lists(tree', NoCache, Root)
  <2>1. CASE tree' = RemoveNames(cut, {key})
    <3>1. {key} \in SUBSET Paths /\ {key} \cap Keys(tree) \subseteq {key}
      BY <1>4
    <3> QED  BY <1>1, <1>2, <1>6, <2>1, <3>1, RemovalListing
  <2>2. CASE tree' = tree
    BY <1>1, <2>2 DEF Listing
  <2> QED  BY <1>3, <1>5, <2>1, <2>2
<1> QED  BY <1>1, <1>2, <1>7 DEF Listing

\* When DelTree finds nothing to delete, its argument is no key.
LEMMA DoomedItself ==
  ASSUME NEW prefix \in Paths, Present(tree, prefix)
  PROVE  prefix \in Doomed(tree, prefix)
<1>1. Len(prefix) \in 0 .. Len(prefix) /\ Ancestor(prefix, Len(prefix)) = prefix
  BY PathSeq DEF Ancestor
<1>2. Under(prefix, prefix)
  BY <1>1, AncestorUnder
<1> QED  BY <1>2 DEF Doomed, Keys

LEMMA DelTreeListing ==
  ASSUME IInv, Layered, Layered', Listing, NEW prefix \in Paths, DelTree(prefix)
  PROVE  Listing'
<1> DEFINE doomed == Doomed(tree, prefix)
           gone == IF doomed = {} THEN {prefix} ELSE doomed
<1>1. /\ tree' = RemoveNames(Without(tree, doomed), gone)
      /\ indexes' = indexes /\ op' = op /\ Returned
  BY DEF DelTree
<1>2. indexes = NoCache /\ op.path = Root
  BY <1>1 DEF IInv, CacheInv, Returned, Idle
<1>3. Rooted(tree', Root)
  BY <1>1, <1>2 DEF Layered
<1>4. gone \in SUBSET Paths
  BY DEF Doomed, Keys
<1>5. gone \cap Keys(tree) \subseteq doomed
  BY DoomedItself DEF Keys
<1> HIDE DEF doomed, gone
<1>6. Lists(tree', NoCache, Root)
  BY <1>1, <1>2, <1>3, <1>4, <1>5, RemovalListing
<1> QED  BY <1>1, <1>2, <1>6 DEF Listing

LEMMA ClearListing ==
  ASSUME IInv, Clear
  PROVE  Listing'
<1>1. Keys(tree') = {}
  BY DEF Clear, NoCache, Keys, Present, ValueAt, Absent, Plain
<1>2. op'.pairs = << >>
  BY DEF Clear, Returned, Idle
<1> QED  BY <1>1, <1>2 DEF Listing, Lists

LEMMA ListingStep ==
  ASSUME IInv, IInv', Making, Layered, Layered', Naming, Listing, FilesNext \/ UNCHANGED vars
  PROVE  Listing'
<1> USE FilesCalls
<1>1. ASSUME NEW batch \in BatchesOf["files"], SetBegin(batch) PROVE Listing'
  <2>1. \A i \in 1 .. Len(batch) : IsDir(batch[i].key) => ~ ValidPair(batch[i])
    BY ClientsAssumption DEF ClientsAssumption, LeaveIndexes
  <2> QED  BY <1>1, <2>1, SetBeginListing
<1>2. CASE SetConflict
  BY <1>2, FlushReturnListing DEF SetConflict, SetNextPair
<1>3. CASE SetPair
  <2>1. op \in Frame
    BY DEF IInv, TypeOK
  <2>2. op'.pairs = op.pairs /\ op'.path = op.path
    BY <1>3, <2>1 DEF SetPair, Frame
  <2> QED  BY <1>3, <2>2 DEF SetPair, Listing
<1>4. CASE SetWrite
  BY <1>4, SetWriteListing
<1>5. CASE SetRefused
  BY <1>5, FlushReturnListing DEF SetRefused
<1>6. CASE SetReturn
  BY <1>6, FlushReturnListing DEF SetReturn
<1>7. CASE EnsureDir
  BY <1>7, EnsureDirListing
<1>8. ASSUME NEW dir \in MkindexCalls, MkindexBegin(dir) PROVE Listing'
  <2>1. op'.pairs = << >> /\ op'.path = Root
    BY <1>8 DEF MkindexBegin, Idle
  <2> QED  BY <1>8, <2>1, BeginListing DEF MkindexBegin
<1>9. CASE MkindexReturn
  BY <1>9, FlushReturnListing DEF MkindexReturn
<1>10. ASSUME NEW call \in MountsOf["files"], ExtIndexBegin(call[1], call[2]) PROVE Listing'
  <2>1. call[1] \in Dirs /\ call[2] \in Dirs
    BY CallsAssumption DEF CallsAssumption
  <2> QED  BY <1>10, <2>1, ExtIndexBeginListing
<1>11. CASE ExtIndexReturn
  BY <1>11, ExtIndexReturnListing
<1>12. ASSUME NEW path \in DelExtCalls, DelExtIndex(path) PROVE Listing'
  BY <1>12, CallsAssumption, DelExtIndexListing DEF CallsAssumption
<1>13. ASSUME NEW keys \in DelsOf["files"], DelBegin(keys) PROVE Listing'
  <2>1. op'.pairs = << >> /\ op'.path = Root
    BY <1>13 DEF DelBegin, Idle
  <2> QED  BY <1>13, <2>1, BeginListing DEF DelBegin
<1>14. CASE DelKey
  BY <1>14, DelKeyListing
<1>15. CASE DelReturn
  <2>1. op'.pairs = << >> /\ op'.path = Root /\ op.path = Root
    BY <1>15 DEF DelReturn, Idle, Layered, Working
  <2> QED  BY <1>15, <2>1 DEF DelReturn, Listing
<1>16. ASSUME NEW prefix \in TreesOf["files"], DelTree(prefix) PROVE Listing'
  BY <1>16, CallsAssumption, DelTreeListing DEF CallsAssumption
<1>17. CASE Clear
  BY <1>17, ClearListing
<1>18. CASE UNCHANGED vars
  BY <1>18 DEF vars, Listing
<1> QED
  BY <1>1, <1>2, <1>3, <1>4, <1>5, <1>6, <1>7, <1>8, <1>9, <1>10, <1>11, <1>12, <1>13,
     <1>14, <1>15, <1>16, <1>17, <1>18 DEF FilesNext, NextOf

\* All that is known of a store whose indexes are left to it.
FilesInv == Layered /\ Naming /\ Listing

LEMMA FilesInvariance == ClientsSpec => [](IInv /\ (clients = "files" => FilesInv))
<1> DEFINE J == clients # "indexes" => Naming
           K == clients = "files" => Listing
           I == clients \in ClientKinds /\ IInv /\ Making /\ (clients = "files" => Layered)
<1>1. ClientsInit => K
  <2>1. Init => Keys(tree) = {} /\ op.pairs = << >>
    BY DEF Init, NoCache, Keys, Present, ValueAt, Absent, Plain, Idle
  <2> QED  BY <2>1 DEF ClientsInit, Listing, Lists
<1>2. I /\ I' /\ J /\ K /\ [ClientsNext]_<<vars, clients>> => K'
  BY ClientsStep, ListingStep
<1>3. I /\ J /\ K => IInv /\ (clients = "files" => FilesInv)
  BY DEF FilesInv
<1> QED  BY <1>1, <1>2, <1>3, LayersInvariance, NamingInvariance, PTL DEF ClientsSpec

\* While indexes are left to the store, they name exactly the keys there are
\* between calls: no call that is refused half way, no delete that is undone
\* and no overlay that is made or taken away leaves a key unlisted or a name
\* without a key.
THEOREM IndexesExact == ClientsSpec => []FilesCoherent
<1>1. IInv /\ FilesInv => Coherent
  <2> SUFFICES ASSUME IInv, FilesInv, Returned PROVE Coherent
    BY DEF Coherent
  <2>1. indexes = NoCache /\ op.path = Root
    BY DEF IInv, CacheInv, Returned, Idle
  <2>2. ASSUME NEW p \in Keys(tree) \ {Root}
        PROVE  ChildName(p) \in DirIndex(tree, Parent(p))
    <3>1. ChildName(p) \in View(tree, NoCache, Parent(p)).kids
      BY <2>1 DEF FilesInv, Listing, Lists
    <3> QED  BY <3>1 DEF View, DirIndex, NoCache
  <2>3. \A d \in Dirs : \A name \in DirIndex(tree, d) : Present(tree, Append(d, name))
    BY DEF FilesInv, Naming, Named, DirIndex, ValueAt, Dirs
  <2> QED  BY <2>2, <2>3 DEF Coherent
<1>2. IInv /\ (clients = "files" => FilesInv) => FilesCoherent
  BY <1>1 DEF FilesCoherent
<1> QED  BY <1>2, FilesInvariance, PTL

-----------------------------------------------------------------------------
(* Reading through an overlay *)

LEMMA MovedDir ==
  ASSUME NEW d \in Dirs, NEW o \in Paths, Under(d, o), NEW e \in Dirs
  PROVE  e \o Relative(d, o) \in Seq(Child) /\ IsDir(e \o Relative(d, o))
<1> DEFINE x == e \o Relative(d, o)
<1>1. /\ d \in Seq(Child) /\ o \in Seq(Child) /\ e \in Seq(Child)
      /\ Len(d) \in Nat /\ Len(o) \in Nat /\ Len(e) \in Nat /\ Len(o) <= Len(d)
  BY PathSeq, UnderMeans DEF Dirs
<1>2. /\ x \in Seq(Child) /\ Len(x) = Len(e) + Len(d) - Len(o)
      /\ \A i \in 1 .. Len(e) : x[i] = e[i]
      /\ \A i \in Len(e) + 1 .. Len(e) + Len(d) - Len(o) : x[i] = d[i - Len(e) + Len(o)]
  BY <1>1, Moved
<1>3. IsDir(d) /\ IsDir(e)
  BY DEF Dirs
<1>4. x \in Seq(Child)
  BY <1>2
<1> HIDE DEF x
<1>5. CASE Len(d) = Len(o)
  <2>1. Len(x) = Len(e)
    BY <1>1, <1>2, <1>5
  <2>2. \A i \in 1 .. Len(x) : x[i] = e[i]
    BY <1>2, <2>1
  <2>3. x = e
    BY <1>1, <1>4, <2>1, <2>2, SeqEqual
  <2> QED  BY <1>3, <1>4, <2>3 DEF x
<1>6. CASE Len(o) < Len(d)
  <2>1. Len(x) \in Len(e) + 1 .. Len(e) + Len(d) - Len(o) /\ Len(x) - Len(e) + Len(o) = Len(d)
    BY <1>1, <1>2, <1>6
  <2>2. x[Len(x)] = d[Len(d)]
    BY <1>2, <2>1
  <2>3. d # Root /\ x # Root
    BY <1>1, <1>2, <1>6, <2>1 DEF Root
  <2>4. IsDir(x)
    BY <1>3, <2>2, <2>3 DEF IsDir
  <2> QED  BY <1>4, <2>4 DEF x
<1> QED  BY <1>1, <1>5, <1>6

\* Where an overlay reads a directory is the key of a directory.
LEMMA FallbackDir ==
  ASSUME IInv, NEW d \in Dirs, Fallback(tree, d) # NoPath
  PROVE  Fallback(tree, d) \in Seq(Child) /\ IsDir(Fallback(tree, d))
<1>1. d \in Paths /\ DirOf(d) = d
  BY DEF Dirs, DirOf
<1>2. PICK o \in Paths : /\ tree[o].kind = "extindex" /\ Under(d, o)
                         /\ Fallback(tree, d) = tree[o].ext \o Relative(d, o)
  BY <1>1, FallbackFrom
<1>3. tree[o].ext \in Dirs
  BY <1>2, OverlayFacts
<1> QED  BY <1>2, <1>3, MovedDir

\* What an index in Paths or outside of it names.
LEMMA NamedChild ==
  ASSUME IInv, Coherent, Returned, NEW d \in Seq(Child), IsDir(d), NEW name \in Child
  PROVE  name \in DirIndex(tree, d) <=> Present(tree, Append(d, name))
<1> DEFINE r == Append(d, name)
<1>1. r \in Seq(Child) \ {Root} /\ Parent(r) = d /\ ChildName(r) = name
  BY AppendFacts
<1>2. name \in DirIndex(tree, d) => Present(tree, Append(d, name))
  <2>1. DirIndex(tree, d) # {} => d \in Dirs
    BY DEF DirIndex, ValueAt, Absent, Plain, Dirs
  <2> QED  BY <2>1 DEF Coherent
<1> HIDE DEF r
<1>3. Present(tree, r) => name \in DirIndex(tree, d)
  <2>1. Present(tree, r) => r \in Keys(tree) \ {Root}
    BY <1>1 DEF Keys, Present, ValueAt, Absent, Plain
  <2> QED  BY <1>1, <2>1 DEF Coherent
<1> QED  BY <1>2, <1>3 DEF r

\* While indexes are left to the store, the two calls that read through
\* overlays agree: List looks for the target of a directory, Get for that of a
\* key in it, and what one of them finds below a target, the other does.
THEOREM ListsMatchGets == ClientsSpec => []FilesListed
<1>1. IInv /\ Coherent => ListMatchesGet
  <2> SUFFICES ASSUME IInv, Coherent, Returned, NEW p \in Paths, p # Root
               PROVE  ChildName(p) \in List(tree, Parent(p)) <=> Get(tree, p).kind # "absent"
    BY DEF ListMatchesGet
  <2> DEFINE d == Parent(p)
             name == ChildName(p)
             far == Fallback(tree, d)
  <2>1. d \in Dirs /\ d \in Seq(Child) /\ IsDir(d) /\ name \in Child
    BY ParentDir, PathSeq, ChildNameType DEF Dirs
  <2>2. Append(d, name) = p
    BY ParentAppend
  <2>3. name \in DirIndex(tree, d) <=> Present(tree, p)
    BY <2>1, <2>2, NamedChild
  <2>4. far # NoPath => (name \in DirIndex(tree, far) <=> Present(tree, Append(far, name)))
    BY <2>1, FallbackDir, NamedChild
  <2>5. name \in List(tree, d) <=>
           name \in DirIndex(tree, d) \/ (far # NoPath /\ name \in DirIndex(tree, far))
    BY DEF List
  <2>6. Get(tree, p) = IF Present(tree, p) \/ far = NoPath THEN ValueAt(tree, p)
                       ELSE ValueAt(tree, Append(far, name))
    BY DEF Get
  <2> HIDE DEF far, name, d
  <2>7. name \in List(tree, d) <=> Get(tree, p).kind # "absent"
    <3>1. CASE Present(tree, p) \/ far = NoPath
      BY <2>3, <2>5, <2>6, <3>1 DEF Present
    <3>2. CASE ~ (Present(tree, p) \/ far = NoPath)
      BY <2>3, <2>4, <2>5, <2>6, <3>2 DEF Present
    <3> QED  BY <3>1, <3>2
  <2> QED  BY <2>7 DEF name, d
<1>2. IInv /\ FilesCoherent => FilesListed
  BY <1>1 DEF FilesCoherent, FilesListed
<1> QED  BY <1>2, IndexesExact, FilesInvariance, PTL
=============================================================================
