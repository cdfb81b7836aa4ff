-------------------------- MODULE RedisStoreProofs --------------------------
(***************************************************************************)
(* Proofs about RedisStore, in five parts: the Redis server and the frames *)
(* of the calls have their types, which bounds every index and every path  *)
(* that a call computes; what a pipeline leaves when it has been executed  *)
(* (Final); what one step does to a client's stack; on these, what         *)
(* DelTree, Del and Set do when they return undisturbed; and, of clients   *)
(* that work in directories of their own, that the indexes stay exact.     *)
(***************************************************************************)
EXTENDS RedisHomes, KVPathsProofs

\* The paths of a file and of a directory with the same name differ in their
\* last child only.
FileChild(k) == [name |-> k.name, dir |-> FALSE]
DirChild(k) == [name |-> k.name, dir |-> TRUE]

LEMMA Spelled ==
  ASSUME NEW p \in Seq(Child), p # Root
  PROVE  /\ Len(p) \in Nat /\ Len(p) >= 1 /\ p[Len(p)] \in Child
         /\ AsFile(p) = [p EXCEPT ![Len(p)] = FileChild(p[Len(p)])]
         /\ Slash(p) = [p EXCEPT ![Len(p)] = DirChild(p[Len(p)])]
<1>1. Len(p) \in Nat /\ Len(p) >= 1 /\ p[Len(p)] \in Child
  BY DEF Root
<1>2. \A k \in Child : /\ [k EXCEPT !.dir = FALSE] = FileChild(k)
                      /\ [k EXCEPT !.dir = TRUE] = DirChild(k)
  <2> TAKE k \in Child
  <2>1. \A x, y \in Child : x.name = y.name /\ (x.dir <=> y.dir) => x = y
    BY DEF Child
  <2>2. /\ [k EXCEPT !.dir = FALSE] \in Child /\ [k EXCEPT !.dir = FALSE].name = k.name
        /\ ~ [k EXCEPT !.dir = FALSE].dir
    BY DEF Child
  <2>3. /\ [k EXCEPT !.dir = TRUE] \in Child /\ [k EXCEPT !.dir = TRUE].name = k.name
        /\ [k EXCEPT !.dir = TRUE].dir
    BY DEF Child
  <2>4. /\ FileChild(k) \in Child /\ FileChild(k).name = k.name /\ ~ FileChild(k).dir
        /\ DirChild(k) \in Child /\ DirChild(k).name = k.name /\ DirChild(k).dir
    BY DEF Child, FileChild, DirChild
  <2> QED  BY <2>1, <2>2, <2>3, <2>4
<1>3. /\ [p[Len(p)] EXCEPT !.dir = FALSE] = FileChild(p[Len(p)])
      /\ [p[Len(p)] EXCEPT !.dir = TRUE] = DirChild(p[Len(p)])
  BY <1>1, <1>2
<1>4. /\ AsFile(p) = [p EXCEPT ![Len(p)] = [p[Len(p)] EXCEPT !.dir = FALSE]]
      /\ Slash(p) = [p EXCEPT ![Len(p)] = [p[Len(p)] EXCEPT !.dir = TRUE]]
  BY DEF AsFile, Slash, AsDir
<1> QED  BY <1>1, <1>3, <1>4

LEMMA ChildKinds ==
  ASSUME NEW k \in Child
  PROVE  /\ FileChild(k) \in Child /\ DirChild(k) \in Child
         /\ FileChild(k).name = k.name /\ DirChild(k).name = k.name
         /\ DirChild(k).dir /\ ~ FileChild(k).dir
         /\ FileChild(FileChild(k)) = FileChild(k) /\ DirChild(FileChild(k)) = DirChild(k)
         /\ k.dir => DirChild(k) = k
         /\ ~ k.dir => FileChild(k) = k
BY DEF Child, FileChild, DirChild

LEMMA Respelled ==
  ASSUME NEW p \in Seq(Child), p # Root
  PROVE  /\ AsFile(p) \in Seq(Child) /\ Slash(p) \in Seq(Child)
         /\ Len(AsFile(p)) = Len(p) /\ Len(Slash(p)) = Len(p)
         /\ Len(p) \in Nat /\ Len(p) >= 1 /\ p[Len(p)] \in Child
         /\ \A i \in 1 .. Len(p) - 1 : AsFile(p)[i] = p[i] /\ Slash(p)[i] = p[i]
         /\ AsFile(p)[Len(p)] = FileChild(p[Len(p)])
         /\ Slash(p)[Len(p)] = DirChild(p[Len(p)])
         /\ AsFile(p) # Root /\ Slash(p) # Root
<1>1. /\ Len(p) \in Nat /\ Len(p) >= 1 /\ p[Len(p)] \in Child
      /\ AsFile(p) = [p EXCEPT ![Len(p)] = FileChild(p[Len(p)])]
      /\ Slash(p) = [p EXCEPT ![Len(p)] = DirChild(p[Len(p)])]
      /\ FileChild(p[Len(p)]) \in Child /\ DirChild(p[Len(p)]) \in Child
  BY Spelled, ChildKinds
<1>2. /\ AsFile(p) \in Seq(Child) /\ Len(AsFile(p)) = Len(p)
      /\ \A i \in 1 .. Len(p) :
            AsFile(p)[i] = IF i = Len(p) THEN FileChild(p[Len(p)]) ELSE p[i]
  BY <1>1, ExceptSeq
<1>3. /\ Slash(p) \in Seq(Child) /\ Len(Slash(p)) = Len(p)
      /\ \A i \in 1 .. Len(p) :
            Slash(p)[i] = IF i = Len(p) THEN DirChild(p[Len(p)]) ELSE p[i]
  BY <1>1, ExceptSeq
<1>4. AsFile(p) # Root /\ Slash(p) # Root
  BY <1>1, <1>2, <1>3 DEF Root
<1> QED  BY <1>1, <1>2, <1>3, <1>4

LEMMA RespelledKind ==
  ASSUME NEW p \in Seq(Child), p # Root
  PROVE  ~ IsDir(AsFile(p)) /\ IsDir(Slash(p)) /\ Slash(AsFile(p)) = Slash(p)
<1> DEFINE file == AsFile(p)
           dir == Slash(p)
<1>1. /\ file \in Seq(Child) /\ dir \in Seq(Child) /\ file # Root /\ dir # Root
      /\ Len(file) = Len(p) /\ Len(dir) = Len(p) /\ Len(p) \in Nat /\ Len(p) >= 1
      /\ p[Len(p)] \in Child
      /\ \A i \in 1 .. Len(p) - 1 : file[i] = dir[i]
      /\ file[Len(p)] = FileChild(p[Len(p)])
      /\ dir[Len(p)] = DirChild(p[Len(p)])
  BY Respelled
<1>2. /\ DirChild(p[Len(p)]).dir /\ ~ FileChild(p[Len(p)]).dir
      /\ DirChild(FileChild(p[Len(p)])) = DirChild(p[Len(p)])
  BY <1>1, ChildKinds
<1> HIDE DEF file, dir
<1>3. ~ IsDir(file) /\ IsDir(dir)
  BY <1>1, <1>2 DEF IsDir
<1>4. /\ Slash(file) \in Seq(Child) /\ Len(Slash(file)) = Len(p)
      /\ \A i \in 1 .. Len(p) - 1 : Slash(file)[i] = file[i]
      /\ Slash(file)[Len(p)] = DirChild(file[Len(p)])
  BY <1>1, Respelled
<1>5. \A i \in 1 .. Len(p) : Slash(file)[i] = dir[i]
  BY <1>1, <1>2, <1>4
<1>6. Slash(file) = dir
  BY <1>1, <1>4, <1>5, SeqEqual
<1> QED  BY <1>3, <1>6 DEF file, dir

-----------------------------------------------------------------------------
(* Links *)

\* What the keys hold: a link is one of those that are stored or that clients
\* set, and where there is no key there is no index.
GoodValue == {v \in Value : /\ v.kind = "ptr" => v.ext \in LinkTargets
                            /\ v.kind = "absent" => v.kids = {}}

GoodDb(t) == t \in [Paths -> GoodValue]

LEMMA ValueAtType ==
  ASSUME NEW t, GoodDb(t), NEW p
  PROVE  ValueAt(t, p) \in GoodValue
<1>1. Absent \in GoodValue
  BY DEF Absent, Plain, GoodValue, Value, Kinds
<1> QED  BY <1>1 DEF ValueAt, GoodDb

\* A target of a link with the rest of a path is a path.
LEMMA TargetPaths ==
  ASSUME NEW u \in LinkTargets, NEW p \in Paths, NEW n \in 1 .. Len(p)
  PROVE  /\ u \in Paths /\ u # Root
         /\ Slash(u) \o SubSeq(p, n + 1, Len(p)) \in Paths
         /\ AsFile(Slash(u) \o SubSeq(p, n + 1, Len(p))) \in Paths
         /\ Slash(Slash(u) \o SubSeq(p, n + 1, Len(p))) \in Paths
BY ClosedAssumption DEF ClosedAssumption

LEMMA FirstLink ==
  ASSUME NEW t, GoodDb(t), NEW p \in Paths, Follows(t, p)
  PROVE  /\ Min(LinkDepths(t, p)) \in 1 .. Len(p)
         /\ ValueAt(t, AsFile(Ancestor(p, Min(LinkDepths(t, p))))).ext \in LinkTargets
<1> DEFINE D == LinkDepths(t, p)
<1>1. D \subseteq 1 .. Len(p) /\ D # {} /\ D \subseteq Nat
  BY PathSeq DEF LinkDepths, Follows
<1>2. Min(D) \in D
  BY <1>1, MinNat
<1>3. ValueAt(t, AsFile(Ancestor(p, Min(D)))).kind = "ptr"
  BY <1>2 DEF LinkDepths
<1>4. ValueAt(t, AsFile(Ancestor(p, Min(D)))) \in GoodValue
  BY ValueAtType
<1> QED  BY <1>1, <1>2, <1>3, <1>4 DEF GoodValue

LEMMA RootHasNoLink ==
  ASSUME NEW t
  PROVE  ~ Follows(t, Root)
BY DEF Follows, LinkDepths, Root

\* A pass of resolvePath leads from a path to a path below the root.
LEMMA PassPath ==
  ASSUME NEW t, GoodDb(t), NEW p \in Paths, Follows(t, p)
  PROVE  Pass(t, p) \in Paths \ {Root} /\ Slash(Pass(t, p)) \in Paths
<1> DEFINE n == Min(LinkDepths(t, p))
           u == ValueAt(t, AsFile(Ancestor(p, n))).ext
           rest == SubSeq(p, n + 1, Len(p))
           q == Slash(u) \o rest
<1>1. n \in 1 .. Len(p) /\ u \in LinkTargets
  BY FirstLink
<1>2. Pass(t, p) = IF rest = << >> THEN u ELSE AsFile(q)
  BY DEF Pass
<1> HIDE DEF n, u
<1>3. u \in Paths /\ u # Root /\ q \in Paths /\ AsFile(q) \in Paths /\ Slash(q) \in Paths
  BY <1>1, TargetPaths
<1>4. u \in Seq(Child) /\ p \in Seq(Child)
  BY <1>3, PathSeq
<1>5. Slash(u) \in Seq(Child) /\ Slash(u) # Root /\ Len(Slash(u)) \in Nat \ {0}
  BY <1>3, <1>4, Respelled
<1>6. rest \in Seq(Child)
  BY <1>1, <1>4, SubSeqProperties
<1>7. CASE rest = << >>
  <2>1. Slash(u) \o << >> = Slash(u)
    BY <1>5, ConcatEmptySeq
  <2> QED  BY <1>2, <1>3, <1>7, <2>1
<1>8. CASE rest # << >>
  <2>1. Len(q) = Len(Slash(u)) + Len(rest) /\ q \in Seq(Child) /\ Len(rest) \in Nat
    BY <1>5, <1>6, ConcatProperties
  <2>2. q # Root
    <3> HIDE DEF q, rest
    <3> QED  BY <1>5, <2>1 DEF Root
  <2>3. Slash(AsFile(q)) = Slash(q) /\ AsFile(q) # Root
    <3> HIDE DEF q, rest
    <3> QED  BY <2>1, <2>2, Respelled, RespelledKind
  <2> QED  BY <1>2, <1>3, <1>8, <2>3
<1> QED  BY <1>7, <1>8

LEMMA SlashDir ==
  ASSUME NEW p \in Seq(Child), p # Root, p[Len(p)].dir
  PROVE  Slash(p) = p
<1> DEFINE dir == Slash(p)
<1>1. /\ dir \in Seq(Child) /\ Len(dir) = Len(p) /\ Len(p) \in Nat /\ Len(p) >= 1
      /\ p[Len(p)] \in Child
      /\ \A i \in 1 .. Len(p) - 1 : dir[i] = p[i]
      /\ dir[Len(p)] = DirChild(p[Len(p)])
  BY Respelled
<1>2. DirChild(p[Len(p)]) = p[Len(p)]
  BY <1>1, ChildKinds
<1> HIDE DEF dir
<1>3. \A i \in 1 .. Len(p) : dir[i] = p[i]
  BY <1>1, <1>2
<1>4. dir = p
  BY <1>1, <1>3, SeqEqual
<1> QED  BY <1>4 DEF dir

LEMMA SlashConcat ==
  ASSUME NEW s \in Seq(Child), NEW r \in Seq(Child), r # Root
  PROVE  Slash(s \o r) = s \o Slash(r)
<1>1. /\ s \o r \in Seq(Child) /\ Len(s \o r) = Len(s) + Len(r)
      /\ \A i \in 1 .. Len(s) + Len(r) :
            (s \o r)[i] = IF i <= Len(s) THEN s[i] ELSE r[i - Len(s)]
  BY ConcatProperties
<1>2. /\ Slash(r) \in Seq(Child) /\ Len(Slash(r)) = Len(r) /\ Len(r) \in Nat /\ Len(r) >= 1
      /\ \A i \in 1 .. Len(r) - 1 : Slash(r)[i] = r[i]
      /\ Slash(r)[Len(r)] = DirChild(r[Len(r)])
  BY Respelled
<1>3. /\ s \o Slash(r) \in Seq(Child) /\ Len(s \o Slash(r)) = Len(s) + Len(r)
      /\ \A i \in 1 .. Len(s) + Len(r) :
            (s \o Slash(r))[i] = IF i <= Len(s) THEN s[i] ELSE Slash(r)[i - Len(s)]
  <2> DEFINE y == Slash(r)
  <2>1. y \in Seq(Child) /\ Len(y) = Len(r)
    BY <1>2
  <2> HIDE DEF y
  <2>2. /\ s \o y \in Seq(Child) /\ Len(s \o y) = Len(s) + Len(y)
        /\ \A i \in 1 .. Len(s) + Len(y) :
              (s \o y)[i] = IF i <= Len(s) THEN s[i] ELSE y[i - Len(s)]
    BY <2>1, ConcatProperties
  <2> QED  BY <2>1, <2>2 DEF y
<1> DEFINE q == s \o r
           w == s \o Slash(r)
           len == Len(s) + Len(r)
<1>4. Len(s) \in Nat /\ Len(r) \in Nat /\ len \in Nat /\ len >= 1 /\ Len(r) # 0
  BY <1>2
<1> HIDE DEF q, w
<1>5. q # Root /\ Len(q) = len /\ q \in Seq(Child)
  BY <1>1, <1>4 DEF Root, q
<1>6. /\ Slash(q) \in Seq(Child) /\ Len(Slash(q)) = len
      /\ \A i \in 1 .. len - 1 : Slash(q)[i] = q[i]
      /\ Slash(q)[len] = DirChild(q[len])
  BY <1>5, Respelled
<1>7. q[len] = r[Len(r)] /\ w[len] = Slash(r)[Len(r)]
  BY <1>1, <1>3, <1>4 DEF q, w
<1>8. Slash(q)[len] = w[len]
  BY <1>2, <1>6, <1>7
<1>9. \A i \in 1 .. len - 1 : q[i] = w[i]
  <2> TAKE i \in 1 .. len - 1
  <2>1. /\ q[i] = IF i <= Len(s) THEN s[i] ELSE r[i - Len(s)]
        /\ w[i] = IF i <= Len(s) THEN s[i] ELSE Slash(r)[i - Len(s)]
    BY <1>1, <1>3, <1>4 DEF q, w
  <2>2. i > Len(s) => i - Len(s) \in 1 .. Len(r) - 1
    BY <1>4
  <2> QED  BY <1>2, <1>4, <2>1, <2>2
<1>10. \A i \in 1 .. len : Slash(q)[i] = w[i]
  <2> HIDE DEF len
  <2> QED  BY <1>4, <1>6, <1>8, <1>9
<1>11. Slash(q) = w
  BY <1>3, <1>6, <1>10, SeqEqual DEF w
<1> QED  BY <1>11 DEF q, w

\* The end of the path of a directory, spelled as a file.
LEMMA FileTail ==
  ASSUME NEW d \in Seq(Child), NEW n \in 1 .. Len(d) - 1
  PROVE  /\ SubSeq(AsFile(d), n + 1, Len(d)) = AsFile(SubSeq(d, n + 1, Len(d)))
         /\ SubSeq(d, n + 1, Len(d)) \in Seq(Child)
         /\ SubSeq(d, n + 1, Len(d)) # Root
         /\ SubSeq(d, n + 1, Len(d))[Len(SubSeq(d, n + 1, Len(d)))] = d[Len(d)]
<1> DEFINE e == SubSeq(d, n + 1, Len(d))
           x == SubSeq(AsFile(d), n + 1, Len(d))
           k == Len(d) - n
<1>1. k \in Nat /\ k >= 1 /\ k \in 1 .. Len(d) /\ Len(d) \in Nat /\ n + k = Len(d) /\ d # Root
  BY DEF Root
<1>2. e \in Seq(Child) /\ Len(e) = k /\ \A i \in 1 .. k : e[i] = d[n + i]
  BY <1>1
<1>3. /\ AsFile(d) \in Seq(Child) /\ Len(AsFile(d)) = Len(d)
      /\ \A i \in 1 .. Len(d) - 1 : AsFile(d)[i] = d[i]
      /\ AsFile(d)[Len(d)] = FileChild(d[Len(d)])
  BY <1>1, Respelled
<1>4. x \in Seq(Child) /\ Len(x) = k /\ \A i \in 1 .. k : x[i] = AsFile(d)[n + i]
  <2> DEFINE y == AsFile(d)
  <2>1. y \in Seq(Child) /\ Len(y) = Len(d)
    BY <1>3
  <2> HIDE DEF y
  <2>2. /\ SubSeq(y, n + 1, Len(y)) \in Seq(Child) /\ Len(SubSeq(y, n + 1, Len(y))) = k
        /\ \A i \in 1 .. k : SubSeq(y, n + 1, Len(y))[i] = y[n + i]
    BY <1>1, <2>1
  <2> QED  BY <2>1, <2>2 DEF y
<1> HIDE DEF e, x
<1>5. e # Root
  BY <1>1, <1>2 DEF Root
<1>6. /\ AsFile(e) \in Seq(Child) /\ Len(AsFile(e)) = k
      /\ \A i \in 1 .. k - 1 : AsFile(e)[i] = e[i]
      /\ AsFile(e)[k] = FileChild(e[k])
  BY <1>2, <1>5, Respelled
<1>7. e[k] = d[Len(d)] /\ x[k] = AsFile(d)[Len(d)]
  BY <1>1, <1>2, <1>4
<1>8. AsFile(e)[k] = x[k]
  BY <1>3, <1>6, <1>7
<1>9. \A i \in 1 .. k - 1 : AsFile(e)[i] = x[i]
  <2> TAKE i \in 1 .. k - 1
  <2>1. i \in 1 .. k /\ n + i \in 1 .. Len(d) - 1
    BY <1>1
  <2>2. AsFile(e)[i] = d[n + i] /\ x[i] = AsFile(d)[n + i]
    BY <1>2, <1>4, <1>6, <2>1
  <2> QED  BY <1>3, <2>1, <2>2
<1>10. \A i \in 1 .. k : AsFile(e)[i] = x[i]
  BY <1>1, <1>8, <1>9
<1>11. AsFile(e) = x
  BY <1>4, <1>6, <1>10, SeqEqual
<1> QED  BY <1>2, <1>5, <1>7, <1>11 DEF e, x

\* The end of a path is that of its parent, and its last child.
LEMMA ParentTail ==
  ASSUME NEW p \in Paths, NEW n \in 1 .. Len(p) - 1
  PROVE  SubSeq(p, n + 1, Len(p)) = Append(SubSeq(Parent(p), n + 1, Len(p) - 1), Last(p))
<1> DEFINE m == Len(p) - 1
           x == SubSeq(p, n + 1, Len(p))
           y == SubSeq(Parent(p), n + 1, m)
<1>1. p \in Seq(Child) /\ m \in Nat /\ Len(p) = m + 1 /\ p # Root /\ n \in 1 .. m
  BY PathSeq DEF Root
<1>2. Parent(p) \in Seq(Child) /\ Len(Parent(p)) = m /\ \A i \in 1 .. m : Parent(p)[i] = p[i]
  <2>1. m \in 0 .. Len(p) /\ Parent(p) = Ancestor(p, m)
    BY <1>1 DEF Parent
  <2>2. Ancestor(p, m) \in Seq(Child)
    BY <2>1, AncestorPath, PathSeq
  <2> QED  BY <2>1, <2>2, AncestorSeq
<1> HIDE DEF m
<1>3. x \in Seq(Child) /\ Len(x) = m + 1 - n /\ \A i \in 1 .. m + 1 - n : x[i] = p[n + i]
  BY <1>1
<1>4. y \in Seq(Child) /\ Len(y) = m - n /\ \A i \in 1 .. m - n : y[i] = Parent(p)[n + i]
  BY <1>1, <1>2
<1> HIDE DEF x, y
<1>5. Last(p) = p[m + 1] /\ p[m + 1] \in Child
  BY <1>1 DEF Last
<1>6. \A i \in 1 .. m - n : y[i] = p[n + i]
  <2> TAKE i \in 1 .. m - n
  <2>1. n + i \in 1 .. m
    BY <1>1
  <2> QED  BY <1>2, <1>4, <2>1
<1> DEFINE z == Append(y, Last(p))
<1>7. /\ z \in Seq(Child) /\ Len(z) = Len(y) + 1 /\ \A i \in 1 .. Len(y) : z[i] = y[i]
      /\ z[Len(y) + 1] = p[m + 1]
  BY <1>4, <1>5, AppendProperties
<1> HIDE DEF z
<1>8. Len(z) = m + 1 - n
  BY <1>1, <1>4, <1>7
<1>9. \A i \in 1 .. m + 1 - n : x[i] = z[i]
  <2> TAKE i \in 1 .. m + 1 - n
  <2>1. CASE i = m + 1 - n
    BY <1>1, <1>3, <1>4, <1>7, <2>1
  <2>2. CASE i # m + 1 - n
    <3>1. i \in 1 .. m - n
      BY <1>1, <2>2
    <3> QED  BY <1>3, <1>4, <1>6, <1>7, <3>1
  <2> QED  BY <2>1, <2>2
<1>10. x = z
  BY <1>3, <1>7, <1>8, <1>9, SeqEqual
<1> QED  BY <1>10 DEF x, y, z, m

\* A pass of resolveParent leads to a path below the root as well.
LEMMA PassParentPath ==
  ASSUME NEW t, GoodDb(t), NEW p \in Paths, FollowsParent(t, p)
  PROVE  PassParent(t, p) \in Paths \ {Root}
<1> DEFINE d == Parent(p)
           a == AsFile(d)
           n == Min(LinkDepths(t, a))
           u == ValueAt(t, AsFile(Ancestor(a, n))).ext
           rest == SubSeq(a, n + 1, Len(a))
           end == SubSeq(p, n + 1, Len(p))
           m == Len(p) - 1
<1>1. d \in Paths /\ d # Root /\ p # Root
  <2>1. d # Root
    BY RootHasNoLink DEF FollowsParent, AsFile
  <2> QED  BY <2>1, ParentDir DEF Dirs, Parent
<1>2. m \in Nat /\ Len(p) = m + 1 /\ d \in Seq(Child) /\ Len(d) = m
  <2>1. m \in 0 .. Len(p) /\ Len(p) = m + 1 /\ d = Ancestor(p, m)
    BY <1>1, PathSeq DEF Parent
  <2> QED  BY <1>1, <2>1, AncestorSeq, PathSeq
<1>3. a \in Paths /\ Len(a) = m /\ Follows(t, a)
  BY <1>1, <1>2, Respelled, ClosedAssumption DEF ClosedAssumption, FollowsParent
<1>4. n \in 1 .. m /\ u \in LinkTargets
  BY <1>3, FirstLink
<1>5. PassParent(t, p) = Append(Slash(IF rest = << >> THEN u ELSE AsFile(Slash(u) \o rest)), Last(p))
  BY <1>3 DEF PassParent, Pass
<1>6. rest = SubSeq(a, n + 1, m)
  BY <1>3
<1> HIDE DEF n, u, m, rest
<1>7. u \in Paths /\ u # Root /\ Slash(u) \o end \in Paths
  <2>1. n \in 1 .. Len(p)
    BY <1>2, <1>4
  <2> HIDE DEF end
  <2>2. Slash(u) \o SubSeq(p, n + 1, Len(p)) \in Paths
    BY <1>4, <2>1, TargetPaths
  <2> QED  BY <1>4, <2>1, <2>2, TargetPaths DEF end
<1>8. Slash(u) \in Seq(Child) /\ Slash(u) # Root /\ Last(p) \in Child
  <2>1. u \in Seq(Child)
    BY <1>7, PathSeq
  <2> QED  BY <1>1, <1>7, <2>1, Respelled, ChildNameType DEF ChildName
<1> DEFINE e == SubSeq(d, n + 1, m)
<1>9. end = Append(e, Last(p)) /\ e \in Seq(Child)
  <2>1. n \in 1 .. Len(p) - 1
    BY <1>4 DEF m
  <2>2. end = Append(e, Last(p))
    BY <2>1, ParentTail DEF m
  <2> HIDE DEF end, d
  <2>3. e \in Seq(Child)
    BY <1>2, <1>4
  <2> QED  BY <2>2, <2>3
<1> HIDE DEF end, e
<1>10. Slash(IF rest = << >> THEN u ELSE AsFile(Slash(u) \o rest)) = Slash(u) \o e
  <2>1. CASE n = m
    <3>1. rest = << >> /\ e = << >>
      BY <1>2, <1>4, <1>6, <2>1, SubSeqEmpty DEF e
    <3>2. Slash(u) \o << >> = Slash(u)
      BY <1>8, ConcatEmptySeq
    <3> QED  BY <3>1, <3>2
  <2>2. CASE n # m
    <3>1. n \in 1 .. Len(d) - 1
      BY <1>2, <1>4, <2>2
    <3> HIDE DEF d
    <3>2. rest = AsFile(e) /\ e # Root /\ e[Len(e)] = d[Len(d)]
      BY <1>2, <1>6, <3>1, FileTail DEF e
    <3>3. e[Len(e)].dir
      <4>1. d \in Dirs
        BY ParentDir DEF d
      <4> QED  BY <1>1, <3>2, <4>1 DEF Dirs, IsDir
    <3>4. AsFile(e) \in Seq(Child) /\ AsFile(e) # Root /\ Slash(AsFile(e)) = e
      BY <1>9, <3>2, <3>3, Respelled, RespelledKind, SlashDir
    <3>5. Slash(u) \o rest \in Seq(Child) /\ Slash(u) \o rest # Root
      <4>1. /\ Slash(u) \o rest \in Seq(Child)
            /\ Len(Slash(u) \o rest) = Len(Slash(u)) + Len(rest)
        BY <1>8, <3>2, <3>4, ConcatProperties
      <4>2. Len(Slash(u)) \in Nat /\ Len(Slash(u)) # 0 /\ Len(rest) \in Nat
        BY <1>8, <3>2, <3>4 DEF Root
      <4>3. Len(Slash(u) \o rest) # 0
        BY <4>1, <4>2
      <4> QED  BY <4>1, <4>3 DEF Root
    <3>6. Slash(AsFile(Slash(u) \o rest)) = Slash(Slash(u) \o rest)
      BY <3>5, RespelledKind
    <3>7. Slash(Slash(u) \o rest) = Slash(u) \o Slash(rest)
      BY <1>8, <3>2, <3>4, SlashConcat
    <3>8. rest # << >>
      BY <3>2, <3>4 DEF Root
    <3> QED  BY <3>2, <3>4, <3>6, <3>7, <3>8
  <2> QED  BY <2>1, <2>2
<1>11. Append(Slash(u) \o e, Last(p)) = Slash(u) \o end
  <2> DEFINE s == Slash(u)
             k == Last(p)
  <2>1. s \in Seq(Child) /\ k \in Child
    BY <1>8
  <2> HIDE DEF s, k
  <2>2. Append(s \o e, k) = (s \o e) \o <<k>>
    BY <1>9, <2>1, ConcatProperties, AppendIsConcat
  <2>3. Append(e, k) = e \o <<k>>
    BY <1>9, <2>1, AppendIsConcat
  <2>4. (s \o e) \o <<k>> = s \o (e \o <<k>>)
    <3>1. <<k>> \in Seq(Child)
      BY <2>1
    <3> QED  BY <1>9, <2>1, <3>1, ConcatAssociative
  <2> QED  BY <1>9, <2>2, <2>3, <2>4 DEF s, k
<1>12. Append(Slash(u) \o e, Last(p)) # Root
  BY <1>8, <1>9, ConcatProperties, AppendProperties DEF Root
<1> QED  BY <1>5, <1>7, <1>10, <1>11, <1>12

-----------------------------------------------------------------------------
(* Frames *)

GoodWrite == [key: Paths, val: GoodValue]

\* What a client asks Set to store.
Given == {w \in GoodWrite : w.key # Root /\ w.val.kind # "absent"}

\* The fields of a frame.
GoodFields ==
    [call: Calls, pc: Places, pairs: Seq(Given), keys: Seq(Paths \ {Root}), path: Paths,
     target: Paths, dir: Dirs, at: Nat \ {0}, touched: SUBSET (Paths \ {Root}),
     todo: SUBSET Dirs, pipe: Seq(GoodWrite), doomed: SUBSET Paths]

\* Which calls come to which places, and with what.
OnRoute(f) ==
    /\ f.pc # "returned" => f.path # Root
    /\ f.call = "Mkindex" => Slash(f.path) \in Paths
    /\ f.call = "Set" /\ f.pc \in {"resolve", "ensure"} => f.pairs # << >>
    /\ f.call = "Del" /\ f.pc \in {"resolveParent", "remove"} => f.keys # << >>
    /\ f.pc = "remove" => f.call = "Del"
    /\ f.pc \in {"link", "unlist"} => f.call = "DelTree"
    /\ f.pc = "target" => f.call = "ExtIndex"
    /\ f.pc = "mkindex" => f.call = "Mkindex"
    /\ f.pc = "parents" => f.call = "Set"
    /\ f.pc = "ensure" => f.call \in {"Set", "ExtIndex"}
    /\ f.pc = "resolve" => f.call \in {"Set", "DelTree", "Mkindex"}
    /\ f.pc = "resolveParent" => f.call \in {"Del", "ExtIndex", "DelExtIndex"}
    /\ f.call # "DelTree" \/ f.pc # "exec" => f.doomed = {}

GoodFrame == {f \in GoodFields : OnRoute(f)}

\* The frames below the innermost wait in MkIndexRecursive, and those above the
\* outermost are calls of Set.
Shape(s) == \A i \in 1 .. Len(s) - 1 : s[i].call = "Set" /\ s[i + 1].pc = "ensure"

GoodStack == {s \in Seq(GoodFrame) : Shape(s)}

StackInv == stack \in [Clients -> GoodStack]

TypeInv == GoodDb(db) /\ StackInv /\ undisturbed \subseteq Clients

LEMMA GoodFrameIsFrame == GoodFrame \subseteq Frame
<1>1. GoodWrite \subseteq Write /\ Given \subseteq Write
  BY DEF GoodWrite, GoodValue, Given, Write
<1>2. Seq(GoodWrite) \subseteq Seq(Write) /\ Seq(Given) \subseteq Seq(Write)
  BY <1>1
<1> QED  BY <1>2 DEF GoodFrame, GoodFields, Frame

LEMMA TypeInvTypeOK == TypeInv => TypeOK
<1>1. Seq(GoodFrame) \subseteq Seq(Frame) /\ GoodStack \subseteq Seq(GoodFrame)
  BY GoodFrameIsFrame DEF GoodStack
<1> QED  BY <1>1 DEF TypeInv, TypeOK, GoodDb, StackInv, GoodValue

-----------------------------------------------------------------------------
(* Stacks *)

LEMMA Replaced ==
  ASSUME NEW S, NEW s \in Seq(S), s # << >>, NEW f \in S
  PROVE  /\ <<f>> \o Tail(s) \in Seq(S) /\ Len(<<f>> \o Tail(s)) = Len(s)
         /\ (<<f>> \o Tail(s))[1] = f
         /\ \A i \in 2 .. Len(s) : (<<f>> \o Tail(s))[i] = s[i]
<1>1. /\ Tail(s) \in Seq(S) /\ Len(Tail(s)) = Len(s) - 1 /\ Len(s) \in Nat \ {0}
      /\ \A i \in 1 .. Len(s) - 1 : Tail(s)[i] = s[i + 1]
  OBVIOUS
<1>2. <<f>> \in Seq(S) /\ Len(<<f>>) = 1 /\ <<f>>[1] = f
  OBVIOUS
<1> DEFINE one == <<f>>
           tail == Tail(s)
           new == one \o tail
<1> HIDE DEF one, tail
<1>3. /\ new \in Seq(S) /\ Len(new) = 1 + Len(tail)
      /\ \A i \in 1 .. 1 + Len(tail) : new[i] = IF i <= 1 THEN one[i] ELSE tail[i - 1]
  BY <1>1, <1>2, ConcatProperties DEF one, tail
<1> HIDE DEF new
<1>4. new[1] = f /\ Len(new) = Len(s)
  BY <1>1, <1>2, <1>3 DEF one, tail
<1>5. \A i \in 2 .. Len(s) : new[i] = s[i]
  <2> TAKE i \in 2 .. Len(s)
  <2>1. new[i] = tail[i - 1] /\ i - 1 \in 1 .. Len(s) - 1
    BY <1>1, <1>3 DEF tail
  <2> QED  BY <1>1, <2>1 DEF tail
<1> QED  BY <1>3, <1>4, <1>5 DEF new, one, tail

LEMMA BusyTop ==
  ASSUME StackInv, NEW c \in Clients, Busy(c)
  PROVE  /\ stack[c] \in GoodStack /\ stack[c] # << >> /\ Len(stack[c]) \in Nat \ {0}
         /\ Top(c) = stack[c][1] /\ Top(c) \in GoodFrame /\ Top(c).pc # "returned"
BY DEF StackInv, Busy, Top, GoodStack

\* A stack whose innermost frame has become another one.
LEMMA ReplacedStack ==
  ASSUME NEW s \in GoodStack, s # << >>, NEW f \in GoodFrame,
         f.call = "Set" \/ s[1].call # "Set"
  PROVE  <<f>> \o Tail(s) \in GoodStack
<1> DEFINE new == <<f>> \o Tail(s)
<1>1. /\ new \in Seq(GoodFrame) /\ Len(new) = Len(s) /\ new[1] = f
      /\ \A i \in 2 .. Len(s) : new[i] = s[i]
  BY Replaced DEF GoodStack
<1> HIDE DEF new
<1>2. Len(s) \in Nat
  BY DEF GoodStack
<1>3. ASSUME NEW i \in 1 .. Len(s) - 1
      PROVE  new[i].call = "Set" /\ new[i + 1].pc = "ensure"
  <2>1. s[i].call = "Set" /\ s[i + 1].pc = "ensure"
    BY DEF GoodStack, Shape
  <2>2. i + 1 \in 2 .. Len(s) /\ (i = 1 \/ i \in 2 .. Len(s))
    BY <1>2
  <2> QED  BY <1>1, <2>1, <2>2
<1> QED  BY <1>1, <1>3 DEF GoodStack, Shape, new

LEMMA TailStack ==
  ASSUME NEW s \in GoodStack, s # << >>
  PROVE  Tail(s) \in GoodStack
<1>1. /\ Tail(s) \in Seq(GoodFrame) /\ Len(Tail(s)) = Len(s) - 1 /\ Len(s) \in Nat
      /\ \A i \in 1 .. Len(s) - 1 : Tail(s)[i] = s[i + 1]
  BY DEF GoodStack
<1>2. ASSUME NEW i \in 1 .. Len(Tail(s)) - 1
      PROVE  Tail(s)[i].call = "Set" /\ Tail(s)[i + 1].pc = "ensure"
  <2>1. i + 1 \in 1 .. Len(s) - 1 /\ i \in 1 .. Len(s) - 1
    BY <1>1
  <2>2. s[i + 1].call = "Set" /\ s[i + 1 + 1].pc = "ensure"
    BY <2>1 DEF GoodStack, Shape
  <2> QED  BY <1>1, <2>1, <2>2
<1> QED  BY <1>1, <1>2 DEF GoodStack, Shape

LEMMA SingleStack ==
  ASSUME NEW f \in GoodFrame
  PROVE  <<f>> \in GoodStack /\ << >> \in GoodStack
BY DEF GoodStack, Shape

\* A stack with one more frame.
LEMMA NestedStack ==
  ASSUME NEW s \in GoodStack, s # << >>, NEW f \in GoodFrame, NEW g \in GoodFrame,
         f.call = "Set" \/ s[1].call # "Set", f.pc = "ensure", g.call = "Set"
  PROVE  <<g, f>> \o Tail(s) \in GoodStack
<1> DEFINE old == <<f>> \o Tail(s)
<1>1. old \in GoodStack /\ old \in Seq(GoodFrame) /\ Len(old) \in Nat /\ old[1] = f
  BY ReplacedStack, Replaced DEF GoodStack
<1>2. <<g, f>> \o Tail(s) = <<g>> \o old
  <2> DEFINE a == <<g>>
             b == <<f>>
             t == Tail(s)
  <2>1. <<g, f>> = a \o b
    OBVIOUS
  <2>2. t \in Seq(GoodFrame) /\ a \in Seq(GoodFrame) /\ b \in Seq(GoodFrame)
    BY DEF GoodStack
  <2> HIDE DEF a, b, t
  <2>3. (a \o b) \o t = a \o (b \o t)
    BY <2>2, ConcatAssociative
  <2> QED  BY <2>1, <2>3 DEF a, b, t
<1> HIDE DEF old
<1> DEFINE one == <<g>>
           new == one \o old
<1>3. one \in Seq(GoodFrame) /\ Len(one) = 1 /\ one[1] = g
  OBVIOUS
<1> HIDE DEF one
<1>4. /\ new \in Seq(GoodFrame) /\ Len(new) = 1 + Len(old)
      /\ \A i \in 1 .. 1 + Len(old) : new[i] = IF i <= 1 THEN one[i] ELSE old[i - 1]
  BY <1>1, <1>3, ConcatProperties
<1> HIDE DEF new
<1>5. ASSUME NEW i \in 1 .. Len(new) - 1
      PROVE  new[i].call = "Set" /\ new[i + 1].pc = "ensure"
  <2>1. i \in 1 .. Len(old) /\ new[i + 1] = old[i]
    BY <1>1, <1>4
  <2>2. CASE i = 1
    BY <1>1, <1>3, <1>4, <2>1, <2>2
  <2>3. CASE i # 1
    <3>1. i - 1 \in 1 .. Len(old) - 1 /\ new[i] = old[i - 1] /\ i - 1 + 1 = i
      BY <1>1, <1>4, <2>1, <2>3
    <3>2. old[i - 1].call = "Set" /\ old[i - 1 + 1].pc = "ensure"
      BY <1>1, <3>1 DEF GoodStack, Shape
    <3> QED  BY <2>1, <3>1, <3>2
  <2> QED  BY <2>2, <2>3
<1> QED  BY <1>2, <1>4, <1>5 DEF GoodStack, Shape, new, one

LEMMA EnterInv ==
  ASSUME TypeInv, NEW c \in Clients, NEW f \in GoodFrame, Enter(c, f)
  PROVE  TypeInv'
<1>1. <<f>> \in GoodStack
  BY SingleStack
<1>2. StackInv'
  BY <1>1 DEF TypeInv, StackInv, Enter
<1> QED  BY <1>2 DEF TypeInv, Enter

LEMMA ContinueInv ==
  ASSUME TypeInv, NEW c \in Clients, Busy(c), NEW f \in GoodFrame,
         f.call = "Set" \/ Top(c).call # "Set", Continue(c, f)
  PROVE  StackInv'
<1>1. stack[c] \in GoodStack /\ stack[c] # << >> /\ stack[c][1] = Top(c)
  BY BusyTop DEF TypeInv
<1>2. <<f>> \o Tail(stack[c]) \in GoodStack
  BY <1>1, ReplacedStack
<1> QED  BY <1>2 DEF TypeInv, StackInv, Continue

LEMMA NestInv ==
  ASSUME TypeInv, NEW c \in Clients, Busy(c), NEW f \in GoodFrame, NEW g \in GoodFrame,
         f.call = "Set" \/ Top(c).call # "Set", f.pc = "ensure", g.call = "Set",
         Nest(c, f, g)
  PROVE  StackInv'
<1>1. stack[c] \in GoodStack /\ stack[c] # << >> /\ stack[c][1] = Top(c)
  BY BusyTop DEF TypeInv
<1>2. <<g, f>> \o Tail(stack[c]) \in GoodStack
  BY <1>1, NestedStack
<1> QED  BY <1>2 DEF TypeInv, StackInv, Nest

LEMMA BlankType ==
  /\ Blank \in GoodFields
  /\ Blank.pc = "returned" /\ Blank.path = Root /\ Blank.doomed = {} /\ Blank.at = 1
  /\ Blank.touched = {} /\ Blank.pipe = << >>
<1>1. Root \in Paths /\ Root \in Dirs
  BY PathsAssumption DEF PathsAssumption, Dirs, IsDir
<1>2. << >> \in Seq(Given) /\ << >> \in Seq(Paths \ {Root}) /\ << >> \in Seq(GoodWrite)
  OBVIOUS
<1>3. "none" \in Calls /\ "returned" \in Places /\ 1 \in Nat \ {0}
  BY DEF Calls, Places
<1>4. Blank \in GoodFields
  BY <1>1, <1>2, <1>3 DEF GoodFields, Blank
<1> QED  BY <1>4 DEF Blank

LEMMA BlankFrame ==
  ASSUME NEW call \in Calls, NEW T \in SUBSET (Paths \ {Root})
  PROVE  [Blank EXCEPT !.call = call, !.touched = T] \in GoodFrame
<1> DEFINE f == [Blank EXCEPT !.call = call, !.touched = T]
<1>1. f \in GoodFields /\ f.pc = "returned" /\ f.path = Root /\ f.doomed = {}
  BY BlankType DEF GoodFields
<1>2. Slash(Root) \in Paths
  BY PathsAssumption DEF PathsAssumption, Slash
<1> HIDE DEF f
<1>3. OnRoute(f)
  BY <1>1, <1>2 DEF OnRoute
<1> QED  BY <1>1, <1>3 DEF GoodFrame, f

LEMMA ReturnInv ==
  ASSUME TypeInv, NEW c \in Clients, Busy(c), Return(c, Top(c))
  PROVE  StackInv'
<1> DEFINE done == [Blank EXCEPT !.call = Top(c).call, !.touched = Top(c).touched]
<1>1. stack[c] \in GoodStack /\ stack[c] # << >> /\ Top(c) \in GoodFrame
  BY BusyTop DEF TypeInv
<1>2. Tail(stack[c]) \in GoodStack
  BY <1>1, TailStack
<1>3. Top(c).call \in Calls /\ Top(c).touched \in SUBSET (Paths \ {Root})
  BY <1>1 DEF GoodFrame, GoodFields
<1>4. done \in GoodFrame
  BY <1>3, BlankFrame
<1> HIDE DEF done
<1>5. <<done>> \in GoodStack
  BY <1>4, SingleStack
<1> QED  BY <1>2, <1>5 DEF TypeInv, StackInv, Return, done

LEMMA AbortInv ==
  ASSUME TypeInv, NEW c \in Clients, Abort(c)
  PROVE  StackInv'
<1>1. << >> \in GoodStack
  BY DEF GoodStack, Shape
<1> QED  BY <1>1 DEF TypeInv, StackInv, Abort

LEMMA UnchangedInv ==
  ASSUME TypeInv, StackInv', UNCHANGED <<db, undisturbed>>
  PROVE  TypeInv'
BY DEF TypeInv

-----------------------------------------------------------------------------
(* What is written *)

LEMMA ValueFields ==
  ASSUME NEW v \in GoodValue
  PROVE  /\ v.kind \in Kinds /\ v.kids \in SUBSET Child /\ v.ext \in Paths \cup {NoPath}
         /\ v.kind = "ptr" => v.ext \in LinkTargets
         /\ v.kind = "absent" => v.kids = {}
         /\ v.kind # "absent" => \A kids \in SUBSET Child :
               /\ [v EXCEPT !.kids = kids] \in GoodValue
               /\ [v EXCEPT !.kids = kids].kind = v.kind
               /\ [v EXCEPT !.kids = kids].kids = kids
BY DEF GoodValue, Value

LEMMA PlainValues ==
  /\ Absent \in GoodValue /\ Absent.kind = "absent" /\ Absent.kids = {}
  /\ \A kids \in SUBSET Child :
        IndexOf(kids) \in GoodValue /\ IndexOf(kids).kind = "index" /\ IndexOf(kids).kids = kids
  /\ \A p \in Paths : ExtIndexOf({}, p) \in GoodValue
<1>1. Absent \in GoodValue /\ Absent.kind = "absent" /\ Absent.kids = {}
  BY DEF Absent, Plain, GoodValue, Value, Kinds
<1>2. ASSUME NEW kids \in SUBSET Child
      PROVE  IndexOf(kids) \in GoodValue /\ IndexOf(kids).kind = "index" /\ IndexOf(kids).kids = kids
  BY DEF IndexOf, GoodValue, Value, Kinds
<1>3. ASSUME NEW p \in Paths
      PROVE  ExtIndexOf({}, p) \in GoodValue
  BY DEF ExtIndexOf, GoodValue, Value, Kinds
<1> QED  BY <1>1, <1>2, <1>3

LEMMA WithNamesType ==
  ASSUME NEW t, GoodDb(t), NEW d, NEW names \in SUBSET Child
  PROVE  /\ WithNames(t, d, names) \in GoodValue
         /\ WithNames(t, d, names).kids = names \cup DirIndex(t, d)
<1> DEFINE v == ValueAt(t, d)
<1>1. v \in GoodValue
  BY ValueAtType
<1>2. CASE v.kind = "absent"
  <2>1. DirIndex(t, d) = {} /\ WithNames(t, d, names) = IndexOf(names)
    <3> HIDE DEF v
    <3>1. v.kids = {}
      BY <1>1, <1>2, ValueFields
    <3> QED  BY <1>2, <3>1 DEF v, WithNames, DirIndex
  <2> QED  BY <2>1, PlainValues
<1>3. CASE v.kind # "absent"
  <2> DEFINE kids == v.kids \cup names
  <2>1. kids \in SUBSET Child
    BY <1>1, ValueFields
  <2>2. WithNames(t, d, names) = [v EXCEPT !.kids = kids]
    BY <1>3 DEF WithNames
  <2>3. DirIndex(t, d) = v.kids
    BY DEF DirIndex
  <2> HIDE DEF v, kids
  <2>4. /\ WithNames(t, d, names) \in GoodValue
        /\ WithNames(t, d, names).kids = kids
    BY <1>1, <1>3, <2>1, <2>2, ValueFields
  <2> QED  BY <2>3, <2>4 DEF kids
<1> QED  BY <1>2, <1>3

LEMMA WriteType ==
  ASSUME NEW p \in Paths, NEW v \in GoodValue
  PROVE  /\ [key |-> p, val |-> v] \in GoodWrite
         /\ <<[key |-> p, val |-> v]>> \in Seq(GoodWrite)
BY DEF GoodWrite

LEMMA DelKeyType ==
  ASSUME NEW p \in Paths
  PROVE  DelKey(p) \in GoodWrite /\ <<DelKey(p)>> \in Seq(GoodWrite)
BY PlainValues, WriteType DEF DelKey

LEMMA AddChildType ==
  ASSUME NEW t, GoodDb(t), NEW p \in Paths \ {Root}
  PROVE  AddChild(t, p) \in Seq(GoodWrite)
<1>1. Parent(p) \in Paths /\ {ChildName(p)} \in SUBSET Child
  BY ParentDir, ChildNameType DEF Dirs
<1>2. WithNames(t, Parent(p), {ChildName(p)}) \in GoodValue
  BY <1>1, WithNamesType
<1> QED  BY <1>1, <1>2, WriteType DEF AddChild

LEMMA RemoveChildType ==
  ASSUME NEW t, GoodDb(t), NEW p \in Paths
  PROVE  RemoveChild(t, p) \in Seq(GoodWrite)
<1> DEFINE v == ValueAt(t, Parent(p))
           left == {k \in v.kids : k.name # ChildName(p).name}
<1>1. Parent(p) \in Paths /\ v \in GoodValue
  BY ParentDir, ValueAtType DEF Dirs
<1>2. left \in SUBSET Child
  BY <1>1, ValueFields
<1>3. v.kind # "absent" => [v EXCEPT !.kids = left] \in GoodValue
  <2> HIDE DEF v, left
  <2> QED  BY <1>1, <1>2, ValueFields
<1> QED  BY <1>1, <1>3, WriteType DEF RemoveChild

LEMMA NamedType ==
  ASSUME NEW t, GoodDb(t), NEW d \in Paths, NEW S \in SUBSET (Paths \ {Root})
  PROVE  Named(t, d, S) \in GoodWrite
<1> DEFINE names == {ChildName(p) : p \in {q \in S : Parent(q) = d}}
<1>1. names \in SUBSET Child
  BY ChildNameType
<1>2. WithNames(t, d, names) \in GoodValue
  BY <1>1, WithNamesType
<1> QED  BY <1>2, WriteType DEF Named

-----------------------------------------------------------------------------
(* Every step keeps the types *)

LEMMA TopType ==
  ASSUME TypeInv, NEW c \in Clients, Busy(c)
  PROVE  Top(c) \in GoodFrame /\ Top(c) \in GoodFields /\ OnRoute(Top(c)) /\ Top(c).path # Root
         /\ Top(c).path \in Paths
<1>1. Top(c) \in GoodFrame /\ Top(c).pc # "returned"
  BY BusyTop DEF TypeInv
<1> QED  BY <1>1 DEF GoodFrame, GoodFields, OnRoute

LEMMA FollowLinkType ==
  ASSUME TypeInv, NEW c \in Clients, FollowLink(c)
  PROVE  TypeInv'
<1> DEFINE f == Top(c)
<1>1. Busy(c) /\ GoodDb(db) /\ UNCHANGED <<db, undisturbed>>
  BY DEF FollowLink, At, TypeInv
<1>2. f \in GoodFields /\ OnRoute(f) /\ f.path \in Paths
  BY <1>1, TopType
<1>3. ASSUME NEW q \in Paths \ {Root}, f.pc = "resolveParent" \/ Slash(q) \in Paths,
             Continue(c, [f EXCEPT !.path = q]), f.pc \in {"resolve", "resolveParent"}
      PROVE  TypeInv'
  <2> DEFINE g == [f EXCEPT !.path = q]
  <2>1. g \in GoodFields /\ g.call = f.call
    BY <1>2 DEF GoodFields
  <2>2. OnRoute(g)
    BY <1>2, <1>3 DEF OnRoute, GoodFields
  <2>3. g \in GoodFrame /\ (g.call = "Set" \/ f.call # "Set")
    BY <2>1, <2>2 DEF GoodFrame
  <2> HIDE DEF g
  <2> QED  BY <1>1, <1>3, <2>3, ContinueInv, UnchangedInv DEF g
<1>4. CASE At(c, "resolve") /\ Follows(db, f.path) /\ Continue(c, [f EXCEPT !.path = Pass(db, @)])
  <2>1. Pass(db, f.path) \in Paths \ {Root} /\ Slash(Pass(db, f.path)) \in Paths
    BY <1>1, <1>2, <1>4, PassPath
  <2> QED  BY <1>3, <1>4, <2>1 DEF At
<1>5. CASE /\ At(c, "resolveParent") /\ FollowsParent(db, f.path)
           /\ Continue(c, [f EXCEPT !.path = PassParent(db, @)])
  <2>1. PassParent(db, f.path) \in Paths \ {Root}
    BY <1>1, <1>2, <1>5, PassParentPath
  <2> QED  BY <1>3, <1>5, <2>1 DEF At
<1> QED  BY <1>4, <1>5 DEF FollowLink

\* The directory that MkIndexRecursive is at.
LEMMA EnsureDir ==
  ASSUME TypeInv, NEW c \in Clients, At(c, "ensure"), Top(c).at <= Len(Top(c).dir)
  PROVE  /\ Ancestor(Top(c).dir, Top(c).at) \in Paths \ {Root}
         /\ Ancestor(Top(c).dir, Top(c).at) \in Dirs
<1> DEFINE f == Top(c)
<1>1. f.dir \in Dirs /\ f.dir \in Paths /\ f.at \in Nat \ {0}
  BY TopType DEF At, GoodFields, Dirs
<1> HIDE DEF f
<1>2. f.at \in 0 .. Len(f.dir) /\ f.at # 0
  BY <1>1, PathSeq DEF f
<1>3. Ancestor(f.dir, f.at) \in Dirs /\ Len(Ancestor(f.dir, f.at)) = f.at
  BY <1>1, <1>2, AncestorDir, AncestorSeq
<1>4. Ancestor(f.dir, f.at) # Root
  BY <1>2, <1>3 DEF Root
<1> QED  BY <1>3, <1>4 DEF f, Dirs

LEMMA NextDirFrame ==
  ASSUME TypeInv, NEW c \in Clients, At(c, "ensure")
  PROVE  /\ [Top(c) EXCEPT !.at = @ + 1] \in GoodFrame
         /\ [Top(c) EXCEPT !.at = @ + 1].call = Top(c).call
         /\ [Top(c) EXCEPT !.at = @ + 1].pc = "ensure"
<1> DEFINE f == Top(c)
           g == [f EXCEPT !.at = @ + 1]
<1>1. f \in GoodFields /\ OnRoute(f) /\ f.pc = "ensure"
  BY TopType DEF At
<1>2. f.at + 1 \in Nat \ {0}
  BY <1>1 DEF GoodFields
<1>3. g \in GoodFields /\ g.call = f.call /\ g.pc = f.pc
  BY <1>1, <1>2 DEF GoodFields
<1>4. OnRoute(g)
  BY <1>1 DEF OnRoute, GoodFields
<1> QED  BY <1>1, <1>3, <1>4 DEF GoodFrame

LEMMA EnsureListedType ==
  ASSUME TypeInv, NEW c \in Clients, EnsureListed(c)
  PROVE  TypeInv'
<1> DEFINE g == [Top(c) EXCEPT !.at = @ + 1]
<1>1. /\ At(c, "ensure") /\ Busy(c) /\ UNCHANGED <<db, undisturbed>>
      /\ Continue(c, g)
  BY DEF EnsureListed, At
<1>2. g \in GoodFrame /\ g.call = Top(c).call
  BY <1>1, NextDirFrame
<1> HIDE DEF g
<1> QED  BY <1>1, <1>2, ContinueInv, UnchangedInv

LEMMA SetFrameType ==
  ASSUME NEW batch \in Seq(Given), batch # << >>
  PROVE  /\ SetFrame(batch) \in GoodFrame /\ SetFrame(batch).call = "Set"
         /\ SetFrame(batch).pc = "resolve" /\ SetFrame(batch).pairs = batch
         /\ SetFrame(batch).path = Head(batch).key
<1> DEFINE f == SetFrame(batch)
<1>1. Head(batch) \in Given
  OBVIOUS
<1>2. Head(batch).key \in Paths \ {Root}
  BY <1>1 DEF Given, GoodWrite
<1>3. f \in GoodFields
  <2>1. "Set" \in Calls /\ "resolve" \in Places /\ Head(batch).key \in Paths
    BY <1>2 DEF Calls, Places
  <2> QED  BY <2>1, BlankType DEF SetFrame, GoodFields
<1>4. /\ f.call = "Set" /\ f.pc = "resolve" /\ f.path = Head(batch).key /\ f.pairs = batch
      /\ f.doomed = {}
  BY BlankType DEF SetFrame, GoodFields
<1> HIDE DEF f
<1>5. OnRoute(f)
  BY <1>2, <1>4 DEF OnRoute
<1> QED  BY <1>3, <1>4, <1>5 DEF GoodFrame, f

LEMMA EnsureMissingType ==
  ASSUME TypeInv, NEW c \in Clients, EnsureMissing(c)
  PROVE  TypeInv'
<1> DEFINE f == Top(c)
           d == Ancestor(f.dir, f.at)
           w == [key |-> d, val |-> IndexOf({})]
           make == SetFrame(<<w>>)
           g == [f EXCEPT !.at = @ + 1]
<1>1. /\ At(c, "ensure") /\ Busy(c) /\ UNCHANGED <<db, undisturbed>>
      /\ f.at <= Len(f.dir)
      /\ Abort(c) \/ Nest(c, g, make)
  BY DEF EnsureMissing, At
<1>2. g \in GoodFrame /\ g.call = f.call /\ g.pc = "ensure"
  BY <1>1, NextDirFrame
<1>3. w \in Given
  <2>1. d \in Paths \ {Root}
    BY <1>1, EnsureDir
  <2>2. IndexOf({}) \in GoodValue /\ IndexOf({}).kind = "index"
    BY PlainValues
  <2> HIDE DEF d
  <2> QED  BY <2>1, <2>2 DEF Given, GoodWrite
<1> HIDE DEF w
<1>4. make \in GoodFrame /\ make.call = "Set"
  <2>1. <<w>> \in Seq(Given) /\ <<w>> # << >>
    BY <1>3
  <2> QED  BY <2>1, SetFrameType
<1> HIDE DEF make, g
<1>5. CASE Abort(c)
  BY <1>1, <1>5, AbortInv, UnchangedInv
<1>6. CASE Nest(c, g, make)
  BY <1>1, <1>2, <1>4, <1>6, NestInv, UnchangedInv
<1> QED  BY <1>1, <1>5, <1>6

LEMMA EnsuringFrame ==
  ASSUME NEW f \in GoodFrame, NEW dir \in Dirs, f.call \in {"Set", "ExtIndex"}, f.path # Root,
         f.pc \in {"resolve", "resolveParent"}
  PROVE  /\ Ensuring(f, dir) \in GoodFrame /\ Ensuring(f, dir).call = f.call
         /\ Ensuring(f, dir).pc = "ensure" /\ Ensuring(f, dir).dir = dir
         /\ Ensuring(f, dir).at = 1 /\ Ensuring(f, dir).path = f.path
         /\ Ensuring(f, dir).pairs = f.pairs /\ Ensuring(f, dir).pipe = f.pipe
         /\ Ensuring(f, dir).touched = f.touched
<1> DEFINE g == Ensuring(f, dir)
<1>1. f \in GoodFields /\ OnRoute(f)
  BY DEF GoodFrame
<1>2. "ensure" \in Places /\ 1 \in Nat \ {0}
  BY DEF Places
<1>3. /\ g \in GoodFields /\ g.call = f.call /\ g.pc = "ensure" /\ g.dir = dir /\ g.at = 1
      /\ g.path = f.path /\ g.pairs = f.pairs /\ g.pipe = f.pipe /\ g.touched = f.touched
      /\ g.doomed = f.doomed
  BY <1>1, <1>2 DEF Ensuring, GoodFields
<1> HIDE DEF g
<1>4. OnRoute(g)
  BY <1>1, <1>3 DEF OnRoute
<1> QED  BY <1>3, <1>4 DEF GoodFrame, g

LEMMA SetPrepareType ==
  ASSUME TypeInv, NEW c \in Clients, SetPrepare(c)
  PROVE  TypeInv'
<1> DEFINE f == Top(c)
           g == Ensuring(f, Parent(f.path))
<1>1. /\ Busy(c) /\ f.call = "Set" /\ f.pc = "resolve" /\ UNCHANGED <<db, undisturbed>>
      /\ Abort(c) \/ Continue(c, g)
  BY DEF SetPrepare, Resolved, At
<1>2. f \in GoodFrame /\ f.path \in Paths /\ f.path # Root
  BY <1>1, TopType
<1>3. g \in GoodFrame /\ g.call = "Set"
  BY <1>1, <1>2, ParentDir, EnsuringFrame
<1> HIDE DEF g
<1> QED  BY <1>1, <1>3, AbortInv, ContinueInv, UnchangedInv

LEMMA SetQueueType ==
  ASSUME TypeInv, NEW c \in Clients, SetQueue(c)
  PROVE  TypeInv'
<1> DEFINE f == Top(c)
           rest == Tail(f.pairs)
           w == [key |-> f.path, val |-> Head(f.pairs).val]
           queued == [f EXCEPT !.pairs = rest, !.pipe = Append(@, w),
                               !.touched = @ \cup {f.path}]
           last == [queued EXCEPT !.pc = "parents",
                                  !.todo = {Parent(p) : p \in queued.touched}]
           next == [queued EXCEPT !.pc = "resolve", !.path = Head(rest).key]
<1>1. /\ Busy(c) /\ f.call = "Set" /\ f.pc = "ensure" /\ UNCHANGED <<db, undisturbed>>
      /\ \/ Abort(c)
         \/ rest = << >> /\ Continue(c, last)
         \/ rest # << >> /\ Continue(c, next)
  BY DEF SetQueue, Ensured, At
<1>2. f \in GoodFields /\ OnRoute(f) /\ f.path \in Paths \ {Root}
  BY <1>1, TopType
<1>3. f.pairs \in Seq(Given) /\ f.pairs # << >> /\ f.pipe \in Seq(GoodWrite)
      /\ f.touched \in SUBSET (Paths \ {Root}) /\ f.doomed = {}
  BY <1>1, <1>2 DEF GoodFields, OnRoute
<1>4. rest \in Seq(Given) /\ Head(f.pairs) \in Given
  BY <1>3
<1>5. w \in GoodWrite
  BY <1>2, <1>4 DEF Given, GoodWrite
<1> HIDE DEF w, rest
<1>6. Append(f.pipe, w) \in Seq(GoodWrite) /\ f.touched \cup {f.path} \in SUBSET (Paths \ {Root})
  BY <1>2, <1>3, <1>5
<1>7. /\ queued \in GoodFields /\ queued.call = f.call /\ queued.path = f.path
      /\ queued.pairs = rest /\ queued.doomed = {}
  BY <1>2, <1>3, <1>4, <1>6 DEF GoodFields
<1> HIDE DEF queued
<1>8. CASE rest = << >> /\ Continue(c, last)
  <2>1. "parents" \in Places /\ {Parent(p) : p \in queued.touched} \in SUBSET Dirs
    BY <1>7, ParentDir DEF Places, GoodFields
  <2>2. /\ last \in GoodFields /\ last.call = "Set" /\ last.pc = "parents"
        /\ last.path = f.path /\ last.doomed = {}
    BY <1>1, <1>7, <2>1 DEF GoodFields
  <2> HIDE DEF last
  <2>3. OnRoute(last)
    BY <1>2, <2>2 DEF OnRoute
  <2> QED  BY <1>1, <1>8, <2>2, <2>3, ContinueInv, UnchangedInv DEF GoodFrame
<1>9. CASE rest # << >> /\ Continue(c, next)
  <2>1. Head(rest) \in Given
    BY <1>4, <1>9
  <2>2. "resolve" \in Places /\ Head(rest).key \in Paths \ {Root}
    BY <2>1 DEF Places, Given, GoodWrite
  <2>3. /\ next \in GoodFields /\ next.call = "Set" /\ next.pc = "resolve"
        /\ next.path = Head(rest).key /\ next.doomed = {} /\ next.pairs = rest
    BY <1>1, <1>7, <2>2 DEF GoodFields
  <2> HIDE DEF next
  <2>4. OnRoute(next)
    BY <1>9, <2>2, <2>3 DEF OnRoute
  <2> QED  BY <1>1, <1>9, <2>3, <2>4, ContinueInv, UnchangedInv DEF GoodFrame
<1> HIDE DEF last, next
<1> QED  BY <1>1, <1>8, <1>9, AbortInv, UnchangedInv

LEMMA SetParentType ==
  ASSUME TypeInv, NEW c \in Clients, SetParent(c)
  PROVE  TypeInv'
<1> DEFINE f == Top(c)
           g(d) == [f EXCEPT !.todo = @ \ {d},
                             !.pipe = Append(@, Named(db, d, f.touched)),
                             !.pc = IF f.todo = {d} THEN "exec" ELSE @]
<1>1. /\ Busy(c) /\ f.pc = "parents" /\ UNCHANGED <<db, undisturbed>> /\ GoodDb(db)
      /\ \E d \in f.todo : Abort(c) \/ Continue(c, g(d))
  BY DEF SetParent, At, TypeInv
<1>2. f \in GoodFields /\ OnRoute(f) /\ f.call = "Set" /\ f.path # Root
  BY <1>1, TopType DEF OnRoute
<1>3. /\ f.todo \in SUBSET Dirs /\ f.pipe \in Seq(GoodWrite) /\ f.doomed = {}
      /\ f.touched \in SUBSET (Paths \ {Root})
  BY <1>1, <1>2 DEF GoodFields, OnRoute
<1>4. ASSUME NEW d \in f.todo, Continue(c, g(d))
      PROVE  TypeInv'
  <2> DEFINE w == Named(db, d, f.touched)
             pc == IF f.todo = {d} THEN "exec" ELSE f.pc
  <2>1. w \in GoodWrite
    BY <1>1, <1>3, NamedType DEF Dirs
  <2>2. pc \in {"parents", "exec"} /\ pc \in Places
    BY <1>1 DEF Places
  <2> HIDE DEF w, pc
  <2>3. Append(f.pipe, w) \in Seq(GoodWrite) /\ f.todo \ {d} \in SUBSET Dirs
    BY <1>3, <2>1
  <2>4. g(d) = [f EXCEPT !.todo = f.todo \ {d}, !.pipe = Append(f.pipe, w), !.pc = pc]
    BY DEF w, pc
  <2>5. /\ g(d) \in GoodFields /\ g(d).call = "Set" /\ g(d).pc = pc
        /\ g(d).path = f.path /\ g(d).doomed = {}
    <3> HIDE DEF g
    <3> QED  BY <1>2, <1>3, <2>2, <2>3, <2>4 DEF GoodFields
  <2> HIDE DEF g
  <2>6. OnRoute(g(d))
    BY <1>2, <2>2, <2>5 DEF OnRoute
  <2> QED  BY <1>1, <1>4, <2>5, <2>6, ContinueInv, UnchangedInv DEF GoodFrame
<1> QED  BY <1>1, <1>4, AbortInv, UnchangedInv

LEMMA DelFrameType ==
  ASSUME NEW keys \in Seq(Paths \ {Root}), keys # << >>
  PROVE  /\ DelFrame(keys) \in GoodFrame /\ DelFrame(keys).call = "Del"
         /\ DelFrame(keys).pc = "resolveParent" /\ DelFrame(keys).keys = keys
         /\ DelFrame(keys).touched = {} /\ DelFrame(keys).pipe = << >>
<1> DEFINE f == DelFrame(keys)
<1>1. Head(keys) \in Paths \ {Root}
  OBVIOUS
<1>2. "Del" \in Calls /\ "resolveParent" \in Places
  BY DEF Calls, Places
<1>3. /\ f \in GoodFields /\ f.call = "Del" /\ f.pc = "resolveParent" /\ f.keys = keys
      /\ f.path = Head(keys) /\ f.touched = {} /\ f.pipe = << >> /\ f.doomed = {}
  BY <1>1, <1>2, BlankType DEF DelFrame, GoodFields
<1> HIDE DEF f
<1>4. OnRoute(f)
  BY <1>1, <1>3 DEF OnRoute
<1> QED  BY <1>3, <1>4 DEF GoodFrame, f

\* The commands that Del queues for one key.
LEMMA GoneType ==
  ASSUME NEW t, GoodDb(t), NEW p \in Paths, NEW pipe \in Seq(GoodWrite)
  PROVE  LET gone == IF IsDir(p) THEN <<DelKey(AsFile(p)), DelKey(p)>> ELSE <<DelKey(p)>>
         IN  gone \in Seq(GoodWrite) /\ pipe \o gone \o RemoveChild(t, p) \in Seq(GoodWrite)
<1> DEFINE gone == IF IsDir(p) THEN <<DelKey(AsFile(p)), DelKey(p)>> ELSE <<DelKey(p)>>
<1>1. DelKey(AsFile(p)) \in GoodWrite /\ DelKey(p) \in GoodWrite
  BY DelKeyType, ClosedAssumption DEF ClosedAssumption
<1>2. gone \in Seq(GoodWrite)
  BY <1>1
<1>3. RemoveChild(t, p) \in Seq(GoodWrite)
  BY RemoveChildType
<1> HIDE DEF gone
<1>4. pipe \o gone \in Seq(GoodWrite)
  BY <1>2
<1>5. (pipe \o gone) \o RemoveChild(t, p) \in Seq(GoodWrite)
  BY <1>3, <1>4
<1> QED  BY <1>2, <1>5 DEF gone

LEMMA DelCheckType ==
  ASSUME TypeInv, NEW c \in Clients, DelCheck(c)
  PROVE  TypeInv'
<1> DEFINE f == Top(c)
           g == [f EXCEPT !.pc = "remove"]
<1>1. /\ Busy(c) /\ f.pc = "resolveParent" /\ f.call = "Del"
      /\ UNCHANGED <<db, undisturbed>>
      /\ Abort(c) \/ Continue(c, g)
  BY DEF DelCheck, ResolvedParent, At
<1>2. f \in GoodFields /\ OnRoute(f)
  BY <1>1, TopType
<1>3. /\ g \in GoodFields /\ g.call = "Del" /\ g.pc = "remove" /\ g.path = f.path
      /\ g.keys = f.keys /\ g.doomed = f.doomed
  BY <1>1, <1>2 DEF GoodFields, Places
<1> HIDE DEF g
<1>4. g \in GoodFrame
  BY <1>1, <1>2, <1>3 DEF OnRoute, GoodFrame
<1> QED  BY <1>1, <1>4, AbortInv, ContinueInv, UnchangedInv

LEMMA DelQueueType ==
  ASSUME TypeInv, NEW c \in Clients, DelQueue(c)
  PROVE  TypeInv'
<1> DEFINE f == Top(c)
           p == f.path
           rest == Tail(f.keys)
           gone == IF IsDir(p) THEN <<DelKey(AsFile(p)), DelKey(p)>> ELSE <<DelKey(p)>>
           pipe == f.pipe \o gone \o RemoveChild(db, p)
           queued == [f EXCEPT !.keys = rest, !.pipe = pipe, !.touched = @ \cup {p}]
           last == [queued EXCEPT !.pc = "exec"]
           next == [queued EXCEPT !.pc = "resolveParent", !.path = Head(rest)]
<1>1. /\ Busy(c) /\ f.pc = "remove" /\ UNCHANGED <<db, undisturbed>>
      /\ \/ Abort(c)
         \/ rest = << >> /\ Continue(c, last)
         \/ rest # << >> /\ Continue(c, next)
  BY DEF DelQueue, Removed, At
<1>2. f \in GoodFields /\ OnRoute(f) /\ p \in Paths \ {Root} /\ GoodDb(db) /\ f.call = "Del"
  BY <1>1, TopType DEF TypeInv, OnRoute
<1>3. f.keys \in Seq(Paths \ {Root}) /\ f.keys # << >> /\ f.pipe \in Seq(GoodWrite)
      /\ f.touched \in SUBSET (Paths \ {Root}) /\ f.doomed = {}
  BY <1>1, <1>2 DEF GoodFields, OnRoute
<1>4. rest \in Seq(Paths \ {Root})
  BY <1>3
<1>5. pipe \in Seq(GoodWrite)
  BY <1>2, <1>3, GoneType
<1> HIDE DEF pipe, rest, p
<1>6. f.touched \cup {p} \in SUBSET (Paths \ {Root})
  BY <1>2, <1>3
<1>7. /\ queued \in GoodFields /\ queued.call = f.call /\ queued.path = f.path
      /\ queued.pc = f.pc /\ queued.keys = rest /\ queued.doomed = {}
  BY <1>2, <1>3, <1>4, <1>5, <1>6 DEF GoodFields
<1> HIDE DEF queued
<1>8. CASE rest = << >> /\ Continue(c, last)
  <2>1. /\ last \in GoodFields /\ last.call = "Del" /\ last.pc = "exec"
        /\ last.path = f.path /\ last.doomed = {}
    BY <1>2, <1>7 DEF GoodFields, Places
  <2> HIDE DEF last
  <2>2. OnRoute(last)
    BY <1>2, <2>1 DEF OnRoute, p
  <2> QED  BY <1>1, <1>2, <1>8, <2>1, <2>2, ContinueInv, UnchangedInv DEF GoodFrame
<1>9. CASE rest # << >> /\ Continue(c, next)
  <2>1. Head(rest) \in Paths \ {Root}
    BY <1>4, <1>9
  <2>2. /\ next \in GoodFields /\ next.call = "Del" /\ next.pc = "resolveParent"
        /\ next.path = Head(rest) /\ next.doomed = {} /\ next.keys = rest
    BY <1>2, <1>7, <2>1 DEF GoodFields, Places
  <2> HIDE DEF next
  <2>3. OnRoute(next)
    BY <1>9, <2>1, <2>2 DEF OnRoute
  <2> QED  BY <1>1, <1>2, <1>9, <2>2, <2>3, ContinueInv, UnchangedInv DEF GoodFrame
<1> HIDE DEF last, next
<1> QED  BY <1>1, <1>8, <1>9, AbortInv, UnchangedInv

LEMMA DelTreeLinkType ==
  ASSUME TypeInv, NEW c \in Clients, DelTreeLink(c)
  PROVE  TypeInv'
<1> DEFINE f == Top(c)
           g == [f EXCEPT !.pc = "resolve"]
           del == DelFrame(<<f.path>>)
<1>1. /\ Busy(c) /\ f.pc = "link" /\ UNCHANGED <<db, undisturbed>>
      /\ Continue(c, del) \/ Continue(c, g)
  BY DEF DelTreeLink, At
<1>2. f \in GoodFields /\ OnRoute(f) /\ f.call = "DelTree" /\ f.path \in Paths \ {Root}
  BY <1>1, TopType DEF OnRoute
<1>3. del \in GoodFrame
  <2>1. <<f.path>> \in Seq(Paths \ {Root}) /\ <<f.path>> # << >>
    BY <1>2
  <2> QED  BY <2>1, DelFrameType
<1>4. g \in GoodFrame
  <2>1. /\ g \in GoodFields /\ g.call = f.call /\ g.pc = "resolve" /\ g.path = f.path
        /\ g.doomed = f.doomed
    BY <1>2 DEF GoodFields, Places
  <2> HIDE DEF g
  <2>2. OnRoute(g)
    BY <1>1, <1>2, <2>1 DEF OnRoute
  <2> QED  BY <2>1, <2>2 DEF GoodFrame
<1> HIDE DEF g, del
<1> QED  BY <1>1, <1>2, <1>3, <1>4, ContinueInv, UnchangedInv

LEMMA DelTreeScanType ==
  ASSUME TypeInv, NEW c \in Clients, DelTreeScan(c)
  PROVE  TypeInv'
<1> DEFINE f == Top(c)
           doomed == {q \in Keys(db) : Matches(q, f.path)} \ {f.path}
           g == [f EXCEPT !.pc = "exec", !.touched = {f.path}, !.pipe = <<DelKey(f.path)>>,
                          !.doomed = doomed]
<1>1. /\ Busy(c) /\ f.pc = "resolve" /\ f.call = "DelTree" /\ UNCHANGED <<db, undisturbed>>
      /\ Continue(c, g)
  BY DEF DelTreeScan, Resolved, At
<1>2. f \in GoodFields /\ OnRoute(f) /\ f.path \in Paths \ {Root}
  BY <1>1, TopType
<1>3. /\ doomed \in SUBSET Paths /\ <<DelKey(f.path)>> \in Seq(GoodWrite)
      /\ {f.path} \in SUBSET (Paths \ {Root}) /\ "exec" \in Places
  BY <1>2, DelKeyType DEF Keys, Places
<1> HIDE DEF doomed
<1>4. g \in GoodFields /\ g.call = f.call /\ g.pc = "exec" /\ g.path = f.path
  BY <1>2, <1>3 DEF GoodFields
<1> HIDE DEF g
<1>5. OnRoute(g)
  BY <1>1, <1>2, <1>4 DEF OnRoute
<1> QED  BY <1>1, <1>4, <1>5, ContinueInv, UnchangedInv DEF GoodFrame

LEMMA DelTreeUnlistType ==
  ASSUME TypeInv, NEW c \in Clients, DelTreeUnlist(c)
  PROVE  TypeInv'
<1> DEFINE f == Top(c)
           pipe == RemoveChild(db, f.path)
           g == [f EXCEPT !.pc = "exec", !.at = 2, !.pipe = pipe]
<1>1. /\ Busy(c) /\ f.pc = "unlist" /\ UNCHANGED <<db, undisturbed>> /\ GoodDb(db)
      /\ Abort(c) \/ Continue(c, g)
  BY DEF DelTreeUnlist, At, TypeInv
<1>2. f \in GoodFields /\ OnRoute(f) /\ f.call = "DelTree" /\ f.path \in Paths \ {Root}
  BY <1>1, TopType DEF OnRoute
<1>3. pipe \in Seq(GoodWrite) /\ "exec" \in Places /\ 2 \in Nat \ {0}
  BY <1>1, <1>2, RemoveChildType DEF Places
<1> HIDE DEF pipe
<1>4. g \in GoodFields /\ g.call = f.call /\ g.pc = "exec" /\ g.path = f.path
  BY <1>2, <1>3 DEF GoodFields
<1> HIDE DEF g
<1>5. OnRoute(g)
  BY <1>1, <1>2, <1>4 DEF OnRoute
<1> QED  BY <1>1, <1>2, <1>4, <1>5, AbortInv, ContinueInv, UnchangedInv DEF GoodFrame

LEMMA MkindexPrepareType ==
  ASSUME TypeInv, NEW c \in Clients, MkindexPrepare(c)
  PROVE  TypeInv'
<1> DEFINE f == Top(c)
           g == [f EXCEPT !.pc = "mkindex"]
<1>1. /\ Busy(c) /\ f.pc = "resolve" /\ f.call = "Mkindex" /\ UNCHANGED <<db, undisturbed>>
      /\ Continue(c, g)
  BY DEF MkindexPrepare, Resolved, At
<1>2. f \in GoodFields /\ OnRoute(f) /\ f.path # Root
  BY <1>1, TopType
<1>3. /\ g \in GoodFields /\ g.call = f.call /\ g.pc = "mkindex" /\ g.path = f.path
      /\ g.doomed = f.doomed
  BY <1>2 DEF GoodFields, Places
<1> HIDE DEF g
<1>4. OnRoute(g)
  BY <1>1, <1>2, <1>3 DEF OnRoute
<1> QED  BY <1>1, <1>3, <1>4, ContinueInv, UnchangedInv DEF GoodFrame

\* The directory that Mkindex is at, which has the spelling of one even where
\* the resolved path has not.
LEMMA MkindexDir ==
  ASSUME NEW p \in Paths, Slash(p) \in Paths, NEW n \in 1 .. Len(p)
  PROVE  Slash(Ancestor(p, n)) \in Paths \ {Root}
<1>1. p \in Seq(Child) /\ Len(p) \in Nat /\ Ancestor(p, n) \in Paths
  BY PathSeq, AncestorPath
<1>2. Len(Ancestor(p, n)) = n /\ Ancestor(p, n) \in Seq(Child)
  BY <1>1, AncestorSeq, PathSeq
<1>3. Ancestor(p, n) # Root
  BY <1>2 DEF Root
<1>4. Slash(Ancestor(p, n)) # Root
  BY <1>2, <1>3, Respelled
<1>5. CASE n = Len(p)
  <2>1. \A i \in 1 .. Len(p) : Ancestor(p, n)[i] = p[i]
    BY <1>5, AncestorSeq
  <2>2. Ancestor(p, n) = p
    BY <1>1, <1>2, <1>5, <2>1, SeqEqual
  <2> QED  BY <1>4, <2>2
<1>6. CASE n # Len(p)
  <2>1. Ancestor(p, n) \in Dirs
    BY <1>1, <1>6, AncestorDir
  <2>2. Ancestor(p, n)[Len(Ancestor(p, n))].dir
    BY <1>3, <2>1 DEF Dirs, IsDir
  <2>3. Slash(Ancestor(p, n)) = Ancestor(p, n)
    BY <1>2, <1>3, <2>2, SlashDir
  <2> QED  BY <1>1, <1>4, <2>3
<1> QED  BY <1>5, <1>6

LEMMA MkindexNextType ==
  ASSUME TypeInv, NEW c \in Clients, MkindexNext(c)
  PROVE  TypeInv'
<1> DEFINE f == Top(c)
           cur == Slash(Ancestor(f.path, f.at))
           pipe == AddChild(db, cur)
           on == [f EXCEPT !.at = @ + 1]
           add == [f EXCEPT !.pc = "exec", !.at = @ + 1, !.pipe = pipe]
<1>1. /\ Busy(c) /\ f.pc = "mkindex" /\ UNCHANGED <<db, undisturbed>> /\ GoodDb(db)
      /\ \/ Return(c, f)
         \/ Continue(c, on)
         \/ Abort(c)
         \/ ~ (f.at > Len(f.path)) /\ Continue(c, add)
  BY DEF MkindexNext, At, TypeInv
<1>2. /\ f \in GoodFields /\ OnRoute(f) /\ f.call = "Mkindex" /\ f.path \in Paths \ {Root}
      /\ Slash(f.path) \in Paths /\ f.at \in Nat \ {0} /\ f.doomed = {}
  BY <1>1, TopType DEF OnRoute, GoodFields
<1>3. f.at + 1 \in Nat \ {0}
  BY <1>2
<1>4. CASE Return(c, f)
  BY <1>1, <1>4, ReturnInv, UnchangedInv
<1>5. CASE Continue(c, on)
  <2>1. /\ on \in GoodFields /\ on.call = f.call /\ on.pc = f.pc /\ on.path = f.path
        /\ on.doomed = f.doomed
    BY <1>2, <1>3 DEF GoodFields
  <2> HIDE DEF on
  <2>2. OnRoute(on)
    BY <1>1, <1>2, <2>1 DEF OnRoute
  <2> QED  BY <1>1, <1>2, <1>5, <2>1, <2>2, ContinueInv, UnchangedInv DEF GoodFrame
<1>6. CASE ~ (f.at > Len(f.path)) /\ Continue(c, add)
  <2>1. cur \in Paths \ {Root}
    <3>1. f.at \in 1 .. Len(f.path)
      BY <1>2, <1>6, PathSeq
    <3> QED  BY <1>2, <3>1, MkindexDir
  <2>2. pipe \in Seq(GoodWrite) /\ "exec" \in Places
    BY <1>1, <2>1, AddChildType DEF Places
  <2> HIDE DEF pipe
  <2>3. /\ add \in GoodFields /\ add.call = f.call /\ add.pc = "exec" /\ add.path = f.path
        /\ add.doomed = f.doomed
    BY <1>2, <1>3, <2>2 DEF GoodFields
  <2> HIDE DEF add
  <2>4. OnRoute(add)
    BY <1>1, <1>2, <2>3 DEF OnRoute
  <2> QED  BY <1>1, <1>2, <1>6, <2>3, <2>4, ContinueInv, UnchangedInv DEF GoodFrame
<1> QED  BY <1>1, <1>4, <1>5, <1>6, AbortInv, UnchangedInv

LEMMA ExtIndexTargetType ==
  ASSUME TypeInv, NEW c \in Clients, ExtIndexTarget(c)
  PROVE  TypeInv'
<1> DEFINE f == Top(c)
           g == [f EXCEPT !.pc = "resolveParent"]
<1>1. /\ Busy(c) /\ f.pc = "target" /\ UNCHANGED <<db, undisturbed>>
      /\ Abort(c) \/ Continue(c, g)
  BY DEF ExtIndexTarget, At
<1>2. f \in GoodFields /\ OnRoute(f) /\ f.call = "ExtIndex" /\ f.path # Root
  BY <1>1, TopType DEF OnRoute
<1>3. /\ g \in GoodFields /\ g.call = f.call /\ g.pc = "resolveParent" /\ g.path = f.path
      /\ g.doomed = f.doomed
  BY <1>2 DEF GoodFields, Places
<1> HIDE DEF g
<1>4. OnRoute(g)
  BY <1>1, <1>2, <1>3 DEF OnRoute
<1> QED  BY <1>1, <1>2, <1>3, <1>4, AbortInv, ContinueInv, UnchangedInv DEF GoodFrame

LEMMA ExtIndexPrepareType ==
  ASSUME TypeInv, NEW c \in Clients, ExtIndexPrepare(c)
  PROVE  TypeInv'
<1> DEFINE f == Top(c)
           g == Ensuring(f, Parent(f.path))
<1>1. /\ Busy(c) /\ f.pc = "resolveParent" /\ f.call = "ExtIndex"
      /\ UNCHANGED <<db, undisturbed>> /\ Continue(c, g)
  BY DEF ExtIndexPrepare, ResolvedParent, At
<1>2. f \in GoodFrame /\ f.path \in Paths \ {Root}
  BY <1>1, TopType
<1>3. g \in GoodFrame /\ g.call = "ExtIndex"
  BY <1>1, <1>2, ParentDir, EnsuringFrame
<1> HIDE DEF g
<1> QED  BY <1>1, <1>3, ContinueInv, UnchangedInv

LEMMA ExtIndexQueueType ==
  ASSUME TypeInv, NEW c \in Clients, ExtIndexQueue(c)
  PROVE  TypeInv'
<1> DEFINE f == Top(c)
           bind == [key |-> f.path, val |-> ExtIndexOf({}, f.target)]
           pipe == <<bind>> \o AddChild(db, f.path)
           g == [f EXCEPT !.pc = "exec", !.touched = {f.path}, !.pipe = pipe]
<1>1. /\ Busy(c) /\ f.pc = "ensure" /\ f.call = "ExtIndex" /\ UNCHANGED <<db, undisturbed>>
      /\ GoodDb(db)
      /\ Abort(c) \/ Continue(c, g)
  BY DEF ExtIndexQueue, Ensured, At, TypeInv
<1>2. f \in GoodFields /\ OnRoute(f) /\ f.path \in Paths \ {Root} /\ f.target \in Paths
  BY <1>1, TopType DEF GoodFields
<1>3. pipe \in Seq(GoodWrite)
  <2>1. <<bind>> \in Seq(GoodWrite)
    BY <1>2, PlainValues, WriteType
  <2>2. AddChild(db, f.path) \in Seq(GoodWrite)
    BY <1>1, <1>2, AddChildType
  <2> HIDE DEF bind
  <2> QED  BY <2>1, <2>2
<1>4. "exec" \in Places /\ {f.path} \in SUBSET (Paths \ {Root})
  BY <1>2 DEF Places
<1> HIDE DEF pipe
<1>5. /\ g \in GoodFields /\ g.call = f.call /\ g.pc = "exec" /\ g.path = f.path
      /\ g.doomed = f.doomed
  BY <1>2, <1>3, <1>4 DEF GoodFields
<1> HIDE DEF g
<1>6. OnRoute(g)
  BY <1>1, <1>2, <1>5 DEF OnRoute
<1> QED  BY <1>1, <1>5, <1>6, AbortInv, ContinueInv, UnchangedInv DEF GoodFrame

LEMMA DelExtQueueType ==
  ASSUME TypeInv, NEW c \in Clients, DelExtQueue(c)
  PROVE  TypeInv'
<1> DEFINE f == Top(c)
           p == IF ValueAt(db, AsFile(f.path)).kind = "ptr" THEN AsFile(f.path) ELSE f.path
           pipe == <<DelKey(p)>> \o RemoveChild(db, p)
           g == [f EXCEPT !.pc = "exec", !.touched = {p}, !.pipe = pipe]
<1>1. /\ Busy(c) /\ f.pc = "resolveParent" /\ f.call = "DelExtIndex"
      /\ UNCHANGED <<db, undisturbed>> /\ GoodDb(db)
      /\ Abort(c) \/ Continue(c, g)
  BY DEF DelExtQueue, ResolvedParent, At, TypeInv
<1>2. f \in GoodFields /\ OnRoute(f) /\ f.path \in Paths \ {Root}
  BY <1>1, TopType
<1>3. p \in Paths \ {Root}
  BY <1>2, PathSeq, Respelled, ClosedAssumption DEF ClosedAssumption
<1> HIDE DEF p
<1>4. pipe \in Seq(GoodWrite)
  <2>1. <<DelKey(p)>> \in Seq(GoodWrite) /\ RemoveChild(db, p) \in Seq(GoodWrite)
    BY <1>1, <1>3, DelKeyType, RemoveChildType
  <2> QED  BY <2>1
<1>5. "exec" \in Places /\ {p} \in SUBSET (Paths \ {Root})
  BY <1>3 DEF Places
<1> HIDE DEF pipe
<1>6. /\ g \in GoodFields /\ g.call = f.call /\ g.pc = "exec" /\ g.path = f.path
      /\ g.doomed = f.doomed
  BY <1>2, <1>4, <1>5 DEF GoodFields
<1> HIDE DEF g
<1>7. OnRoute(g)
  BY <1>1, <1>2, <1>6 DEF OnRoute
<1> QED  BY <1>1, <1>6, <1>7, AbortInv, ContinueInv, UnchangedInv DEF GoodFrame

LEMMA ExecType ==
  ASSUME TypeInv, NEW c \in Clients, ExecCommand(c) \/ ExecDoomed(c)
  PROVE  TypeInv'
<1> DEFINE f == Top(c)
<1>1. Busy(c) /\ f.pc = "exec" /\ GoodDb(db) /\ undisturbed' = undisturbed \cap {c}
  BY DEF ExecCommand, ExecDoomed, At, TypeInv
<1>2. f \in GoodFields /\ OnRoute(f)
  BY <1>1, TopType
<1>3. undisturbed' \subseteq Clients
  BY <1>1 DEF TypeInv
<1>4. CASE ExecCommand(c)
  <2> DEFINE g == [f EXCEPT !.pipe = Tail(@)]
             w == Head(f.pipe)
  <2>1. Continue(c, g) /\ db' = [db EXCEPT ![w.key] = w.val] /\ f.pipe # << >>
    BY <1>4 DEF ExecCommand
  <2>2. f.pipe \in Seq(GoodWrite)
    BY <1>2 DEF GoodFields
  <2>3. Tail(f.pipe) \in Seq(GoodWrite) /\ w \in GoodWrite
    BY <2>1, <2>2
  <2> HIDE DEF w
  <2>4. g \in GoodFields /\ g.call = f.call /\ OnRoute(g)
    BY <1>2, <2>3 DEF GoodFields, OnRoute
  <2>5. GoodDb(db')
    BY <1>1, <2>1, <2>3 DEF GoodDb, GoodWrite
  <2>6. StackInv'
    <3> HIDE DEF g
    <3> QED  BY <1>1, <2>1, <2>4, ContinueInv DEF GoodFrame
  <2> QED  BY <1>3, <2>5, <2>6 DEF TypeInv
<1>5. CASE ExecDoomed(c)
  <2>1. PICK q \in f.doomed : /\ db' = [db EXCEPT ![q] = Absent]
                              /\ Continue(c, [f EXCEPT !.doomed = @ \ {q}])
    BY <1>5 DEF ExecDoomed
  <2> DEFINE g == [f EXCEPT !.doomed = @ \ {q}]
  <2>2. g \in GoodFields /\ g.call = f.call /\ OnRoute(g)
    BY <1>2 DEF GoodFields, OnRoute
  <2>3. GoodDb(db')
    BY <1>1, <2>1, PlainValues DEF GoodDb
  <2>4. StackInv'
    <3> HIDE DEF g
    <3>1. Continue(c, g)
      BY <2>1 DEF g
    <3> QED  BY <1>1, <2>2, <3>1, ContinueInv DEF GoodFrame
  <2> QED  BY <1>3, <2>3, <2>4 DEF TypeInv
<1> QED  BY <1>4, <1>5

LEMMA ExecDoneType ==
  ASSUME TypeInv, NEW c \in Clients, ExecDone(c)
  PROVE  TypeInv'
<1> DEFINE f == Top(c)
           g(pc) == [f EXCEPT !.pc = pc]
<1>1. /\ Busy(c) /\ f.pc = "exec" /\ f.doomed = {} /\ UNCHANGED <<db, undisturbed>>
      /\ \/ f.call = "DelTree" /\ Continue(c, g("unlist"))
         \/ f.call = "Mkindex" /\ Continue(c, g("mkindex"))
         \/ Return(c, f)
  BY DEF ExecDone, At
<1>2. f \in GoodFields /\ OnRoute(f) /\ f.path # Root
  BY <1>1, TopType
<1>3. CASE f.call = "DelTree" /\ Continue(c, g("unlist"))
  <2>1. g("unlist") \in GoodFields /\ g("unlist").call = "DelTree"
    BY <1>2, <1>3 DEF GoodFields, Places
  <2>2. OnRoute(g("unlist"))
    BY <1>1, <1>2, <1>3 DEF OnRoute, GoodFields
  <2> QED  BY <1>1, <1>3, <2>1, <2>2, ContinueInv, UnchangedInv DEF GoodFrame
<1>4. CASE f.call = "Mkindex" /\ Continue(c, g("mkindex"))
  <2>1. g("mkindex") \in GoodFields /\ g("mkindex").call = "Mkindex"
    BY <1>2, <1>4 DEF GoodFields, Places
  <2>2. OnRoute(g("mkindex"))
    BY <1>1, <1>2, <1>4 DEF OnRoute, GoodFields
  <2> QED  BY <1>1, <1>4, <2>1, <2>2, ContinueInv, UnchangedInv DEF GoodFrame
<1>5. CASE Return(c, f)
  BY <1>1, <1>5, ReturnInv, UnchangedInv
<1> QED  BY <1>1, <1>3, <1>4, <1>5

LEMMA FaultType ==
  ASSUME TypeInv, NEW c \in Clients, Fault(c)
  PROVE  TypeInv'
<1>1. /\ Busy(c) /\ UNCHANGED <<db, undisturbed>>
      /\ Return(c, Top(c)) \/ Abort(c)
  BY DEF Fault, ExecFails, Crash, At
<1> QED  BY <1>1, ReturnInv, AbortInv, UnchangedInv

LEMMA BatchType ==
  ASSUME NEW c \in Clients, NEW batch \in Batches[c]
  PROVE  batch \in Seq(Given) /\ batch # << >>
<1>1. batch \in Seq(Write) /\ batch # << >>
  BY RedisAssumption DEF RedisAssumption
<1>2. ASSUME NEW i \in 1 .. Len(batch)
      PROVE  batch[i] \in Given
  <2>1. i \in DOMAIN batch /\ batch[i] \in Write
    BY <1>1
  <2>2. batch[i].key # Root /\ batch[i].val.kind # "absent"
    BY <2>1, RedisAssumption DEF RedisAssumption
  <2>3. batch[i].val \in Value /\ batch[i].key \in Paths
    BY <2>1 DEF Write
  <2>4. batch[i].val.kind = "ptr" => batch[i].val.ext \in LinkTargets
    <3> SUFFICES ASSUME batch[i].val.kind = "ptr"
                 PROVE  batch[i].val.ext \in LinkTargets
      OBVIOUS
    <3>1. batch[i].val.ext \in Paths \cup {NoPath}
      BY <2>3 DEF Value
    <3> QED  BY <2>1, <3>1 DEF LinkTargets
  <2> QED  BY <2>1, <2>2, <2>3, <2>4 DEF Given, GoodWrite, GoodValue, Write
<1>3. batch \in [1 .. Len(batch) -> Given] /\ Len(batch) \in Nat
  BY <1>1, <1>2
<1> QED  BY <1>1, <1>3, SeqDef

LEMMA BeginType ==
  ASSUME TypeInv, NEW c \in Clients, Begin(c)
  PROVE  TypeInv'
<1>1. CASE SetBegin(c)
  <2>1. PICK batch \in Batches[c] : Enter(c, SetFrame(batch))
    BY <1>1 DEF SetBegin
  <2>2. SetFrame(batch) \in GoodFrame
    BY BatchType, SetFrameType
  <2> QED  BY <2>1, <2>2, EnterInv
<1>2. CASE DelBegin(c)
  <2>1. PICK keys \in DelCalls[c] : Enter(c, DelFrame(keys))
    BY <1>2 DEF DelBegin
  <2>2. keys \in Seq(Paths \ {Root}) /\ keys # << >>
    BY RedisAssumption DEF RedisAssumption
  <2>3. DelFrame(keys) \in GoodFrame
    BY <2>2, DelFrameType
  <2> QED  BY <2>1, <2>3, EnterInv
<1>3. ASSUME NEW f \in GoodFields, f.doomed = {}, f.path # Root,
             \/ f.call = "DelTree" /\ f.pc = "link"
             \/ f.call = "Mkindex" /\ f.pc = "resolve" /\ Slash(f.path) \in Paths
             \/ f.call = "ExtIndex" /\ f.pc = "target"
             \/ f.call = "DelExtIndex" /\ f.pc = "resolveParent",
             Enter(c, f)
      PROVE  TypeInv'
  <2>1. OnRoute(f)
    BY <1>3 DEF OnRoute
  <2> QED  BY <1>3, <2>1, EnterInv DEF GoodFrame
<1>4. CASE DelTreeBegin(c)
  <2>1. PICK p \in DelTreeCalls[c] :
            Enter(c, [Blank EXCEPT !.call = "DelTree", !.pc = "link", !.path = p])
    BY <1>4 DEF DelTreeBegin
  <2> DEFINE f == [Blank EXCEPT !.call = "DelTree", !.pc = "link", !.path = p]
  <2>2. p \in Paths \ {Root}
    BY RedisAssumption DEF RedisAssumption
  <2>3. f \in GoodFields /\ f.call = "DelTree" /\ f.pc = "link" /\ f.path = p /\ f.doomed = {}
    BY <2>2, BlankType DEF GoodFields, Calls, Places
  <2>4. Enter(c, f)
    BY <2>1
  <2> HIDE DEF f
  <2> QED  BY <1>3, <2>2, <2>3, <2>4
<1>5. CASE MkindexBegin(c)
  <2>1. PICK d \in MkindexCalls :
            Enter(c, [Blank EXCEPT !.call = "Mkindex", !.pc = "resolve", !.path = d])
    BY <1>5 DEF MkindexBegin
  <2> DEFINE f == [Blank EXCEPT !.call = "Mkindex", !.pc = "resolve", !.path = d]
  <2>2. d \in Dirs /\ d \in Paths \ {Root}
    BY RedisAssumption DEF RedisAssumption, Dirs
  <2>3. Slash(d) = d
    <3>1. d \in Seq(Child) /\ d[Len(d)].dir
      BY <2>2, PathSeq DEF Dirs, IsDir
    <3> QED  BY <2>2, <3>1, SlashDir
  <2>4. /\ f \in GoodFields /\ f.call = "Mkindex" /\ f.pc = "resolve" /\ f.path = d
        /\ f.doomed = {}
    BY <2>2, BlankType DEF GoodFields, Calls, Places
  <2>5. Enter(c, f)
    BY <2>1
  <2> HIDE DEF f
  <2> QED  BY <1>3, <2>2, <2>3, <2>4, <2>5
<1>6. CASE ExtIndexBegin(c)
  <2>1. PICK call \in ExtIndexCalls :
            Enter(c, [Blank EXCEPT !.call = "ExtIndex", !.pc = "target",
                                   !.path = call[1], !.target = call[2]])
    BY <1>6 DEF ExtIndexBegin
  <2> DEFINE f == [Blank EXCEPT !.call = "ExtIndex", !.pc = "target",
                                !.path = call[1], !.target = call[2]]
  <2>2. call[1] \in Paths \ {Root} /\ call[2] \in Paths
    BY RedisAssumption DEF RedisAssumption, Dirs
  <2>3. /\ f \in GoodFields /\ f.call = "ExtIndex" /\ f.pc = "target" /\ f.path = call[1]
        /\ f.doomed = {}
    BY <2>2, BlankType DEF GoodFields, Calls, Places
  <2>4. Enter(c, f)
    BY <2>1
  <2> HIDE DEF f
  <2> QED  BY <1>3, <2>2, <2>3, <2>4
<1>7. CASE DelExtBegin(c)
  <2>1. PICK d \in DelExtCalls :
            Enter(c, [Blank EXCEPT !.call = "DelExtIndex", !.pc = "resolveParent", !.path = d])
    BY <1>7 DEF DelExtBegin
  <2> DEFINE f == [Blank EXCEPT !.call = "DelExtIndex", !.pc = "resolveParent", !.path = d]
  <2>2. d \in Paths \ {Root}
    BY RedisAssumption DEF RedisAssumption
  <2>3. /\ f \in GoodFields /\ f.call = "DelExtIndex" /\ f.pc = "resolveParent" /\ f.path = d
        /\ f.doomed = {}
    BY <2>2, BlankType DEF GoodFields, Calls, Places
  <2>4. Enter(c, f)
    BY <2>1
  <2> HIDE DEF f
  <2> QED  BY <1>3, <2>2, <2>3, <2>4
<1>8. CASE Clear(c)
  <2>1. /\ db' = [p \in Paths |-> Absent] /\ undisturbed' = undisturbed \cap {c}
        /\ Abort(c)
    BY <1>8 DEF Clear
  <2>2. GoodDb(db')
    BY <2>1, PlainValues DEF GoodDb
  <2> QED  BY <2>1, <2>2, AbortInv DEF TypeInv
<1> QED  BY <1>1, <1>2, <1>4, <1>5, <1>6, <1>7, <1>8 DEF Begin

LEMMA StepType ==
  ASSUME TypeInv, NEW c \in Clients, Step(c)
  PROVE  TypeInv'
BY FollowLinkType, EnsureListedType, EnsureMissingType, SetPrepareType, SetQueueType,
   SetParentType, DelCheckType, DelQueueType, DelTreeLinkType, DelTreeScanType,
   DelTreeUnlistType,
   MkindexPrepareType, MkindexNextType, DelExtQueueType, ExtIndexTargetType,
   ExtIndexPrepareType, ExtIndexQueueType, ExecType, ExecDoneType
   DEF Step

LEMMA InitType == Init => TypeInv
<1> SUFFICES ASSUME Init PROVE TypeInv
  OBVIOUS
<1>1. GoodDb(db)
  <2>1. Stored \in [Paths -> Value]
    BY RedisAssumption DEF RedisAssumption
  <2>2. ASSUME NEW p \in Paths
        PROVE  Stored[p] \in GoodValue
    <3>1. Stored[p] \in Value /\ Stored[p].ext \in Paths \cup {NoPath}
      BY <2>1 DEF Value
    <3>2. Stored[p].kind = "absent" => Stored[p].kids = {}
      BY RedisAssumption DEF RedisAssumption
    <3> QED  BY <3>1, <3>2 DEF GoodValue, LinkTargets
  <2> QED  BY <2>1, <2>2 DEF Init, GoodDb
<1>2. << >> \in GoodStack
  BY DEF GoodStack, Shape
<1> QED  BY <1>1, <1>2 DEF Init, TypeInv, StackInv

LEMMA TypeStep == TypeInv /\ [Next]_vars => TypeInv'
<1>1. ASSUME TypeInv, UNCHANGED vars
      PROVE  TypeInv'
  BY <1>1 DEF vars, TypeInv, StackInv
<1>2. ASSUME TypeInv, Next
      PROVE  TypeInv'
  BY <1>2, BeginType, StepType, FaultType DEF Next
<1> QED  BY <1>1, <1>2

LEMMA TypeInvariant == Spec => []TypeInv
BY InitType, TypeStep, PTL DEF Spec

\* In every state of the calls of any number of clients, what the server holds
\* and every frame of every call have their types: no chain of links leads a
\* call out of the paths, to the root, or to a queued key that is none.
THEOREM TypeCorrect == Spec => []TypeOK
BY TypeInvariant, TypeInvTypeOK, PTL


-----------------------------------------------------------------------------
(* Pipelines *)

\* The i-th command of a pipeline is the last that writes the key q.
LastWrite(pipe, q, i) ==
    i \in DOMAIN pipe /\ pipe[i].key = q /\ \A j \in DOMAIN pipe : j > i => pipe[j].key # q

\* The value that q has once the server has executed the pipeline.
Final(t, pipe, q) ==
    IF \E i \in DOMAIN pipe : LastWrite(pipe, q, i)
    THEN pipe[CHOOSE i \in DOMAIN pipe : LastWrite(pipe, q, i)].val
    ELSE ValueAt(t, q)

LEMMA FinalLast ==
  ASSUME NEW t, NEW pipe \in Seq(GoodWrite), NEW q, NEW i, LastWrite(pipe, q, i)
  PROVE  Final(t, pipe, q) = pipe[i].val
<1>1. i \in DOMAIN pipe /\ DOMAIN pipe \subseteq Nat
  BY DEF LastWrite
<1>2. \A j \in DOMAIN pipe : LastWrite(pipe, q, j) => j = i
  <2> SUFFICES ASSUME NEW j \in DOMAIN pipe, LastWrite(pipe, q, j)
               PROVE  j = i
    OBVIOUS
  <2>1. ~ (j > i) /\ ~ (i > j)
    BY <1>1 DEF LastWrite
  <2> QED  BY <1>1, <2>1
<1>3. (CHOOSE j \in DOMAIN pipe : LastWrite(pipe, q, j)) = i
  BY <1>1, <1>2
<1> QED  BY <1>1, <1>3 DEF Final

LEMMA FinalNone ==
  ASSUME NEW t, NEW pipe, NEW q, \A i \in DOMAIN pipe : pipe[i].key # q
  PROVE  Final(t, pipe, q) = ValueAt(t, q)
BY DEF Final, LastWrite

LEMMA FirstWrite ==
  ASSUME NEW pipe \in Seq(GoodWrite), pipe # << >>
  PROVE  /\ Head(pipe) \in GoodWrite /\ Head(pipe).key \in Paths /\ Head(pipe).val \in GoodValue
         /\ Head(pipe) = pipe[1] /\ 1 \in DOMAIN pipe /\ Tail(pipe) \in Seq(GoodWrite)
         /\ \A i \in DOMAIN Tail(pipe) : i + 1 \in DOMAIN pipe /\ Tail(pipe)[i] = pipe[i + 1]
<1>1. /\ Head(pipe) \in GoodWrite /\ Head(pipe) = pipe[1] /\ 1 \in DOMAIN pipe
      /\ Tail(pipe) \in Seq(GoodWrite)
      /\ \A i \in DOMAIN Tail(pipe) : i + 1 \in DOMAIN pipe /\ Tail(pipe)[i] = pipe[i + 1]
  OBVIOUS
<1> QED  BY <1>1 DEF GoodWrite

LEMMA FinalEmpty ==
  ASSUME NEW t, NEW q
  PROVE  Final(t, << >>, q) = ValueAt(t, q)
BY FinalNone

\* A key that is written has a last write.
LEMMA LastWriteExists ==
  ASSUME NEW pipe \in Seq(GoodWrite), NEW q, NEW i \in DOMAIN pipe, pipe[i].key = q
  PROVE  \E j \in DOMAIN pipe : LastWrite(pipe, q, j)
<1> DEFINE S == {n \in 0 .. Len(pipe) - 1 : pipe[Len(pipe) - n].key = q}
<1>1. Len(pipe) \in Nat /\ DOMAIN pipe = 1 .. Len(pipe)
  OBVIOUS
<1>2. Len(pipe) - i \in S
  <2>1. Len(pipe) - i \in 0 .. Len(pipe) - 1 /\ Len(pipe) - (Len(pipe) - i) = i
    BY <1>1
  <2> QED  BY <2>1
<1>3. S \in SUBSET Nat /\ S # {}
  BY <1>1, <1>2
<1> DEFINE n == Min(S)
<1>4. n \in S /\ \A m \in S : n <= m
  BY <1>3, MinNat
<1> HIDE DEF n
<1> DEFINE j == Len(pipe) - n
<1>5. j \in DOMAIN pipe /\ pipe[j].key = q
  BY <1>1, <1>4
<1>6. ASSUME NEW k \in DOMAIN pipe, k > j, pipe[k].key = q
      PROVE  FALSE
  <2>1. Len(pipe) - k \in 0 .. Len(pipe) - 1 /\ Len(pipe) - (Len(pipe) - k) = k
    BY <1>1
  <2>2. Len(pipe) - k \in S
    BY <1>6, <2>1
  <2>3. n <= Len(pipe) - k /\ n \in Nat
    BY <1>3, <1>4, <2>2
  <2> QED  BY <1>1, <1>6, <2>3
<1> QED  BY <1>5, <1>6 DEF LastWrite

\* Two pipelines, one after the other.
LEMMA FinalConcat ==
  ASSUME NEW t, NEW pipe \in Seq(GoodWrite), NEW more \in Seq(GoodWrite), NEW q
  PROVE  Final(t, pipe \o more, q) =
            IF \E i \in DOMAIN more : more[i].key = q THEN Final(t, more, q) ELSE Final(t, pipe, q)
<1> DEFINE all == pipe \o more
           n == Len(pipe)
           m == Len(more)
<1>1. /\ all \in Seq(GoodWrite) /\ n \in Nat /\ m \in Nat
      /\ DOMAIN all = 1 .. n + m /\ DOMAIN pipe = 1 .. n /\ DOMAIN more = 1 .. m
      /\ \A i \in 1 .. n + m : all[i] = IF i <= n THEN pipe[i] ELSE more[i - n]
  BY ConcatProperties
<1> HIDE DEF all, n, m
<1>2. CASE \E i \in DOMAIN more : more[i].key = q
  <2>1. PICK i \in DOMAIN more : LastWrite(more, q, i)
    BY <1>2, LastWriteExists
  <2>2. i \in 1 .. m /\ more[i].key = q /\ \A j \in 1 .. m : j > i => more[j].key # q
    BY <1>1, <2>1 DEF LastWrite
  <2>3. n + i \in 1 .. n + m /\ all[n + i] = more[i]
    BY <1>1, <2>2
  <2>4. ASSUME NEW j \in 1 .. n + m, j > n + i
        PROVE  all[j].key # q
    <3>1. j - n \in 1 .. m /\ j - n > i /\ all[j] = more[j - n]
      BY <1>1, <2>2, <2>4
    <3> QED  BY <2>2, <3>1
  <2>5. LastWrite(all, q, n + i)
    BY <1>1, <2>2, <2>3, <2>4 DEF LastWrite
  <2>6. Final(t, all, q) = all[n + i].val /\ Final(t, more, q) = more[i].val
    BY <1>1, <2>1, <2>5, FinalLast
  <2> QED  BY <1>2, <2>3, <2>6 DEF all
<1>3. CASE \A i \in DOMAIN more : more[i].key # q
  <2>1. ASSUME NEW j \in 1 .. n + m, j > n
        PROVE  all[j].key # q
    <3>1. j - n \in 1 .. m /\ all[j] = more[j - n]
      BY <1>1, <2>1
    <3> QED  BY <1>1, <1>3, <3>1
  <2>2. CASE \E i \in DOMAIN pipe : LastWrite(pipe, q, i)
    <3>1. PICK i \in DOMAIN pipe : LastWrite(pipe, q, i)
      BY <2>2
    <3>2. i \in 1 .. n /\ pipe[i].key = q /\ \A j \in 1 .. n : j > i => pipe[j].key # q
      BY <1>1, <3>1 DEF LastWrite
    <3>3. i \in 1 .. n + m /\ all[i] = pipe[i]
      BY <1>1, <3>2
    <3>4. ASSUME NEW j \in 1 .. n + m, j > i
          PROVE  all[j].key # q
      <4>1. j \in 1 .. n \/ j > n
        BY <1>1
      <4>2. CASE j \in 1 .. n
        <5>1. all[j] = pipe[j]
          BY <1>1, <4>2
        <5> QED  BY <3>2, <3>4, <4>2, <5>1
      <4> QED  BY <2>1, <4>1, <4>2
    <3>5. LastWrite(all, q, i)
      BY <1>1, <3>2, <3>3, <3>4 DEF LastWrite
    <3>6. Final(t, all, q) = all[i].val /\ Final(t, pipe, q) = pipe[i].val
      BY <1>1, <3>1, <3>5, FinalLast
    <3> QED  BY <1>3, <3>3, <3>6 DEF all
  <2>3. CASE ~ \E i \in DOMAIN pipe : LastWrite(pipe, q, i)
    <3>1. \A j \in 1 .. n : pipe[j].key # q
      BY <1>1, <2>3, LastWriteExists
    <3>2. ASSUME NEW j \in 1 .. n + m
          PROVE  all[j].key # q
      <4>1. j \in 1 .. n \/ j > n
        BY <1>1
      <4>2. CASE j \in 1 .. n
        <5>1. all[j] = pipe[j]
          BY <1>1, <4>2
        <5> QED  BY <3>1, <4>2, <5>1
      <4> QED  BY <2>1, <4>1, <4>2
    <3>3. Final(t, all, q) = ValueAt(t, q) /\ Final(t, pipe, q) = ValueAt(t, q)
      BY <1>1, <3>1, <3>2, FinalNone
    <3> QED  BY <1>3, <3>3 DEF all
  <2> QED  BY <2>2, <2>3
<1> QED  BY <1>2, <1>3

\* A command more: the key that it writes has its value.
LEMMA FinalAppend ==
  ASSUME NEW t, NEW pipe \in Seq(GoodWrite), NEW w \in GoodWrite, NEW q
  PROVE  Final(t, Append(pipe, w), q) = IF w.key = q THEN w.val ELSE Final(t, pipe, q)
<1> DEFINE one == <<w>>
<1>1. one \in Seq(GoodWrite) /\ DOMAIN one = {1} /\ one[1] = w
  OBVIOUS
<1>2. Append(pipe, w) = pipe \o one
  BY AppendIsConcat
<1> HIDE DEF one
<1>3. w.key = q => Final(t, one, q) = w.val
  <2> SUFFICES ASSUME w.key = q
               PROVE  Final(t, one, q) = w.val
    OBVIOUS
  <2>1. LastWrite(one, q, 1)
    BY <1>1 DEF LastWrite
  <2> QED  BY <1>1, <2>1, FinalLast
<1> QED  BY <1>1, <1>2, <1>3, FinalConcat

\* A key that is only deleted, if it is written at all.
LEMMA FinalDeleted ==
  ASSUME NEW t, NEW pipe \in Seq(GoodWrite), NEW q,
         \A i \in DOMAIN pipe : pipe[i].key = q => pipe[i].val = Absent
  PROVE  /\ Final(t, pipe, q) \in {Absent, ValueAt(t, q)}
         /\ (\E i \in DOMAIN pipe : pipe[i].key = q) => Final(t, pipe, q) = Absent
<1>1. CASE \E i \in DOMAIN pipe : pipe[i].key = q
  <2>1. PICK i \in DOMAIN pipe : LastWrite(pipe, q, i)
    BY <1>1, LastWriteExists
  <2>2. Final(t, pipe, q) = pipe[i].val
    BY <2>1, FinalLast
  <2>3. pipe[i].key = q
    BY <2>1 DEF LastWrite
  <2> QED  BY <2>2, <2>3
<1>2. CASE ~ \E i \in DOMAIN pipe : pipe[i].key = q
  BY <1>2, FinalNone
<1> QED  BY <1>1, <1>2

\* The server executes the first command.
LEMMA FinalStep ==
  ASSUME NEW t, GoodDb(t), NEW pipe \in Seq(GoodWrite), pipe # << >>, NEW q
  PROVE  Final([t EXCEPT ![Head(pipe).key] = Head(pipe).val], Tail(pipe), q) = Final(t, pipe, q)
<1> DEFINE w == Head(pipe)
           rest == Tail(pipe)
           n == Len(rest)
           t2 == [t EXCEPT ![w.key] = w.val]
<1>1. /\ rest \in Seq(GoodWrite) /\ w \in GoodWrite /\ n \in Nat
      /\ DOMAIN pipe = 1 .. n + 1 /\ DOMAIN rest = 1 .. n
      /\ pipe[1] = w /\ \A i \in 1 .. n : rest[i] = pipe[i + 1]
  OBVIOUS
<1>2. w.key \in Paths /\ t \in [Paths -> GoodValue]
  BY <1>1 DEF GoodWrite, GoodDb
<1> HIDE DEF w, rest, n
<1>3. ASSUME NEW i, LastWrite(rest, q, i)
      PROVE  Final(t2, rest, q) = Final(t, pipe, q)
  <2>1. i \in 1 .. n /\ rest[i].key = q /\ \A j \in 1 .. n : j > i => rest[j].key # q
    BY <1>1, <1>3 DEF LastWrite
  <2>2. ASSUME NEW j \in 1 .. n + 1, j > i + 1
        PROVE  pipe[j].key # q
    <3>1. j - 1 \in 1 .. n /\ j - 1 > i /\ j - 1 + 1 = j
      BY <1>1, <2>1, <2>2
    <3> QED  BY <1>1, <2>1, <3>1
  <2>3. i + 1 \in 1 .. n + 1 /\ pipe[i + 1].key = q
    BY <1>1, <2>1
  <2>4. LastWrite(pipe, q, i + 1)
    BY <1>1, <2>2, <2>3 DEF LastWrite
  <2>5. Final(t2, rest, q) = rest[i].val /\ Final(t, pipe, q) = pipe[i + 1].val
    BY <1>1, <1>3, <2>4, FinalLast
  <2> QED  BY <1>1, <2>1, <2>5
<1>4. ASSUME \A i \in DOMAIN rest : ~ LastWrite(rest, q, i)
      PROVE  Final(t2, rest, q) = Final(t, pipe, q)
  <2>1. \A i \in 1 .. n : rest[i].key # q
    BY <1>1, <1>4, LastWriteExists
  <2>2. Final(t2, rest, q) = ValueAt(t2, q)
    BY <1>1, <2>1, FinalNone
  <2>3. ASSUME NEW j \in 1 .. n + 1, j > 1
        PROVE  pipe[j].key # q
    <3>1. j - 1 \in 1 .. n /\ j - 1 + 1 = j
      BY <1>1, <2>3
    <3> QED  BY <1>1, <2>1, <3>1
  <2>4. CASE w.key = q
    <3>1. LastWrite(pipe, q, 1)
      BY <1>1, <2>3, <2>4 DEF LastWrite
    <3>2. Final(t, pipe, q) = w.val
      BY <1>1, <3>1, FinalLast
    <3> QED  BY <1>2, <2>2, <2>4, <3>2 DEF ValueAt
  <2>5. CASE w.key # q
    <3>1. ASSUME NEW j \in 1 .. n + 1
          PROVE  pipe[j].key # q
      <4>1. j = 1 \/ j > 1
        BY <1>1
      <4> QED  BY <1>1, <2>3, <2>5, <4>1
    <3>2. Final(t, pipe, q) = ValueAt(t, q)
      BY <1>1, <3>1, FinalNone
    <3> QED  BY <1>2, <2>2, <2>5, <3>2 DEF ValueAt
  <2> QED  BY <2>4, <2>5
<1>5. Final(t2, rest, q) = Final(t, pipe, q)
  BY <1>3, <1>4 DEF LastWrite
<1> QED  BY <1>5 DEF w, rest

LEMMA FinalType ==
  ASSUME NEW t, GoodDb(t), NEW pipe \in Seq(GoodWrite), NEW q
  PROVE  Final(t, pipe, q) \in GoodValue
<1>1. CASE \E i \in DOMAIN pipe : LastWrite(pipe, q, i)
  <2>1. PICK i \in DOMAIN pipe : LastWrite(pipe, q, i)
    BY <1>1
  <2>2. pipe[i] \in GoodWrite
    OBVIOUS
  <2>3. Final(t, pipe, q) = pipe[i].val
    BY <2>1, FinalLast
  <2> QED  BY <2>2, <2>3 DEF GoodWrite
<1>2. CASE ~ \E i \in DOMAIN pipe : LastWrite(pipe, q, i)
  BY <1>2, ValueAtType DEF Final
<1> QED  BY <1>1, <1>2

-----------------------------------------------------------------------------
(* Steps of one client *)

\* A client's frames are its own.
LEMMA OtherStack ==
  ASSUME TypeInv, NEW c \in Clients, NEW d \in Clients, c # d, Begin(d) \/ Step(d) \/ Fault(d)
  PROVE  stack'[c] = stack[c]
<1> USE DEF TypeInv, StackInv, Continue, Nest, Return, Abort, Enter
<1>1. CASE Begin(d)
  BY <1>1 DEF Begin, SetBegin, DelBegin, DelTreeBegin, MkindexBegin, ExtIndexBegin,
              DelExtBegin, Clear
<1>2. CASE Fault(d)
  BY <1>2 DEF Fault, ExecFails, Crash
<1>3. CASE FollowLink(d) \/ EnsureListed(d) \/ EnsureMissing(d)
  BY <1>3 DEF FollowLink, EnsureListed, EnsureMissing
<1>4. CASE SetPrepare(d) \/ SetQueue(d) \/ SetParent(d)
  BY <1>4 DEF SetPrepare, SetQueue, SetParent
<1>5. CASE DelCheck(d) \/ DelQueue(d) \/ DelTreeLink(d) \/ DelTreeScan(d) \/ DelTreeUnlist(d)
  BY <1>5 DEF DelCheck, DelQueue, DelTreeLink, DelTreeScan, DelTreeUnlist
<1>6. CASE MkindexPrepare(d) \/ MkindexNext(d) \/ DelExtQueue(d)
  BY <1>6 DEF MkindexPrepare, MkindexNext, DelExtQueue
<1>7. CASE ExtIndexTarget(d) \/ ExtIndexPrepare(d) \/ ExtIndexQueue(d)
  BY <1>7 DEF ExtIndexTarget, ExtIndexPrepare, ExtIndexQueue
<1>8. CASE ExecCommand(d) \/ ExecDoomed(d) \/ ExecDone(d)
  BY <1>8 DEF ExecCommand, ExecDoomed, ExecDone
<1> QED  BY <1>1, <1>2, <1>3, <1>4, <1>5, <1>6, <1>7, <1>8 DEF Step

\* While client c stays undisturbed, the steps of the others change nothing of
\* what it has read.
LEMMA OtherClient ==
  ASSUME TypeInv, NEW c \in Clients, NEW d \in Clients, c # d,
         Begin(d) \/ Step(d) \/ Fault(d), c \in undisturbed'
  PROVE  stack'[c] = stack[c] /\ db' = db /\ c \in undisturbed
<1>1. stack'[c] = stack[c]
  BY OtherStack
<1>2. db' = db /\ c \in undisturbed
  <2>1. CASE Begin(d)
    BY <2>1 DEF Begin, SetBegin, DelBegin, DelTreeBegin, MkindexBegin, ExtIndexBegin,
                DelExtBegin, Clear, Enter
  <2>2. CASE Fault(d)
    BY <2>2 DEF Fault, ExecFails, Crash
  <2>3. CASE Step(d)
    BY <2>3 DEF Step, FollowLink, EnsureListed, EnsureMissing, SetPrepare, SetQueue, SetParent,
                DelCheck, DelQueue, DelTreeLink, DelTreeScan, DelTreeUnlist, MkindexPrepare,
                MkindexNext, DelExtQueue, ExtIndexTarget, ExtIndexPrepare, ExtIndexQueue,
                ExecCommand, ExecDoomed, ExecDone
  <2> QED  BY <2>1, <2>2, <2>3
<1> QED  BY <1>1, <1>2

LEMMA ContinueTop ==
  ASSUME TypeInv, NEW c \in Clients, Busy(c), NEW f, Continue(c, f)
  PROVE  /\ stack'[c] # << >> /\ Len(stack'[c]) = Len(stack[c]) /\ stack'[c][1] = f
         /\ \A i \in 2 .. Len(stack[c]) : stack'[c][i] = stack[c][i]
<1> DEFINE S == GoodFrame \cup {f}
<1>1. stack[c] \in GoodStack /\ stack[c] # << >>
  BY BusyTop DEF TypeInv
<1>2. stack[c] \in Seq(S)
  <2>1. stack[c] \in Seq(GoodFrame) /\ GoodFrame \subseteq S
    BY <1>1 DEF GoodStack
  <2> QED  BY <2>1, SeqMonotonic
<1>3. f \in S
  OBVIOUS
<1> HIDE DEF S
<1>4. stack'[c] = <<f>> \o Tail(stack[c])
  BY DEF Continue, TypeInv, StackInv
<1>5. Len(stack'[c]) = Len(stack[c]) /\ Len(stack[c]) # 0
  BY <1>1, <1>2, <1>3, <1>4, Replaced
<1>6. stack'[c] # << >>
  BY <1>5
<1> QED  BY <1>1, <1>2, <1>3, <1>4, <1>5, <1>6, Replaced

LEMMA NestTop ==
  ASSUME TypeInv, NEW c \in Clients, Busy(c), NEW f, NEW g, Nest(c, f, g)
  PROVE  /\ stack'[c] # << >> /\ Len(stack'[c]) = Len(stack[c]) + 1
         /\ stack'[c][1] = g /\ stack'[c][2] = f
         /\ \A i \in 3 .. Len(stack[c]) + 1 : stack'[c][i] = stack[c][i - 1]
<1> DEFINE S == GoodFrame \cup {f, g}
           tail == Tail(stack[c])
           two == <<g, f>>
<1>1. stack[c] \in GoodStack /\ stack[c] # << >>
  BY BusyTop DEF TypeInv
<1>2. stack[c] \in Seq(S)
  <2>1. stack[c] \in Seq(GoodFrame) /\ GoodFrame \subseteq S
    BY <1>1 DEF GoodStack
  <2> QED  BY <2>1, SeqMonotonic
<1>3. two \in Seq(S) /\ Len(two) = 2 /\ two[1] = g /\ two[2] = f
  OBVIOUS
<1> HIDE DEF S
<1>4. tail \in Seq(S) /\ Len(tail) = Len(stack[c]) - 1 /\ Len(stack[c]) \in Nat
  BY <1>1, <1>2
<1>5. stack'[c] = two \o tail
  BY DEF Nest, TypeInv, StackInv
<1> HIDE DEF two, tail
<1>6. /\ Len(two \o tail) = Len(two) + Len(tail)
      /\ \A i \in 1 .. Len(two) + Len(tail) :
            (two \o tail)[i] = IF i <= Len(two) THEN two[i] ELSE tail[i - Len(two)]
  BY <1>3, <1>4, ConcatProperties
<1>7. Len(stack'[c]) = Len(stack[c]) + 1 /\ Len(tail) \in Nat
  BY <1>3, <1>4, <1>5, <1>6
<1>8. stack'[c][1] = g /\ stack'[c][2] = f
  BY <1>3, <1>5, <1>6, <1>7
<1>10. ASSUME NEW i \in 3 .. Len(stack[c]) + 1
       PROVE  stack'[c][i] = stack[c][i - 1]
  <2>1. /\ i \in 1 .. Len(two) + Len(tail) /\ ~ (i <= Len(two)) /\ i - Len(two) = i - 2
        /\ i - 2 \in 1 .. Len(tail) /\ i - 2 + 1 = i - 1
    BY <1>3, <1>4
  <2>2. stack'[c][i] = tail[i - 2]
    BY <1>5, <1>6, <2>1
  <2>3. tail[i - 2] = stack[c][i - 1]
    BY <1>1, <1>2, <2>1 DEF tail
  <2> QED  BY <2>2, <2>3
<1>9. stack'[c] # << >>
  BY <1>4, <1>7
<1> QED  BY <1>7, <1>8, <1>9, <1>10

LEMMA AbortTop ==
  ASSUME TypeInv, NEW c \in Clients, Abort(c)
  PROVE  stack'[c] = << >>
BY DEF TypeInv, StackInv, Abort

\* What remains of an outermost call that has returned.
Done(call, touched) == [Blank EXCEPT !.call = call, !.touched = touched]

LEMMA DoneFields ==
  ASSUME NEW call, NEW T
  PROVE  /\ Done(call, T).call = call /\ Done(call, T).touched = T
         /\ Done(call, T).pc = "returned" /\ Done(call, T).pipe = << >>
BY DEF Done, Blank

LEMMA ReturnTop ==
  ASSUME TypeInv, NEW c \in Clients, Busy(c), Return(c, Top(c))
  PROVE  \/ /\ Len(stack[c]) = 1 /\ Len(stack'[c]) = 1
            /\ stack'[c][1] = Done(Top(c).call, Top(c).touched)
         \/ /\ Len(stack[c]) > 1 /\ Len(stack'[c]) = Len(stack[c]) - 1
            /\ \A i \in 1 .. Len(stack'[c]) : stack'[c][i] = stack[c][i + 1]
            /\ stack'[c][1].pc = "ensure" /\ stack'[c][1].call \in {"Set", "ExtIndex"}
<1>1. stack[c] \in GoodStack /\ stack[c] # << >> /\ Len(stack[c]) \in Nat \ {0}
  BY BusyTop DEF TypeInv
<1>2. CASE Len(stack[c]) > 1
  <2>1. stack'[c] = Tail(stack[c])
    BY <1>2 DEF Return, TypeInv, StackInv
  <2>2. /\ Len(stack'[c]) = Len(stack[c]) - 1
        /\ \A i \in 1 .. Len(stack'[c]) : stack'[c][i] = stack[c][i + 1]
    <3>1. stack[c] \in Seq(GoodFrame)
      BY <1>1 DEF GoodStack
    <3> QED  BY <1>1, <2>1, <3>1
  <2>3. 1 \in 1 .. Len(stack[c]) - 1 /\ 1 \in 1 .. Len(stack'[c]) /\ 2 \in 1 .. Len(stack[c])
    BY <1>1, <1>2, <2>2
  <2>4. stack'[c][1] = stack[c][1 + 1] /\ stack[c][1 + 1].pc = "ensure" /\ stack[c][1 + 1] \in GoodFrame
    BY <1>1, <2>2, <2>3 DEF GoodStack, Shape
  <2>5. stack'[c][1].call \in {"Set", "ExtIndex"}
    BY <2>4 DEF GoodFrame, OnRoute
  <2> QED  BY <1>2, <2>2, <2>4, <2>5
<1>3. CASE ~ (Len(stack[c]) > 1)
  <2>1. stack'[c] = <<Done(Top(c).call, Top(c).touched)>>
    BY <1>3 DEF Return, TypeInv, StackInv, Done
  <2>2. Len(stack[c]) = 1
    <3> DEFINE n == Len(stack[c])
    <3>1. n \in Nat \ {0} /\ ~ (n > 1)
      BY <1>1, <1>3
    <3> HIDE DEF n
    <3>2. n = 1
      BY <3>1
    <3> QED  BY <3>2 DEF n
  <2> HIDE DEF Done
  <2> QED  BY <2>1, <2>2
<1> QED  BY <1>2, <1>3

LEMMA BusyStep ==
  ASSUME NEW c \in Clients, Step(c)
  PROVE  Busy(c)
BY DEF Step, FollowLink, EnsureListed, EnsureMissing, SetPrepare, SetQueue, SetParent,
       DelCheck, DelQueue, DelTreeLink, DelTreeScan, DelTreeUnlist, MkindexPrepare,
       MkindexNext, DelExtQueue, ExtIndexTarget, ExtIndexPrepare, ExtIndexQueue,
       ExecCommand, ExecDoomed, ExecDone, At, Resolved, ResolvedParent, Ensured

\* A step leaves the client in a frame of the same call, or in a nested or in
\* the calling one, unless DelTree has found a link.
LEMMA CallKept ==
  ASSUME TypeInv, NEW c \in Clients, Step(c), stack'[c] # << >>
  PROVE  \/ stack'[c][1].call = Top(c).call
         \/ stack'[c][1].call \in {"Set", "ExtIndex"}
         \/ DelTreeLink(c) /\ stack'[c][1].call = "Del"
<1>1. Busy(c)
  BY BusyStep
<1>2. Top(c) \in GoodFields
  BY <1>1, TopType
<1>3. ASSUME NEW g, Continue(c, g), g.call = Top(c).call
      PROVE  stack'[c][1].call = Top(c).call
  BY <1>1, <1>3, ContinueTop
<1>4. ASSUME Abort(c)
      PROVE  FALSE
  BY <1>4, AbortTop
<1>5. ASSUME Return(c, Top(c))
      PROVE  stack'[c][1].call = Top(c).call \/ stack'[c][1].call \in {"Set", "ExtIndex"}
  BY <1>1, <1>5, ReturnTop, DoneFields
<1>6. ASSUME NEW f, NEW g, Nest(c, f, g), g.call = "Set"
      PROVE  stack'[c][1].call \in {"Set", "ExtIndex"}
  BY <1>1, <1>6, NestTop
<1> DEFINE f == Top(c)
           Kept == f.call = stack'[c][1].call
<1> USE <1>2 DEF GoodFields
<1>7. CASE FollowLink(c) \/ EnsureListed(c) \/ SetPrepare(c)
  BY <1>3, <1>4, <1>7 DEF FollowLink, EnsureListed, SetPrepare, Ensuring
<1>8. CASE EnsureMissing(c)
  <2>1. \A batch : SetFrame(batch).call = "Set"
    BY BlankType DEF SetFrame
  <2>2. Abort(c) \/ \E g, batch : Nest(c, g, SetFrame(batch))
    BY <1>8 DEF EnsureMissing
  <2> QED  BY <1>4, <1>6, <2>1, <2>2
<1>9. CASE SetQueue(c) \/ SetParent(c)
  BY <1>3, <1>4, <1>9 DEF SetQueue, SetParent
<1>10. CASE DelCheck(c) \/ DelQueue(c) \/ DelTreeScan(c) \/ DelTreeUnlist(c)
  BY <1>3, <1>4, <1>10 DEF DelCheck, DelQueue, Removed, DelTreeScan, DelTreeUnlist
<1>11. CASE DelTreeLink(c)
  <2>1. CASE Continue(c, DelFrame(<<f.path>>))
    <3>1. stack'[c][1] = DelFrame(<<f.path>>)
      BY <1>1, <2>1, ContinueTop
    <3>2. DelFrame(<<f.path>>).call = "Del"
      BY BlankType DEF DelFrame
    <3> QED  BY <1>11, <3>1, <3>2
  <2> QED  BY <1>3, <1>11, <2>1 DEF DelTreeLink
<1>12. CASE MkindexPrepare(c) \/ DelExtQueue(c)
  BY <1>3, <1>4, <1>12 DEF MkindexPrepare, DelExtQueue
<1>13. CASE MkindexNext(c)
  BY <1>3, <1>4, <1>5, <1>13 DEF MkindexNext
<1>14. CASE ExtIndexTarget(c) \/ ExtIndexPrepare(c) \/ ExtIndexQueue(c)
  BY <1>3, <1>4, <1>14 DEF ExtIndexTarget, ExtIndexPrepare, ExtIndexQueue, Ensuring
<1>15. CASE ExecCommand(c) \/ ExecDoomed(c)
  BY <1>3, <1>15 DEF ExecCommand, ExecDoomed
<1>16. CASE ExecDone(c)
  BY <1>3, <1>5, <1>16 DEF ExecDone
<1> QED  BY <1>7, <1>8, <1>9, <1>10, <1>11, <1>12, <1>13, <1>14, <1>15, <1>16 DEF Step

-----------------------------------------------------------------------------
(* DelTree *)

LEMMA DelTreeActions ==
  ASSUME TypeInv, NEW c \in Clients, Step(c), Top(c).call = "DelTree"
  PROVE  FollowLink(c) \/ DelTreeLink(c) \/ DelTreeScan(c) \/ DelTreeUnlist(c)
         \/ ExecCommand(c) \/ ExecDoomed(c) \/ ExecDone(c)
<1>1. Busy(c) => OnRoute(Top(c))
  BY TopType
<1>2. ~ EnsureListed(c) /\ ~ EnsureMissing(c) /\ ~ SetParent(c) /\ ~ MkindexNext(c)
      /\ ~ ExtIndexTarget(c) /\ ~ DelQueue(c)
  BY <1>1 DEF EnsureListed, EnsureMissing, SetParent, MkindexNext, ExtIndexTarget, DelQueue,
              At, OnRoute
<1>3. ~ SetPrepare(c) /\ ~ SetQueue(c) /\ ~ DelCheck(c) /\ ~ MkindexPrepare(c)
      /\ ~ DelExtQueue(c) /\ ~ ExtIndexPrepare(c) /\ ~ ExtIndexQueue(c)
  BY DEF SetPrepare, SetQueue, DelCheck, MkindexPrepare, DelExtQueue, ExtIndexPrepare,
         ExtIndexQueue, Resolved, ResolvedParent, Ensured
<1> QED  BY <1>2, <1>3 DEF Step

LEMMA DelActions ==
  ASSUME TypeInv, NEW c \in Clients, Step(c), Top(c).call = "Del"
  PROVE  FollowLink(c) \/ DelCheck(c) \/ DelQueue(c) \/ ExecCommand(c) \/ ExecDone(c)
<1>1. Busy(c) => OnRoute(Top(c))
  BY TopType
<1>2. ~ EnsureListed(c) /\ ~ EnsureMissing(c) /\ ~ SetParent(c) /\ ~ MkindexNext(c)
      /\ ~ ExtIndexTarget(c) /\ ~ DelTreeLink(c) /\ ~ DelTreeUnlist(c)
  BY <1>1 DEF EnsureListed, EnsureMissing, SetParent, MkindexNext, ExtIndexTarget, DelTreeLink,
              DelTreeUnlist, At, OnRoute
<1>3. ~ SetPrepare(c) /\ ~ SetQueue(c) /\ ~ DelTreeScan(c) /\ ~ MkindexPrepare(c)
      /\ ~ DelExtQueue(c) /\ ~ ExtIndexPrepare(c) /\ ~ ExtIndexQueue(c)
  BY DEF SetPrepare, SetQueue, DelTreeScan, MkindexPrepare, DelExtQueue, ExtIndexPrepare,
         ExtIndexQueue, Resolved, ResolvedParent, Ensured
<1>4. ~ ExecDoomed(c)
  BY <1>1 DEF ExecDoomed, At, OnRoute
<1> QED  BY <1>2, <1>3, <1>4 DEF Step

\* The pattern made of a prefix finds that very prefix: none of the prefixes
\* that DelTree is called with, or that a link leads it to, is spelled with
\* characters that stand for others in a glob.
PatternsFind ==
    \/ \A p \in Paths \ {Root} : Matches(p, p)
    \/ LinkTargets = {} /\ \A c \in Clients : \A p \in DelTreeCalls[c] : Matches(p, p)

\* The keys under the prefix p.
Below(t, p) == {q \in Keys(t) : Under(q, p)}

\* What a DelTree knows of its prefix, while no other client writes.
Descends(t, f) ==
    /\ f.pc \in {"link", "resolve"} => f.at = 1 /\ Matches(f.path, f.path)
    /\ f.pc \in {"exec", "unlist"} => f.touched = {f.path} /\ f.at \in {1, 2}
    /\ f.pc = "exec" /\ f.at = 1 =>
          \/ f.pipe = << >> /\ Below(t, f.path) \subseteq f.doomed
          \/ f.pipe = <<DelKey(f.path)>> /\ Below(t, f.path) \subseteq f.doomed \cup {f.path}
    /\ f.pc = "unlist" => f.at = 1 /\ Below(t, f.path) = {}
    /\ f.pc = "exec" /\ f.at = 2 =>
          /\ f.doomed = {} /\ Below(t, f.path) = {}
          /\ \A i \in DOMAIN f.pipe : f.pipe[i].key = Parent(f.path)
          /\ ChildName(f.path) \notin Final(t, f.pipe, Parent(f.path)).kids
    /\ f.pc = "returned" =>
          \A p \in f.touched : Below(t, p) = {} /\ ChildName(p) \notin DirIndex(t, Parent(p))

TreeInv ==
    \A c \in Clients \ Failing :
        c \in undisturbed /\ stack[c] # << >> /\ stack[c][1].call = "DelTree" =>
            Descends(db, stack[c][1])

\* A pattern that finds its prefix finds what is under it.
LEMMA UnderMatches ==
  ASSUME NEW p \in Paths, Matches(p, p), NEW q \in Paths, Under(q, p)
  PROVE  Matches(q, p)
<1>1. Len(p) \in Nat /\ Len(q) \in Nat /\ Len(p) <= Len(q) /\ \A i \in 1 .. Len(p) : q[i] = p[i]
  BY PathSeq, UnderMeans
<1> QED  BY <1>1 DEF Matches

\* Deleting a key of the prefix, or writing one outside, adds nothing below it.
LEMMA BelowAfter ==
  ASSUME NEW t, GoodDb(t), NEW p, NEW q \in Paths, NEW v \in GoodValue,
         v.kind = "absent" \/ ~ Under(q, p)
  PROVE  /\ Below([t EXCEPT ![q] = v], p) \subseteq Below(t, p)
         /\ v.kind = "absent" => q \notin Below([t EXCEPT ![q] = v], p)
BY DEF Below, Keys, Present, ValueAt, GoodDb

LEMMA TreeBeginsWith ==
  ASSUME TypeInv, NEW c \in Clients, Begin(c), stack'[c] # << >>, stack'[c][1].call = "DelTree"
  PROVE  \E p \in DelTreeCalls[c] :
            stack'[c][1] = [Blank EXCEPT !.call = "DelTree", !.pc = "link", !.path = p]
<1>1. ASSUME NEW f, Enter(c, f)
      PROVE  stack'[c][1] = f
  BY <1>1 DEF Enter, TypeInv, StackInv
<1>2. \A x : SetFrame(x).call # "DelTree" /\ DelFrame(x).call # "DelTree"
  BY BlankType DEF SetFrame, DelFrame
<1>3. ~ Clear(c)
  BY AbortTop DEF Clear
<1>4. ~ SetBegin(c) /\ ~ DelBegin(c)
  BY <1>1, <1>2 DEF SetBegin, DelBegin
<1>5. ~ MkindexBegin(c) /\ ~ ExtIndexBegin(c) /\ ~ DelExtBegin(c)
  BY <1>1, BlankType DEF MkindexBegin, ExtIndexBegin, DelExtBegin, GoodFields
<1>6. PICK p \in DelTreeCalls[c] :
          Enter(c, [Blank EXCEPT !.call = "DelTree", !.pc = "link", !.path = p])
  BY <1>3, <1>4, <1>5 DEF Begin, DelTreeBegin
<1> QED  BY <1>1, <1>6

LEMMA TreeBegins ==
  ASSUME PatternsFind, TypeInv, NEW c \in Clients, Begin(c),
         stack'[c] # << >>, stack'[c][1].call = "DelTree"
  PROVE  Descends(db', stack'[c][1])
<1>1. PICK p \in DelTreeCalls[c] :
          stack'[c][1] = [Blank EXCEPT !.call = "DelTree", !.pc = "link", !.path = p]
  BY TreeBeginsWith
<1> DEFINE f == [Blank EXCEPT !.call = "DelTree", !.pc = "link", !.path = p]
<1>2. f.pc = "link" /\ f.at = 1 /\ f.path = p
  BY BlankType DEF GoodFields
<1>3. Matches(p, p)
  BY RedisAssumption DEF RedisAssumption, PatternsFind
<1> HIDE DEF f
<1> QED  BY <1>1, <1>2, <1>3 DEF Descends, f

LEMMA RemoveChildFinal ==
  ASSUME NEW t, GoodDb(t), NEW p \in Paths \ {Root}
  PROVE  /\ \A i \in DOMAIN RemoveChild(t, p) : RemoveChild(t, p)[i].key = Parent(p)
         /\ ChildName(p) \notin Final(t, RemoveChild(t, p), Parent(p)).kids
<1> DEFINE d == Parent(p)
           v == ValueAt(t, d)
           left == {k \in v.kids : k.name # ChildName(p).name}
           w == [key |-> d, val |-> [v EXCEPT !.kids = left]]
<1>1. v \in GoodValue /\ d \in Paths
  BY ValueAtType, ParentDir DEF Dirs
<1>2. CASE v.kind = "absent"
  <2>1. RemoveChild(t, p) = << >> /\ v.kids = {}
    BY <1>1, <1>2, ValueFields DEF RemoveChild
  <2>2. Final(t, << >>, d) = v
    BY FinalEmpty
  <2> QED  BY <2>1, <2>2
<1>3. CASE v.kind # "absent"
  <2>1. RemoveChild(t, p) = <<w>>
    BY <1>3 DEF RemoveChild
  <2>2. [v EXCEPT !.kids = left] \in GoodValue /\ [v EXCEPT !.kids = left].kids = left
    <3>1. left \in SUBSET Child
      BY <1>1, ValueFields
    <3> HIDE DEF v, left
    <3> QED  BY <1>1, <1>3, <3>1, ValueFields
  <2>3. w \in GoodWrite /\ w.key = d /\ w.val.kids = left
    BY <1>1, <2>2 DEF GoodWrite
  <2>4. ChildName(p) \notin left
    OBVIOUS
  <2> HIDE DEF w, left
  <2>5. Final(t, <<w>>, d) = w.val
    <3>1. <<w>> = Append(<< >>, w) /\ << >> \in Seq(GoodWrite)
      OBVIOUS
    <3>2. Final(t, Append(<< >>, w), d) = w.val
      BY <2>3, <3>1, FinalAppend
    <3> QED  BY <3>1, <3>2
  <2>6. \A i \in DOMAIN <<w>> : <<w>>[i].key = d
    BY <2>3
  <2> QED  BY <2>1, <2>3, <2>4, <2>5, <2>6
<1> QED  BY <1>2, <1>3

LEMMA NoLinks ==
  ASSUME NEW t, GoodDb(t), LinkTargets = {}, NEW p
  PROVE  ~ Follows(t, p)
<1>1. ASSUME NEW q
      PROVE  ValueAt(t, q).kind # "ptr"
  BY ValueAtType DEF GoodValue
<1> QED  BY <1>1 DEF Follows, LinkDepths

LEMMA TreeSteps ==
  ASSUME PatternsFind, TypeInv, NEW c \in Clients, Step(c), stack'[c] # << >>,
         Top(c).call = "DelTree", stack'[c][1].call = "DelTree", Descends(db, Top(c))
  PROVE  Descends(db', stack'[c][1])
<1> DEFINE f == Top(c)
           g == stack'[c][1]
           p == f.path
<1>1. Busy(c)
  BY DelTreeActions DEF FollowLink, DelTreeLink, DelTreeScan, DelTreeUnlist,
         ExecCommand, ExecDoomed, ExecDone, At, Resolved
<1>2. f \in GoodFields /\ p \in Paths \ {Root} /\ GoodDb(db) /\ f.call = "DelTree"
  BY <1>1, TopType DEF TypeInv
<1>3. \A h : Continue(c, h) => g = h
  BY <1>1, ContinueTop
<1>4. ~ Abort(c)
  BY AbortTop
<1> HIDE DEF g
<1>5. CASE FollowLink(c)
  <2>1. f.pc = "resolve" /\ f.at = 1
    BY <1>1, <1>2, <1>5, TopType DEF FollowLink, At, OnRoute, Descends
  <2>2. Follows(db, p) /\ g = [f EXCEPT !.path = Pass(db, p)]
    BY <1>3, <1>5, <2>1 DEF FollowLink, At
  <2>3. Pass(db, p) \in Paths \ {Root}
    BY <1>2, <2>2, PassPath
  <2>4. Matches(Pass(db, p), Pass(db, p))
    BY <1>2, <2>2, <2>3, NoLinks DEF PatternsFind
  <2>5. g.pc = "resolve" /\ g.at = 1 /\ g.path = Pass(db, p)
    BY <1>2, <2>1, <2>2 DEF GoodFields
  <2> QED  BY <2>4, <2>5 DEF Descends, g
<1>6. CASE DelTreeLink(c)
  <2>1. f.pc = "link" /\ f.at = 1 /\ Matches(p, p)
    BY <1>6 DEF DelTreeLink, At, Descends
  <2>2. g = DelFrame(<<p>>) \/ g = [f EXCEPT !.pc = "resolve"]
    BY <1>3, <1>6 DEF DelTreeLink
  <2>3. DelFrame(<<p>>).call # "DelTree"
    BY BlankType DEF DelFrame
  <2>4. g.pc = "resolve" /\ g.at = 1 /\ g.path = p
    BY <1>2, <2>1, <2>2, <2>3 DEF GoodFields, g
  <2> QED  BY <2>1, <2>4 DEF Descends, g
<1>7. CASE DelTreeScan(c)
  <2> DEFINE doomed == {q \in Keys(db) : Matches(q, p)} \ {p}
  <2>1. /\ f.pc = "resolve" /\ f.at = 1 /\ Matches(p, p) /\ db' = db
        /\ g = [f EXCEPT !.pc = "exec", !.touched = {p}, !.pipe = <<DelKey(p)>>,
                         !.doomed = doomed]
    BY <1>3, <1>7 DEF DelTreeScan, Resolved, At, Descends
  <2>2. Below(db, p) \subseteq doomed \cup {p}
    BY <1>2, <2>1, UnderMatches DEF Below, Keys
  <2> HIDE DEF doomed
  <2>3. /\ g.pc = "exec" /\ g.at = 1 /\ g.path = p /\ g.touched = {p}
        /\ g.pipe = <<DelKey(p)>> /\ g.doomed = doomed
    BY <1>2, <2>1 DEF GoodFields
  <2> QED  BY <2>1, <2>2, <2>3 DEF Descends, g
<1>8. CASE DelTreeUnlist(c)
  <2> DEFINE pipe == RemoveChild(db, p)
  <2>1. /\ f.pc = "unlist" /\ db' = db
        /\ g = [f EXCEPT !.pc = "exec", !.at = 2, !.pipe = pipe]
    BY <1>3, <1>4, <1>8 DEF DelTreeUnlist, At
  <2>2. f.touched = {p} /\ Below(db, p) = {} /\ f.doomed = {}
    BY <1>1, <2>1, TopType DEF Descends, OnRoute
  <2>3. /\ \A i \in DOMAIN pipe : pipe[i].key = Parent(p)
        /\ ChildName(p) \notin Final(db, pipe, Parent(p)).kids
    BY <1>2, RemoveChildFinal
  <2> HIDE DEF pipe
  <2>4. /\ g.pc = "exec" /\ g.at = 2 /\ g.path = p /\ g.touched = {p}
        /\ g.pipe = pipe /\ g.doomed = {}
    BY <1>2, <2>1, <2>2 DEF GoodFields
  <2> QED  BY <2>1, <2>2, <2>3, <2>4 DEF Descends, g
<1>9. CASE ExecCommand(c)
  <2> DEFINE w == Head(f.pipe)
             t == [db EXCEPT ![w.key] = w.val]
  <2>1. /\ f.pc = "exec" /\ f.pipe # << >> /\ db' = t
        /\ g = [f EXCEPT !.pipe = Tail(@)]
    BY <1>3, <1>9 DEF ExecCommand, At
  <2>2. f.pipe \in Seq(GoodWrite) /\ f.touched = {p} /\ f.at \in {1, 2}
    BY <1>2, <2>1 DEF Descends, GoodFields
  <2>3. /\ w \in GoodWrite /\ Tail(f.pipe) \in Seq(GoodWrite) /\ w = f.pipe[1] /\ 1 \in DOMAIN f.pipe
        /\ w.key \in Paths /\ w.val \in GoodValue
    BY <2>1, <2>2, FirstWrite
  <2>4. g.pc = "exec" /\ g.at = f.at /\ g.path = p /\ g.touched = {p}
        /\ g.pipe = Tail(f.pipe) /\ g.doomed = f.doomed
    BY <1>2, <2>1, <2>2 DEF GoodFields
  <2> HIDE DEF w, t
  <2>5. CASE f.at = 1
    <3>1. f.pipe = <<DelKey(p)>> /\ Below(db, p) \subseteq f.doomed \cup {p}
      BY <2>1, <2>5 DEF Descends
    <3>2. w = DelKey(p) /\ Tail(f.pipe) = << >>
      BY <3>1 DEF w
    <3>3. w.key = p /\ w.val.kind = "absent"
      BY <3>2, PlainValues DEF DelKey
    <3>4. Below(t, p) \subseteq Below(db, p) /\ p \notin Below(t, p)
      BY <1>2, <2>3, <3>3, BelowAfter DEF t
    <3>5. g.pipe = << >> /\ Below(t, p) \subseteq g.doomed
      BY <2>4, <3>1, <3>2, <3>4
    <3> QED  BY <2>1, <2>4, <2>5, <3>5 DEF Descends, g
  <2>6. CASE f.at = 2
    <3>1. /\ f.doomed = {} /\ Below(db, p) = {}
          /\ \A i \in DOMAIN f.pipe : f.pipe[i].key = Parent(p)
          /\ ChildName(p) \notin Final(db, f.pipe, Parent(p)).kids
      BY <2>1, <2>6 DEF Descends
    <3>2. w.key = Parent(p) /\ ~ Under(Parent(p), p)
      BY <1>2, <2>3, <3>1, UnderItself
    <3>3. Below(t, p) = {}
      <4>1. ~ Under(w.key, p) /\ w.key \in Paths /\ w.val \in GoodValue
        BY <2>3, <3>2
      <4>2. Below(t, p) \subseteq Below(db, p)
        BY <1>2, <4>1, BelowAfter DEF t
      <4> QED  BY <3>1, <4>2
    <3>4. Final(t, Tail(f.pipe), Parent(p)) = Final(db, f.pipe, Parent(p))
      BY <1>2, <2>1, <2>2, FinalStep DEF t, w
    <3>5. \A i \in DOMAIN Tail(f.pipe) : Tail(f.pipe)[i].key = Parent(p)
      BY <2>1, <2>2, <3>1, FirstWrite
    <3> QED  BY <2>1, <2>4, <2>6, <3>1, <3>3, <3>4, <3>5 DEF Descends, g
  <2> QED  BY <2>2, <2>5, <2>6
<1>10. CASE ExecDoomed(c)
  <2>1. PICK q \in f.doomed : /\ db' = [db EXCEPT ![q] = Absent]
                              /\ g = [f EXCEPT !.doomed = @ \ {q}]
    BY <1>3, <1>10 DEF ExecDoomed
  <2>2. f.pc = "exec" /\ f.pipe = << >> /\ q \in Paths
    BY <1>2, <1>10 DEF ExecDoomed, At, GoodFields
  <2>3. f.touched = {p} /\ f.at = 1 /\ Below(db, p) \subseteq f.doomed
    <3>1. <<DelKey(p)>> # << >>
      OBVIOUS
    <3> QED  BY <2>1, <2>2, <3>1 DEF Descends
  <2>4. Below(db', p) \subseteq f.doomed \ {q}
    <3>1. Below(db', p) \subseteq Below(db, p) /\ q \notin Below(db', p)
      BY <1>2, <2>1, <2>2, PlainValues, BelowAfter
    <3> QED  BY <2>3, <3>1
  <2>5. g.pc = "exec" /\ g.at = 1 /\ g.path = p /\ g.touched = {p}
        /\ g.pipe = << >> /\ g.doomed = f.doomed \ {q}
    BY <1>2, <2>1, <2>2, <2>3 DEF GoodFields
  <2> QED  BY <2>4, <2>5 DEF Descends, g
<1>11. CASE ExecDone(c)
  <2>1. f.pc = "exec" /\ f.pipe = << >> /\ f.doomed = {} /\ db' = db
    BY <1>11 DEF ExecDone, At
  <2>2. f.touched = {p} /\ f.at \in {1, 2}
    BY <2>1 DEF Descends
  <2>3. CASE f.at = 1
    <3>1. g = [f EXCEPT !.pc = "unlist"]
      BY <1>2, <1>3, <1>11, <2>3 DEF ExecDone
    <3>2. g.pc = "unlist" /\ g.at = 1 /\ g.path = p /\ g.touched = {p}
      BY <1>2, <2>2, <2>3, <3>1 DEF GoodFields
    <3>3. Below(db, p) = {}
      <4>1. <<DelKey(p)>> # << >>
        OBVIOUS
      <4> QED  BY <2>1, <2>3, <4>1 DEF Descends
    <3> QED  BY <2>1, <3>2, <3>3 DEF Descends, g
  <2>4. CASE f.at = 2
    <3>1. Return(c, f)
      BY <1>2, <1>11, <2>4 DEF ExecDone
    <3>2. g = Done(f.call, f.touched)
      BY <1>1, <3>1, ReturnTop DEF g
    <3>3. g.pc = "returned" /\ g.touched = {p}
      BY <2>2, <3>2, DoneFields
    <3>4. Below(db, p) = {} /\ ChildName(p) \notin Final(db, << >>, Parent(p)).kids
      BY <2>1, <2>4 DEF Descends
    <3>5. ChildName(p) \notin DirIndex(db, Parent(p))
      BY <3>4, FinalEmpty DEF DirIndex
    <3> QED  BY <2>1, <3>3, <3>4, <3>5 DEF Descends, g
  <2> QED  BY <2>2, <2>3, <2>4
<1> QED  BY <1>5, <1>6, <1>7, <1>8, <1>9, <1>10, <1>11, DelTreeActions

LEMMA TreeStep == PatternsFind /\ TypeInv /\ TreeInv /\ [Next]_vars => TreeInv'
<1> SUFFICES ASSUME PatternsFind, TypeInv, TreeInv, [Next]_vars, NEW c \in Clients \ Failing,
                    c \in undisturbed', stack'[c] # << >>, stack'[c][1].call = "DelTree"
             PROVE  Descends(db', stack'[c][1])
  BY DEF TreeInv
<1>1. CASE UNCHANGED vars
  BY <1>1 DEF vars, TreeInv
<1>2. CASE Next
  <2>1. PICK d \in Clients : Begin(d) \/ Step(d) \/ Fault(d)
    BY <1>2 DEF Next
  <2>2. CASE d # c
    BY <2>1, <2>2, OtherClient DEF TreeInv
  <2>3. CASE d = c /\ Begin(c)
    BY <2>3, TreeBegins
  <2>4. CASE d = c /\ Step(c)
    <3>1. Top(c).call = "DelTree"
      BY <2>4, CallKept
    <3>2. Busy(c) /\ c \in undisturbed
      BY <2>4, <3>1, DelTreeActions DEF FollowLink, DelTreeLink, DelTreeScan, DelTreeUnlist,
         ExecCommand, ExecDoomed, ExecDone, At, Resolved
    <3>3. stack[c] # << >> /\ Top(c) = stack[c][1]
      BY <3>2, BusyTop DEF TypeInv
    <3> QED  BY <2>4, <3>1, <3>2, <3>3, TreeSteps DEF TreeInv
  <2>5. CASE d = c /\ Fault(c)
    BY <2>5, AbortTop DEF Fault, ExecFails, Crash
  <2> QED  BY <2>1, <2>2, <2>3, <2>4, <2>5
<1> QED  BY <1>1, <1>2

\* A DelTree that returns, while no other client writes, has left nothing below
\* its prefix, listed or not, and its name is not listed, if the pattern of its
\* scan finds the prefix: the keys that were there when it started are then in
\* the scan, and its own writes add none.
THEOREM TreeCleared ==
  ASSUME PatternsFind
  PROVE  Spec => []DelTreeClears
<1>1. Init => TreeInv
  BY DEF Init, TreeInv
<1>2. TypeInv /\ TreeInv => DelTreeClears
  <2> SUFFICES ASSUME TypeInv, TreeInv, NEW c \in Clients \ Failing, NEW p \in Paths,
                      Did(c, "DelTree"), p \in Top(c).touched
               PROVE  /\ \A q \in Keys(db) : ~ Under(q, p)
                      /\ ChildName(p) \notin DirIndex(db, Parent(p))
    BY DEF DelTreeClears
  <2>1. /\ c \in undisturbed /\ stack[c] # << >> /\ Top(c).pc = "returned"
        /\ Top(c).call = "DelTree" /\ Top(c) = stack[c][1]
    BY DEF Did, Busy, Top, TypeInv, StackInv, GoodStack
  <2>2. Descends(db, Top(c))
    BY <2>1 DEF TreeInv
  <2> QED  BY <2>1, <2>2 DEF Descends, Below
<1> QED  BY <1>1, <1>2, TypeInvariant, TreeStep, PTL DEF Spec

-----------------------------------------------------------------------------
(* Del *)

\* No key of a Del undoes what it does for another: the earlier one is neither
\* the directory of the later one nor in it.
Apart(p, q) == LinkTargets = {} /\ Parent(q) # Parent(p) /\ Parent(q) # p

DelsApart ==
    \A c \in Clients : \A keys \in DelCalls[c] :
        \A i, j \in DOMAIN keys : i < j => Apart(keys[i], keys[j])

\* The pipeline leaves neither p nor its name.
Forgotten(t, pipe, p) ==
    /\ Final(t, pipe, p).kind = "absent"
    /\ ChildName(p) \notin Final(t, pipe, Parent(p)).kids

\* What a Del has queued, while no other client writes.
Forgets(t, f) ==
    /\ \A p \in f.touched : Forgotten(t, f.pipe, p)
    /\ f.pc \in {"resolveParent", "remove"} =>
          /\ \A i, j \in DOMAIN f.keys : i < j => Apart(f.keys[i], f.keys[j])
          /\ \A p \in f.touched : \A i \in DOMAIN f.keys : Apart(p, f.keys[i])
          /\ LinkTargets = {} => f.path = Head(f.keys)
          /\ \A i \in DOMAIN f.pipe :
                \/ f.pipe[i].val = Absent
                \/ \E p \in f.touched : f.pipe[i].key = Parent(p)
    /\ f.pc = "returned" => f.pipe = << >>

DelInv ==
    \A c \in Clients \ Failing :
        c \in undisturbed /\ stack[c] # << >> /\ stack[c][1].call = "Del" =>
            Forgets(db, stack[c][1])

\* The commands that take key p out.
Gone(p) == IF IsDir(p) THEN <<DelKey(AsFile(p)), DelKey(p)>> ELSE <<DelKey(p)>>

LEMMA GoneWrites ==
  ASSUME NEW p \in Paths
  PROVE  /\ Gone(p) \in Seq(GoodWrite)
         /\ \A i \in DOMAIN Gone(p) : Gone(p)[i].val = Absent
         /\ \E i \in DOMAIN Gone(p) : Gone(p)[i].key = p
<1>1. DelKey(AsFile(p)) \in GoodWrite /\ DelKey(p) \in GoodWrite
  BY DelKeyType, ClosedAssumption DEF ClosedAssumption
<1>2. \A q : DelKey(q).val = Absent /\ DelKey(q).key = q
  BY DEF DelKey
<1> DEFINE a == DelKey(AsFile(p))
           b == DelKey(p)
<1>3. a \in GoodWrite /\ b \in GoodWrite /\ a.val = Absent /\ b.val = Absent /\ b.key = p
  BY <1>1, <1>2
<1> HIDE DEF a, b
<1>4. CASE IsDir(p)
  <2>1. /\ <<a, b>> \in Seq(GoodWrite) /\ DOMAIN <<a, b>> = {1, 2}
        /\ <<a, b>>[1] = a /\ <<a, b>>[2] = b
    BY <1>3
  <2>2. Gone(p) = <<a, b>>
    BY <1>4 DEF Gone, a, b
  <2> QED  BY <1>3, <2>1, <2>2
<1>5. CASE ~ IsDir(p)
  <2>1. <<b>> \in Seq(GoodWrite) /\ DOMAIN <<b>> = {1} /\ <<b>>[1] = b
    BY <1>3
  <2>2. Gone(p) = <<b>>
    BY <1>5 DEF Gone, b
  <2> QED  BY <1>3, <2>1, <2>2
<1> QED  BY <1>4, <1>5

\* A pipeline with more commands, which delete keys or write d.
Lengthened(new, pipe, d) ==
    \A i \in DOMAIN new :
        new[i].val = Absent \/ new[i].key = d \/ \E j \in DOMAIN pipe : new[i] = pipe[j]

LEMMA ForgetWrites ==
  ASSUME NEW t, GoodDb(t), NEW p \in Paths \ {Root}, NEW pipe \in Seq(GoodWrite), NEW new,
         new = pipe \o Gone(p) \o RemoveChild(t, p)
  PROVE  Lengthened(new, pipe, Parent(p))
<1> DEFINE gone == Gone(p)
           rc == RemoveChild(t, p)
           two == pipe \o gone
           d == Parent(p)
<1>1. /\ gone \in Seq(GoodWrite) /\ rc \in Seq(GoodWrite)
      /\ \A j \in DOMAIN gone : gone[j].val = Absent
  BY GoneWrites, RemoveChildType
<1>2. \A j \in DOMAIN rc : rc[j].key = d
  BY RemoveChildFinal
<1> HIDE DEF gone, rc, d
<1>3. two \in Seq(GoodWrite)
  BY <1>1
<1>4. new = two \o rc
  BY DEF gone, rc
<1>5. ASSUME NEW i \in DOMAIN new
      PROVE  new[i].val = Absent \/ new[i].key = d \/ \E j \in DOMAIN pipe : new[i] = pipe[j]
  <2>1. /\ Len(new) = Len(two) + Len(rc) /\ Len(two) \in Nat /\ Len(rc) \in Nat
        /\ \A j \in 1 .. Len(two) + Len(rc) :
              new[j] = IF j <= Len(two) THEN two[j] ELSE rc[j - Len(two)]
        /\ DOMAIN new = 1 .. Len(two) + Len(rc) /\ DOMAIN rc = 1 .. Len(rc)
    <3> HIDE DEF two
    <3> QED  BY <1>1, <1>3, <1>4, ConcatProperties
  <2>2. /\ Len(two) = Len(pipe) + Len(gone) /\ Len(pipe) \in Nat /\ Len(gone) \in Nat
        /\ \A j \in 1 .. Len(pipe) + Len(gone) :
              two[j] = IF j <= Len(pipe) THEN pipe[j] ELSE gone[j - Len(pipe)]
        /\ DOMAIN pipe = 1 .. Len(pipe) /\ DOMAIN gone = 1 .. Len(gone)
    BY <1>1, ConcatProperties
  <2> HIDE DEF two
  <2>3. CASE i > Len(two)
    <3>1. new[i] = rc[i - Len(two)] /\ i - Len(two) \in DOMAIN rc
      BY <2>1, <2>3
    <3> QED  BY <1>2, <3>1
  <2>4. CASE i <= Len(two) /\ i > Len(pipe)
    <3>1. new[i] = gone[i - Len(pipe)] /\ i - Len(pipe) \in DOMAIN gone
      BY <2>1, <2>2, <2>4
    <3> QED  BY <1>1, <3>1
  <2>5. CASE i <= Len(two) /\ i <= Len(pipe)
    <3>1. new[i] = pipe[i] /\ i \in DOMAIN pipe
      BY <2>1, <2>2, <2>5
    <3> QED  BY <3>1
  <2> QED  BY <2>1, <2>2, <2>3, <2>4, <2>5
<1> QED  BY <1>5 DEF d, Lengthened

\* What a Del queues for one more key p.
LEMMA ForgetMore ==
  ASSUME NEW t, GoodDb(t), NEW p \in Paths \ {Root}, NEW pipe \in Seq(GoodWrite)
  PROVE  LET new == pipe \o Gone(p) \o RemoveChild(t, p)
         IN  /\ (\A i \in DOMAIN pipe : pipe[i].key = Parent(p) => pipe[i].val = Absent)
                    => Forgotten(t, new, p)
             /\ \A q : Forgotten(t, pipe, q) /\ q # Parent(p) /\ Parent(q) # Parent(p)
                    => Forgotten(t, new, q)
<1> DEFINE gone == Gone(p)
           rc == RemoveChild(t, p)
           two == pipe \o gone
           new == two \o rc
           d == Parent(p)
<1>1. /\ gone \in Seq(GoodWrite) /\ rc \in Seq(GoodWrite)
      /\ \A i \in DOMAIN gone : gone[i].val = Absent
      /\ \E i \in DOMAIN gone : gone[i].key = p
  BY GoneWrites, RemoveChildType
<1>2. /\ \A i \in DOMAIN rc : rc[i].key = d
      /\ ChildName(p) \notin Final(t, rc, d).kids
  BY RemoveChildFinal
<1>3. d # p
  <2>1. Len(p) \in Nat /\ Len(p) # 0 /\ Len(p) - 1 \in 0 .. Len(p)
    BY PathSeq DEF Root
  <2>2. Len(d) = Len(p) - 1
    BY <2>1, AncestorSeq DEF Parent
  <2> QED  BY <2>1, <2>2
<1> HIDE DEF gone, rc, d
<1>4. \A q : Final(t, two, q) = IF \E i \in DOMAIN gone : gone[i].key = q
                                THEN Absent ELSE Final(t, pipe, q)
  BY <1>1, FinalConcat, FinalDeleted
<1>5. two \in Seq(GoodWrite)
  BY <1>1
<1>6. \A q : Final(t, new, q) = IF \E i \in DOMAIN rc : rc[i].key = q
                                THEN Final(t, rc, q) ELSE Final(t, two, q)
  <2> HIDE DEF two
  <2>1. rc \in Seq(GoodWrite) /\ two \in Seq(GoodWrite)
    BY <1>1, <1>5
  <2>2. \A q : Final(t, two \o rc, q) = IF \E i \in DOMAIN rc : rc[i].key = q
                                       THEN Final(t, rc, q) ELSE Final(t, two, q)
    BY <2>1, FinalConcat, Zenon
  <2> QED  BY <2>2
<1>8. ASSUME \A i \in DOMAIN pipe : pipe[i].key = d => pipe[i].val = Absent
      PROVE  Forgotten(t, new, p)
  <2>1. Final(t, new, p).kind = "absent"
    <3>1. Final(t, new, p) = Absent
      BY <1>1, <1>2, <1>3, <1>4, <1>6
    <3> QED  BY <3>1, PlainValues
  <2>2. ChildName(p) \notin Final(t, new, d).kids
    <3>1. CASE \E i \in DOMAIN rc : rc[i].key = d
      BY <1>2, <1>6, <3>1
    <3>2. CASE ~ \E i \in DOMAIN rc : rc[i].key = d
      <4>1. Final(t, rc, d) = ValueAt(t, d)
        BY <3>2, FinalNone
      <4>2. Final(t, pipe, d) \in {Absent, ValueAt(t, d)}
        BY <1>8, FinalDeleted
      <4>3. Final(t, new, d) \in {Absent, ValueAt(t, d)}
        BY <1>4, <1>6, <3>2, <4>2
      <4> QED  BY <1>2, <4>1, <4>3, PlainValues
    <3> QED  BY <3>1, <3>2
  <2> HIDE DEF new
  <2> QED  BY <2>1, <2>2 DEF Forgotten, d
<1>9. ASSUME NEW q, Forgotten(t, pipe, q), q # d, Parent(q) # d
      PROVE  Forgotten(t, new, q)
  <2>1. ASSUME NEW k, k # d
        PROVE  Final(t, new, k) \in {Absent, Final(t, pipe, k)}
    BY <1>2, <1>4, <1>6, <2>1
  <2>2. /\ Final(t, new, q) \in {Absent, Final(t, pipe, q)}
        /\ Final(t, new, Parent(q)) \in {Absent, Final(t, pipe, Parent(q))}
    BY <1>9, <2>1
  <2> HIDE DEF new
  <2> QED  BY <1>9, <2>2, PlainValues DEF Forgotten
<1> QED  BY <1>8, <1>9 DEF gone, rc, d

LEMMA DelFrameForgets ==
  ASSUME NEW t, NEW keys \in Seq(Paths \ {Root}), keys # << >>,
         \A i, j \in DOMAIN keys : i < j => Apart(keys[i], keys[j])
  PROVE  Forgets(t, DelFrame(keys))
<1> DEFINE f == DelFrame(keys)
<1>1. f.touched = {} /\ f.pipe = << >> /\ f.keys = keys /\ f.pc = "resolveParent"
  BY DelFrameType
<1>2. f.path = Head(keys)
  BY BlankType DEF DelFrame, GoodFields
<1> HIDE DEF f
<1> QED  BY <1>1, <1>2 DEF Forgets, f

LEMMA DelBegins ==
  ASSUME DelsApart, TypeInv, DelInv, NEW c \in Clients \ Failing, Begin(c),
         stack'[c] # << >>, stack'[c][1].call = "Del"
  PROVE  Forgets(db', stack'[c][1])
<1>1. ASSUME NEW f, Enter(c, f)
      PROVE  stack'[c][1] = f
  BY <1>1 DEF Enter, TypeInv, StackInv
<1>2. \A x : SetFrame(x).call # "Del"
  BY BlankType DEF SetFrame
<1>3. ~ Clear(c) /\ ~ SetBegin(c)
  BY <1>1, <1>2, AbortTop DEF Clear, SetBegin
<1>4. ~ DelTreeBegin(c) /\ ~ MkindexBegin(c) /\ ~ ExtIndexBegin(c) /\ ~ DelExtBegin(c)
  <2>1. ~ DelTreeBegin(c)
    BY <1>1, BlankType DEF DelTreeBegin, GoodFields
  <2>2. ~ MkindexBegin(c)
    BY <1>1, BlankType DEF MkindexBegin, GoodFields
  <2>3. ~ ExtIndexBegin(c)
    BY <1>1, BlankType DEF ExtIndexBegin, GoodFields
  <2>4. ~ DelExtBegin(c)
    BY <1>1, BlankType DEF DelExtBegin, GoodFields
  <2> QED  BY <2>1, <2>2, <2>3, <2>4
<1>5. PICK keys \in DelCalls[c] : Enter(c, DelFrame(keys))
  BY <1>3, <1>4 DEF Begin, DelBegin
<1>6. keys \in Seq(Paths \ {Root}) /\ keys # << >>
  BY RedisAssumption DEF RedisAssumption
<1>7. Forgets(db', DelFrame(keys))
  BY <1>6, DelFrameForgets DEF DelsApart
<1> QED  BY <1>1, <1>5, <1>7

LEMMA DelQueueForgets ==
  ASSUME TypeInv, NEW c \in Clients, DelQueue(c), stack'[c] # << >>, Forgets(db, Top(c))
  PROVE  Forgets(db', stack'[c][1])
<1> DEFINE f == Top(c)
           g == stack'[c][1]
           p == f.path
           rest == Tail(f.keys)
           pipe == f.pipe \o Gone(p) \o RemoveChild(db, p)
           queued == [f EXCEPT !.keys = rest, !.pipe = pipe, !.touched = @ \cup {p}]
<1>1. Busy(c) /\ f.pc = "remove" /\ db' = db /\ GoodDb(db)
  BY DEF DelQueue, At, TypeInv
<1>2. f \in GoodFields /\ p \in Paths \ {Root} /\ f.keys # << >> /\ f.call = "Del"
  BY <1>1, TopType DEF OnRoute
<1>3. f.pipe \in Seq(GoodWrite) /\ f.keys \in Seq(Paths \ {Root}) /\ f.touched \subseteq Paths \ {Root}
  BY <1>2 DEF GoodFields
<1>4. \A h : Continue(c, h) => g = h
  BY <1>1, ContinueTop
<1>5. \/ g = [queued EXCEPT !.pc = "exec"]
      \/ rest # << >> /\ g = [queued EXCEPT !.pc = "resolveParent", !.path = Head(rest)]
  BY <1>4, AbortTop DEF DelQueue, Removed, Gone
<1>6. /\ \A i \in DOMAIN rest : i + 1 \in DOMAIN f.keys /\ rest[i] = f.keys[i + 1] /\ 1 < i + 1
      /\ 1 \in DOMAIN f.keys /\ f.keys[1] = Head(f.keys) /\ DOMAIN rest \subseteq Nat
  BY <1>2, <1>3
<1>7. /\ g.touched = f.touched \cup {p} /\ g.pipe = pipe
      /\ \/ g.pc = "exec"
         \/ g.pc = "resolveParent" /\ g.keys = rest /\ g.path = Head(rest)
  <2> HIDE DEF pipe, rest
  <2>1. /\ queued.pc = f.pc /\ queued.touched = f.touched \cup {p} /\ queued.pipe = pipe
        /\ queued.keys = rest /\ DOMAIN queued = DOMAIN f
    BY <1>2 DEF GoodFields
  <2>2. DOMAIN f = {"call", "pc", "pairs", "keys", "path", "target", "dir", "at", "touched",
                    "todo", "pipe", "doomed"}
    BY <1>2 DEF GoodFields
  <2> HIDE DEF queued, g
  <2>3. CASE g = [queued EXCEPT !.pc = "exec"]
    BY <2>1, <2>2, <2>3
  <2>4. CASE g = [queued EXCEPT !.pc = "resolveParent", !.path = Head(rest)]
    BY <1>1, <2>1, <2>2, <2>4
  <2> QED  BY <1>5, <2>3, <2>4
<1> HIDE DEF g, rest
<1>8. /\ \A i, j \in DOMAIN f.keys : i < j => Apart(f.keys[i], f.keys[j])
      /\ \A q \in f.touched : Apart(q, f.keys[1])
      /\ LinkTargets = {} => p = f.keys[1]
      /\ \A i \in DOMAIN f.pipe :
            f.pipe[i].val = Absent \/ \E q \in f.touched : f.pipe[i].key = Parent(q)
  BY <1>1, <1>6 DEF Forgets
<1>9. ASSUME NEW q \in f.touched
      PROVE  Apart(q, p)
  BY <1>8, <1>9 DEF Apart
<1>10. \A q \in g.touched : Forgotten(db, pipe, q)
  <2>1. ASSUME NEW q \in f.touched
        PROVE  Forgotten(db, pipe, q)
    <3>1. Forgotten(db, f.pipe, q) /\ Parent(p) # Parent(q) /\ Parent(p) # q
      BY <1>9 DEF Forgets, Apart
    <3> QED  BY <1>1, <1>2, <1>3, <3>1, ForgetMore
  <2>2. Forgotten(db, pipe, p)
    <3>1. \A i \in DOMAIN f.pipe : f.pipe[i].key = Parent(p) => f.pipe[i].val = Absent
      BY <1>8, <1>9 DEF Apart
    <3> QED  BY <1>1, <1>2, <1>3, <3>1, ForgetMore
  <2> QED  BY <1>7, <2>1, <2>2
<1>11. CASE g.pc = "exec"
  BY <1>1, <1>7, <1>10, <1>11 DEF Forgets, g
<1>12. CASE g.pc = "resolveParent" /\ g.keys = rest /\ g.path = Head(rest)
  <2>1. \A i, j \in DOMAIN rest : i < j => Apart(rest[i], rest[j])
    <3> SUFFICES ASSUME NEW i \in DOMAIN rest, NEW j \in DOMAIN rest, i < j
                 PROVE  Apart(rest[i], rest[j])
      OBVIOUS
    <3>1. i + 1 < j + 1
      BY <1>6
    <3> QED  BY <1>6, <1>8, <3>1
  <2>2. \A i \in DOMAIN rest : Apart(p, rest[i]) /\ \A q \in f.touched : Apart(q, rest[i])
    <3> SUFFICES ASSUME NEW i \in DOMAIN rest
                 PROVE  Apart(p, rest[i]) /\ \A q \in f.touched : Apart(q, rest[i])
      OBVIOUS
    <3>1. Apart(f.keys[1], rest[i])
      BY <1>6, <1>8
    <3>2. p = f.keys[1]
      BY <1>8, <3>1 DEF Apart
    <3>3. \A q \in f.touched : Apart(q, rest[i])
      BY <1>1, <1>6 DEF Forgets
    <3> QED  BY <3>1, <3>2, <3>3
  <2>3. \A i \in DOMAIN pipe :
            pipe[i].val = Absent \/ \E q \in g.touched : pipe[i].key = Parent(q)
    <3>1. Lengthened(pipe, f.pipe, Parent(p))
      BY <1>1, <1>2, <1>3, ForgetWrites
    <3> HIDE DEF pipe
    <3> QED  BY <1>7, <1>8, <3>1 DEF Lengthened
  <2> HIDE DEF pipe
  <2> QED  BY <1>1, <1>7, <1>10, <1>12, <2>1, <2>2, <2>3 DEF Forgets, g
<1> QED  BY <1>7, <1>11, <1>12

LEMMA DelSteps ==
  ASSUME TypeInv, NEW c \in Clients, Step(c), stack'[c] # << >>,
         Top(c).call = "Del", stack'[c][1].call = "Del", Forgets(db, Top(c))
  PROVE  Forgets(db', stack'[c][1])
<1> DEFINE f == Top(c)
           g == stack'[c][1]
<1>1. Busy(c)
  BY DelActions DEF FollowLink, DelCheck, DelQueue, ExecCommand, ExecDone, At, ResolvedParent
<1>2. f \in GoodFields /\ GoodDb(db) /\ f.call = "Del"
  BY <1>1, TopType DEF TypeInv
<1>3. \A h : Continue(c, h) => g = h
  BY <1>1, ContinueTop
<1> HIDE DEF g
<1>4. CASE FollowLink(c)
  <2>1. f.pc = "resolveParent" /\ FollowsParent(db, f.path) /\ db' = db /\ \E q : g = [f EXCEPT !.path = q]
    <3>1. f.pc # "resolve"
      BY <1>1, <1>2, TopType DEF OnRoute
    <3> QED  BY <1>3, <1>4, <3>1 DEF FollowLink, At
  <2>2. LinkTargets # {}
    BY <1>2, <2>1, NoLinks DEF FollowsParent
  <2>3. /\ g.pc = f.pc /\ g.keys = f.keys /\ g.touched = f.touched /\ g.pipe = f.pipe
    BY <1>2, <2>1 DEF GoodFields
  <2> QED  BY <2>1, <2>2, <2>3 DEF Forgets, g
<1>5. CASE DelQueue(c)
  BY <1>5, DelQueueForgets
<1>8. CASE DelCheck(c)
  <2>1. f.pc = "resolveParent" /\ db' = db /\ g = [f EXCEPT !.pc = "remove"]
    BY <1>3, <1>8, AbortTop DEF DelCheck, ResolvedParent, At
  <2>2. /\ g.pc = "remove" /\ g.keys = f.keys /\ g.touched = f.touched /\ g.pipe = f.pipe
        /\ g.path = f.path
    BY <1>2, <2>1 DEF GoodFields
  <2> QED  BY <2>1, <2>2 DEF Forgets, g
<1>6. CASE ExecCommand(c)
  <2>1. /\ f.pc = "exec" /\ f.pipe # << >>
        /\ db' = [db EXCEPT ![Head(f.pipe).key] = Head(f.pipe).val]
        /\ g = [f EXCEPT !.pipe = Tail(@)]
    BY <1>3, <1>6 DEF ExecCommand, At
  <2>2. /\ g.pc = "exec" /\ g.pipe = Tail(f.pipe) /\ g.touched = f.touched
        /\ f.pipe \in Seq(GoodWrite)
    BY <1>2, <2>1 DEF GoodFields
  <2>3. \A q : Final(db', g.pipe, q) = Final(db, f.pipe, q)
    BY <1>2, <2>1, <2>2, FinalStep
  <2> QED  BY <2>2, <2>3 DEF Forgets, Forgotten, g
<1>7. CASE ExecDone(c)
  <2>1. f.pc = "exec" /\ f.pipe = << >> /\ db' = db
    BY <1>7 DEF ExecDone, At
  <2>2. Return(c, f)
    BY <1>2, <1>7 DEF ExecDone
  <2>3. g = Done(f.call, f.touched)
    BY <1>1, <2>2, ReturnTop DEF g
  <2>4. g.pc = "returned" /\ g.touched = f.touched /\ g.pipe = << >>
    BY <2>3, DoneFields
  <2> QED  BY <2>1, <2>4 DEF Forgets, g
<1> QED  BY <1>4, <1>5, <1>6, <1>7, <1>8, DelActions

LEMMA DelStep == DelsApart /\ TypeInv /\ DelInv /\ [Next]_vars => DelInv'
<1> SUFFICES ASSUME DelsApart, TypeInv, DelInv, [Next]_vars, NEW c \in Clients \ Failing,
                    c \in undisturbed', stack'[c] # << >>, stack'[c][1].call = "Del"
             PROVE  Forgets(db', stack'[c][1])
  BY DEF DelInv
<1>1. CASE UNCHANGED vars
  BY <1>1 DEF vars, DelInv
<1>2. CASE Next
  <2>1. PICK d \in Clients : Begin(d) \/ Step(d) \/ Fault(d)
    BY <1>2 DEF Next
  <2>2. CASE d # c
    BY <2>1, <2>2, OtherClient DEF DelInv
  <2>3. CASE d = c /\ Begin(c)
    BY <2>3, DelBegins
  <2>4. CASE d = c /\ Step(c) /\ Top(c).call = "Del"
    <3>1. Busy(c) /\ c \in undisturbed
      BY <2>4, DelActions DEF FollowLink, DelCheck, DelQueue, ExecCommand, ExecDone, At,
                              ResolvedParent
    <3>2. stack[c] # << >> /\ Top(c) = stack[c][1]
      BY <3>1, BusyTop DEF TypeInv
    <3> QED  BY <2>4, <3>1, <3>2, DelSteps DEF DelInv
  <2>5. CASE d = c /\ Step(c) /\ Top(c).call # "Del"
    <3>1. DelTreeLink(c) /\ Busy(c) /\ db' = db
      BY <2>5, CallKept DEF DelTreeLink, At
    <3>2. /\ stack'[c][1] = DelFrame(<<Top(c).path>>)
          /\ Top(c).path \in Paths \ {Root}
      <4>1. \A h : Continue(c, h) => stack'[c][1] = h
        BY <3>1, ContinueTop
      <4>2. Top(c) \in GoodFields /\ Top(c).path \in Paths \ {Root}
        BY <3>1, TopType
      <4>3. [Top(c) EXCEPT !.pc = "resolve"].call = Top(c).call
        BY <4>2 DEF GoodFields
      <4> QED  BY <2>5, <3>1, <4>1, <4>2, <4>3 DEF DelTreeLink
    <3> DEFINE keys == <<Top(c).path>>
    <3>3. keys \in Seq(Paths \ {Root}) /\ keys # << >> /\ DOMAIN keys = {1}
      BY <3>2
    <3>4. \A i, j \in DOMAIN keys : i < j => Apart(keys[i], keys[j])
      BY <3>3
    <3> HIDE DEF keys
    <3>5. Forgets(db', DelFrame(keys))
      BY <3>3, <3>4, DelFrameForgets
    <3> QED  BY <3>2, <3>5 DEF keys
  <2>6. CASE d = c /\ Fault(c)
    BY <2>6, AbortTop DEF Fault, ExecFails, Crash
  <2> QED  BY <2>1, <2>2, <2>3, <2>4, <2>5, <2>6
<1> QED  BY <1>1, <1>2

\* A Del that returns, while no other client writes, has removed every key and
\* its name, if none of its keys stands in the way of another: the copies of the
\* indexes that it writes back are then of different directories.
THEOREM DelForgot ==
  ASSUME DelsApart
  PROVE  Spec => []DelForgets
<1>1. Init => DelInv
  BY DEF Init, DelInv
<1>2. TypeInv /\ DelInv => DelForgets
  <2> SUFFICES ASSUME TypeInv, DelInv, NEW c \in Clients \ Failing, NEW p \in Paths,
                      Did(c, "Del"), p \in Top(c).touched
               PROVE  ~ Present(db, p) /\ ChildName(p) \notin DirIndex(db, Parent(p))
    BY DEF DelForgets
  <2>1. /\ c \in undisturbed /\ stack[c] # << >> /\ Top(c).pc = "returned"
        /\ Top(c).call = "Del" /\ Top(c) = stack[c][1]
    BY DEF Did, Busy, Top, TypeInv, StackInv, GoodStack
  <2>2. Forgets(db, Top(c))
    BY <2>1 DEF DelInv
  <2>3. Forgotten(db, Top(c).pipe, p)
    BY <2>2 DEF Forgets
  <2>4. Top(c).pipe = << >>
    BY <2>1, <2>2 DEF Forgets
  <2> QED  BY <2>3, <2>4, FinalEmpty DEF Forgotten, Present, DirIndex
<1> QED  BY <1>1, <1>2, TypeInvariant, DelStep, PTL DEF Spec

-----------------------------------------------------------------------------
(* Set *)

\* The sets of pairs that the theorem is about: one pair, or files and no links.
OneOrFiles ==
    \A c \in Clients : \A batch \in Batches[c] :
        \/ Len(batch) = 1
        \/ LinkTargets = {} /\ \A i \in DOMAIN batch : ~ IsDir(batch[i].key)

\* An index lists a name, as a file or as a directory.
Lists(v, k) == \E j \in v.kids : j.name = k.name

\* The first m directories on the way to p list the next one, once the
\* pipeline has been executed.
Chain(t, pipe, p, m) == \A n \in 1 .. m : Lists(Final(t, pipe, Ancestor(p, n - 1)), p[n])

WritesTo(pipe) == {pipe[i].key : i \in DOMAIN pipe}
Solid(pipe) == \A i \in DOMAIN pipe : pipe[i].val.kind # "absent"

\* A Set of one pair, or of files where there are no links.
Fits(f) ==
    \/ Len(f.pairs) = 1 /\ f.touched = {}
    \/ /\ LinkTargets = {} /\ ~ IsDir(f.path) /\ \A p \in f.touched : ~ IsDir(p)
       /\ \A i \in DOMAIN f.pairs : ~ IsDir(f.pairs[i].key)

\* The pairs that are queued have their parents, once gp has been executed.
Queued(t, gp, f) ==
    /\ Fits(f)
    /\ WritesTo(f.pipe) = f.touched
    /\ Solid(f.pipe)
    /\ \A p \in f.touched : Chain(t, gp, p, Len(p) - 1)

\* And the next one has its first m.
Ensures(t, gp, f, m) ==
    /\ Queued(t, gp, f)
    /\ ~ Follows(t, f.path) /\ f.dir = Parent(f.path) /\ m \in 0 .. Len(f.dir)
    /\ Chain(t, gp, f.path, m)

\* No pair's directory is replaced; the indexes read so far have the names.
Reads(t, f) ==
    /\ \A p, q \in f.touched : \A n \in 0 .. Len(p) - 1 : Ancestor(p, n) # q
    /\ Solid(f.pipe)
    /\ f.touched \subseteq WritesTo(f.pipe)
    /\ \A q \in WritesTo(f.pipe) \ f.touched : q \notin f.todo
    /\ f.todo \subseteq {Parent(p) : p \in f.touched}
    /\ \A p \in f.touched :
          /\ Chain(t, f.pipe, p, Len(p) - 1)
          /\ Parent(p) \in f.todo \/ Chain(t, f.pipe, p, Len(p))

Stores(t, f) ==
    \A p \in f.touched :
        Final(t, f.pipe, p).kind # "absent" /\ Chain(t, f.pipe, p, Len(p))

\* What a Set that runs alone, or is nested, knows.
SetSteps(t, f) ==
    /\ f.pc = "resolve" => Queued(t, << >>, f)
    /\ f.pc = "ensure"  => Ensures(t, << >>, f, f.at - 1)
    /\ f.pc = "parents" => Reads(t, f)
    /\ f.pc \in {"exec", "returned"} => Stores(t, f)
    /\ f.pc = "returned" => f.pipe = << >>

\* The nested Set of a directory that is not listed yet.
Starting(t, g) ==
    /\ Len(g.pairs) = 1 /\ g.touched = {} /\ g.pipe = << >>
    /\ ~ Lists(ValueAt(t, Parent(g.path)), ChildName(g.path))

\* g is the Set of the directory that f has found missing.
SetNested(t, g, f) ==
    /\ f.at >= 2 /\ f.at - 1 <= Len(f.dir)
    /\ Ensures(t, g.pipe, f, f.at - 2)
    /\ SetSteps(t, g) /\ g.pc # "returned"
    /\ g.path = Ancestor(f.dir, f.at - 1)
    /\ WritesTo(g.pipe) \subseteq {g.path, Parent(g.path)}
    /\ IF g.pc \in {"resolve", "ensure"} THEN Starting(t, g) ELSE g.touched = {g.path}

SetInv(t, s) ==
    \/ Len(s) = 1 /\ SetSteps(t, s[1])
    \/ Len(s) = 2 /\ SetNested(t, s[1], s[2])

\* The parent of an ancestor, and the child that leads to it.
LEMMA AncestorParent ==
  ASSUME NEW p \in Paths, NEW n \in 1 .. Len(p)
  PROVE  /\ Ancestor(p, n) \in Paths \ {Root} /\ Len(Ancestor(p, n)) = n
         /\ Parent(Ancestor(p, n)) = Ancestor(p, n - 1)
         /\ ChildName(Ancestor(p, n)) = p[n]
<1> DEFINE a == Ancestor(p, n)
<1>1. n \in Nat /\ n # 0 /\ n \in 0 .. Len(p) /\ n - 1 \in 0 .. n
  BY PathSeq
<1>2. a \in Paths /\ Len(a) = n /\ a[n] = p[n]
  BY <1>1, AncestorPath, AncestorSeq
<1>3. a # Root
  BY <1>1, <1>2 DEF Root
<1>4. Ancestor(a, n - 1) = Ancestor(p, n - 1)
  BY <1>1, AncestorAncestor
<1> HIDE DEF a
<1>5. Parent(a) = Ancestor(p, n - 1) /\ ChildName(a) = p[n]
  BY <1>2, <1>3, <1>4 DEF Parent, ChildName, Last
<1> QED  BY <1>2, <1>3, <1>5 DEF a

LEMMA ParentAncestor ==
  ASSUME NEW p \in Paths, p # Root
  PROVE  /\ Parent(p) = Ancestor(p, Len(p) - 1) /\ Len(p) \in Nat /\ Len(p) >= 1
         /\ Parent(p) \in Dirs /\ Len(Parent(p)) = Len(p) - 1
         /\ ChildName(p) = p[Len(p)] /\ Ancestor(p, Len(p)) = p
<1>1. Len(p) \in Nat /\ Len(p) >= 1 /\ Len(p) - 1 \in 0 .. Len(p)
  BY PathSeq
<1>2. Parent(p) = Ancestor(p, Len(p) - 1) /\ Len(Ancestor(p, Len(p) - 1)) = Len(p) - 1
  BY <1>1, AncestorSeq DEF Parent
<1>3. Ancestor(p, Len(p)) = p
  BY <1>1, PathSeq, SubSeqFull DEF Ancestor
<1> QED  BY <1>1, <1>2, <1>3, ParentDir DEF ChildName, Last

\* A path without links has ancestors without links.
LEMMA FollowsAncestor ==
  ASSUME NEW t, NEW p \in Paths, NEW m \in 0 .. Len(p), ~ Follows(t, p)
  PROVE  ~ Follows(t, Ancestor(p, m))
<1> DEFINE a == Ancestor(p, m)
<1>1. Len(a) = m /\ m \in Nat /\ Len(p) \in Nat /\ m <= Len(p)
  BY AncestorSeq, PathSeq
<1>2. ASSUME NEW n \in 1 .. m, ValueAt(t, AsFile(Ancestor(a, n))).kind = "ptr"
      PROVE  FALSE
  <2>1. Ancestor(a, n) = Ancestor(p, n)
    <3>1. n \in 0 .. m
      BY <1>1
    <3> QED  BY <3>1, AncestorAncestor
  <2>2. n \in 1 .. Len(p)
    BY <1>1
  <2> QED  BY <1>2, <2>1, <2>2 DEF Follows, LinkDepths
<1> HIDE DEF a
<1>3. ~ Follows(t, a)
  BY <1>1, <1>2 DEF Follows, LinkDepths
<1> QED  BY <1>3 DEF a

\* Writing the key of a directory changes no link.
LEMMA FollowsKept ==
  ASSUME NEW t, GoodDb(t), NEW k \in Dirs, NEW v \in GoodValue, NEW p \in Paths, ~ Follows(t, p)
  PROVE  ~ Follows([t EXCEPT ![k] = v], p)
<1> DEFINE u == [t EXCEPT ![k] = v]
<1>1. ASSUME NEW n \in 1 .. Len(p)
      PROVE  ValueAt(u, AsFile(Ancestor(p, n))) = ValueAt(t, AsFile(Ancestor(p, n)))
  <2> DEFINE a == Ancestor(p, n)
  <2>1. a \in Paths /\ a # Root
    BY AncestorParent
  <2> HIDE DEF a
  <2>2. ~ IsDir(AsFile(a))
    BY <2>1, PathSeq, RespelledKind
  <2>3. AsFile(a) # k
    BY <2>2 DEF Dirs
  <2>4. ValueAt(u, AsFile(a)) = ValueAt(t, AsFile(a))
    BY <2>3 DEF ValueAt, GoodDb
  <2> QED  BY <2>4 DEF a
<1> HIDE DEF u
<1>2. ~ Follows(u, p)
  BY <1>1 DEF Follows, LinkDepths
<1> QED  BY <1>2 DEF u

\* What MkIndexRecursive finds in a directory that is reached without links.
LEMMA OwnList ==
  ASSUME NEW t, NEW d \in Dirs, ~ Follows(t, d), NEW k
  PROVE  k.name \in {j.name : j \in ListOwn(t, d)} <=> Lists(ValueAt(t, d), k)
<1>1. ListOwn(t, d) = ValueAt(t, d).kids
  BY DEF ListOwn, ResolvePath, DirIndex, Dirs
<1> QED  BY <1>1 DEF Lists

-----------------------------------------------------------------------------
(* What a pipeline does to the indexes that a Set relies on *)

LEMMA FinalWritten ==
  ASSUME NEW t, NEW pipe \in Seq(GoodWrite), Solid(pipe), NEW q \in WritesTo(pipe)
  PROVE  Final(t, pipe, q).kind # "absent"
<1>1. PICK i \in DOMAIN pipe : pipe[i].key = q
  BY DEF WritesTo
<1>2. PICK j \in DOMAIN pipe : LastWrite(pipe, q, j)
  BY <1>1, LastWriteExists
<1>3. Final(t, pipe, q) = pipe[j].val
  BY <1>2, FinalLast
<1> QED  BY <1>3 DEF Solid

LEMMA WritesEmpty == WritesTo(<< >>) = {} /\ Solid(<< >>)
BY DEF WritesTo, Solid

LEMMA WritesAppend ==
  ASSUME NEW pipe \in Seq(GoodWrite), NEW w \in GoodWrite
  PROVE  /\ WritesTo(Append(pipe, w)) = WritesTo(pipe) \cup {w.key}
         /\ Solid(pipe) /\ w.val.kind # "absent" => Solid(Append(pipe, w))
<1> DEFINE new == Append(pipe, w)
           n == Len(pipe)
<1>1. /\ n \in Nat /\ DOMAIN pipe = 1 .. n /\ DOMAIN new = 1 .. n + 1
      /\ \A i \in 1 .. n : new[i] = pipe[i]
      /\ new[n + 1] = w
  OBVIOUS
<1>2. 1 .. n + 1 = (1 .. n) \cup {n + 1}
  BY <1>1
<1> HIDE DEF new, n
<1>3. WritesTo(new) = WritesTo(pipe) \cup {w.key}
  BY <1>1, <1>2 DEF WritesTo
<1>4. Solid(pipe) /\ w.val.kind # "absent" => Solid(new)
  BY <1>1, <1>2 DEF Solid
<1> QED  BY <1>3, <1>4 DEF new

LEMMA WritesTail ==
  ASSUME NEW pipe \in Seq(GoodWrite), pipe # << >>
  PROVE  WritesTo(Tail(pipe)) \subseteq WritesTo(pipe) /\ Head(pipe).key \in WritesTo(pipe)
BY FirstWrite DEF WritesTo

LEMMA FinalUntouched ==
  ASSUME NEW t, NEW pipe, NEW q, q \notin WritesTo(pipe)
  PROVE  Final(t, pipe, q) = ValueAt(t, q)
BY FinalNone DEF WritesTo

\* The indexes have only got more names.
LEMMA ChainGrows ==
  ASSUME NEW t, NEW u, NEW pipe, NEW more, NEW p, NEW m,
         \A q : Final(t, pipe, q).kids \subseteq Final(u, more, q).kids,
         Chain(t, pipe, p, m)
  PROVE  Chain(u, more, p, m)
BY DEF Chain, Lists

\* None of the directories on the way is written.
LEMMA ChainUntouched ==
  ASSUME NEW t, NEW pipe, NEW p, NEW m, Chain(t, << >>, p, m),
         \A n \in 1 .. m : Ancestor(p, n - 1) \notin WritesTo(pipe)
  PROVE  Chain(t, pipe, p, m)
BY FinalUntouched, FinalEmpty DEF Chain

\* A directory that is not listed is on no such way.
LEMMA NotThrough ==
  ASSUME NEW t, NEW p \in Paths, NEW m \in 0 .. Len(p), Chain(t, << >>, p, m),
         NEW d \in Paths \ {Root}, ~ Lists(ValueAt(t, Parent(d)), ChildName(d)),
         NEW n \in 1 .. m
  PROVE  Ancestor(p, n - 1) # d
<1>1. Len(p) \in Nat /\ m \in Nat /\ n \in Nat /\ n >= 1 /\ n <= m /\ m <= Len(p)
  BY PathSeq
<1>2. CASE n = 1
  BY <1>1, <1>2, AncestorSeq
<1>3. CASE n # 1
  <2> DEFINE k == n - 1
  <2>1. k \in 1 .. Len(p) /\ k \in 1 .. m
    BY <1>1, <1>3
  <2> HIDE DEF k
  <2>2. Lists(Final(t, << >>, Ancestor(p, k - 1)), p[k])
    BY <2>1 DEF Chain
  <2>3. Lists(ValueAt(t, Ancestor(p, k - 1)), p[k])
    BY <2>2, FinalEmpty
  <2>4. Parent(Ancestor(p, k)) = Ancestor(p, k - 1) /\ ChildName(Ancestor(p, k)) = p[k]
    BY <2>1, AncestorParent
  <2>5. Ancestor(p, k) # d
    BY <2>3, <2>4
  <2> QED  BY <2>5 DEF k
<1> QED  BY <1>2, <1>3

LEMMA NamedWrite ==
  ASSUME NEW t, GoodDb(t), NEW d \in Paths, NEW S \in SUBSET (Paths \ {Root})
  PROVE  /\ Named(t, d, S) \in GoodWrite /\ Named(t, d, S).key = d
         /\ Named(t, d, S).val.kind # "absent"
         /\ ValueAt(t, d).kids \subseteq Named(t, d, S).val.kids
         /\ \A p \in S : Parent(p) = d => ChildName(p) \in Named(t, d, S).val.kids
<1> DEFINE names == {ChildName(p) : p \in {q \in S : Parent(q) = d}}
           v == ValueAt(t, d)
           w == WithNames(t, d, names)
<1>1. names \in SUBSET Child
  BY ChildNameType
<1>2. \A p \in S : Parent(p) = d => ChildName(p) \in names
  OBVIOUS
<1>3. v \in GoodValue /\ v.kids \in SUBSET Child
  BY ValueAtType, ValueFields
<1>4. Named(t, d, S).key = d /\ Named(t, d, S).val = w
  BY DEF Named
<1> HIDE DEF names
<1>5. w.kids = names \cup v.kids
  BY <1>1, WithNamesType DEF DirIndex
<1>6. w.kind # "absent"
  <2>1. CASE v.kind = "absent"
    BY <1>1, <2>1, PlainValues DEF WithNames
  <2>2. CASE v.kind # "absent"
    <3>1. v.kids \cup names \in SUBSET Child
      BY <1>1, <1>3
    <3>2. w = [v EXCEPT !.kids = v.kids \cup names]
      BY <2>2 DEF WithNames
    <3>3. [v EXCEPT !.kids = v.kids \cup names].kind = v.kind
      BY <1>3, <2>2, <3>1, ValueFields
    <3> QED  BY <2>2, <3>2, <3>3
  <2> QED  BY <2>1, <2>2
<1> HIDE DEF w, v
<1> QED  BY <1>2, <1>4, <1>5, <1>6, NamedType DEF v

\* An index is read and queued to be written back with more names.
LEMMA NamedGrows ==
  ASSUME NEW t, GoodDb(t), NEW d \in Paths, NEW S \in SUBSET (Paths \ {Root}),
         NEW pipe \in Seq(GoodWrite), d \notin WritesTo(pipe),
         NEW new, new = Append(pipe, Named(t, d, S))
  PROVE  /\ \A q : Final(t, pipe, q).kids \subseteq Final(t, new, q).kids
         /\ \A p \in S : Parent(p) = d => Lists(Final(t, new, d), ChildName(p))
<1> DEFINE w == Named(t, d, S)
<1>1. /\ w \in GoodWrite /\ w.key = d /\ ValueAt(t, d).kids \subseteq w.val.kids
      /\ \A p \in S : Parent(p) = d => ChildName(p) \in w.val.kids
  BY NamedWrite
<1> HIDE DEF w
<1>2. \A q : Final(t, new, q) = IF w.key = q THEN w.val ELSE Final(t, pipe, q)
  BY <1>1, FinalAppend DEF w
<1>3. Final(t, pipe, d) = ValueAt(t, d)
  BY FinalUntouched
<1>4. \A q : Final(t, pipe, q).kids \subseteq Final(t, new, q).kids
  BY <1>1, <1>2, <1>3
<1>5. \A p \in S : Parent(p) = d => Lists(Final(t, new, d), ChildName(p))
  BY <1>1, <1>2 DEF Lists
<1> QED  BY <1>4, <1>5

-----------------------------------------------------------------------------
(* How the frame of a Set changes *)

\* What the steps of resolving and of MkIndexRecursive leave alone.
Same(f, g) == g.pairs = f.pairs /\ g.touched = f.touched /\ g.pipe = f.pipe

Turned(t, f, g) == f.pc = "resolve" /\ Follows(t, f.path) /\ g.pc = "resolve" /\ Same(f, g)

Prepared(t, f, g) ==
    /\ f.pc = "resolve" /\ ~ Follows(t, f.path) /\ Same(f, g) /\ g.path = f.path
    /\ g.pc = "ensure" /\ g.dir = Parent(f.path) /\ g.at = 1

\* The next directory d on the way is, or is not, listed.
NextListed(t, f) ==
    /\ f.pc = "ensure" /\ f.at <= Len(f.dir)
    /\ LET d == Ancestor(f.dir, f.at)
       IN  ChildName(d).name \in {k.name : k \in ListOwn(t, Parent(d))}

NextMissing(t, f) ==
    /\ f.pc = "ensure" /\ f.at <= Len(f.dir)
    /\ LET d == Ancestor(f.dir, f.at)
       IN  ChildName(d).name \notin {k.name : k \in ListOwn(t, Parent(d))}

Advanced(f, g) ==
    /\ Same(f, g) /\ g.path = f.path
    /\ g.pc = "ensure" /\ g.dir = f.dir /\ g.at = f.at + 1

QueuedPair(f, g) ==
    /\ f.pc = "ensure" /\ f.at > Len(f.dir)
    /\ g.pairs = Tail(f.pairs) /\ g.touched = f.touched \cup {f.path}
    /\ g.pipe = Append(f.pipe, [key |-> f.path, val |-> Head(f.pairs).val])
    /\ \/ Tail(f.pairs) = << >> /\ g.pc = "parents" /\ g.path = f.path
          /\ g.todo = {Parent(p) : p \in g.touched}
       \/ Tail(f.pairs) # << >> /\ g.pc = "resolve" /\ g.path = Head(Tail(f.pairs)).key

ReadParent(t, f, g, d) ==
    /\ f.pc = "parents" /\ d \in f.todo
    /\ g.path = f.path /\ g.touched = f.touched /\ g.todo = f.todo \ {d}
    /\ g.pipe = Append(f.pipe, Named(t, d, f.touched))
    /\ g.pc = IF f.todo = {d} THEN "exec" ELSE "parents"

Executed(f, g) ==
    /\ f.pc = "exec" /\ f.pipe # << >>
    /\ g.pc = "exec" /\ g.pipe = Tail(f.pipe) /\ g.touched = f.touched /\ g.path = f.path

\* Only the innermost frame of client c's call has changed.
Replaces(c) ==
    /\ Len(stack'[c]) = Len(stack[c])
    /\ \A i \in 2 .. Len(stack[c]) : stack'[c][i] = stack[c][i]

LEMMA SetActions ==
  ASSUME TypeInv, NEW c \in Clients, Step(c), Top(c).call = "Set"
  PROVE  /\ Busy(c)
         /\ \/ FollowLink(c) \/ EnsureListed(c) \/ EnsureMissing(c) \/ SetPrepare(c) \/ SetQueue(c)
            \/ SetParent(c) \/ ExecCommand(c) \/ ExecDone(c)
<1>1. Busy(c) => OnRoute(Top(c))
  BY TopType
<1>2. ~ MkindexNext(c) /\ ~ ExtIndexTarget(c) /\ ~ DelQueue(c) /\ ~ DelTreeLink(c)
      /\ ~ DelTreeUnlist(c)
  BY <1>1 DEF MkindexNext, ExtIndexTarget, DelQueue, DelTreeLink, DelTreeUnlist, At, OnRoute
<1>3. ~ DelCheck(c) /\ ~ DelTreeScan(c) /\ ~ MkindexPrepare(c) /\ ~ DelExtQueue(c)
      /\ ~ ExtIndexPrepare(c) /\ ~ ExtIndexQueue(c)
  BY DEF DelCheck, DelTreeScan, MkindexPrepare, DelExtQueue, ExtIndexPrepare,
         ExtIndexQueue, Resolved, ResolvedParent, Ensured
<1>4. ~ ExecDoomed(c)
  BY <1>1 DEF ExecDoomed, At, OnRoute
<1>5. \/ FollowLink(c) \/ EnsureListed(c) \/ EnsureMissing(c) \/ SetPrepare(c) \/ SetQueue(c)
      \/ SetParent(c) \/ ExecCommand(c) \/ ExecDone(c)
  BY <1>2, <1>3, <1>4 DEF Step
<1>6. Busy(c)
  BY <1>5 DEF FollowLink, EnsureListed, EnsureMissing, SetPrepare, SetQueue, SetParent,
              ExecCommand, ExecDone, At, Resolved, Ensured
<1> QED  BY <1>5, <1>6

LEMMA SetTop ==
  ASSUME TypeInv, NEW c \in Clients, Busy(c), Top(c).call = "Set"
  PROVE  /\ Top(c) \in GoodFields /\ GoodDb(db) /\ Top(c).path \in Paths \ {Root}
         /\ Top(c).pc \in {"resolve", "ensure"} => Top(c).pairs # << >>
         /\ Top(c).pc \in {"resolve", "ensure", "parents", "exec"}
         /\ Top(c) = stack[c][1]
         /\ \A g : Continue(c, g) => Replaces(c) /\ stack'[c][1] = g
<1>1. /\ Top(c) \in GoodFields /\ OnRoute(Top(c)) /\ Top(c).path \in Paths \ {Root}
      /\ Top(c).pc # "returned" /\ Top(c) = stack[c][1]
  BY TopType, BusyTop DEF TypeInv
<1>2. Top(c).pc \in {"resolve", "ensure", "parents", "exec"}
  BY <1>1 DEF OnRoute, GoodFields, Places
<1>3. \A g : Continue(c, g) => Replaces(c) /\ stack'[c][1] = g
  BY ContinueTop DEF Replaces
<1> QED  BY <1>1, <1>2, <1>3 DEF OnRoute, TypeInv

LEMMA FollowLinkFrame ==
  ASSUME TypeInv, NEW c \in Clients, Top(c).call = "Set", FollowLink(c)
  PROVE  Replaces(c) /\ db' = db /\ Turned(db, Top(c), stack'[c][1])
<1> DEFINE f == Top(c)
           g == stack'[c][1]
<1>1. Busy(c)
  BY DEF FollowLink, At
<1>2. /\ f \in GoodFields /\ f.pc # "resolveParent"
      /\ \A h : Continue(c, h) => Replaces(c) /\ g = h
  BY <1>1, SetTop
<1>3. db' = db /\ f.pc = "resolve" /\ Follows(db, f.path) /\ Replaces(c)
      /\ g = [f EXCEPT !.path = Pass(db, @)]
  BY <1>2 DEF FollowLink, At
<1> HIDE DEF g
<1>4. g.pc = "resolve" /\ Same(f, g)
  BY <1>2, <1>3 DEF GoodFields, Same
<1> QED  BY <1>3, <1>4 DEF Turned, g

LEMMA PrepareFrame ==
  ASSUME TypeInv, NEW c \in Clients, Top(c).call = "Set", SetPrepare(c), stack'[c] # << >>
  PROVE  Replaces(c) /\ db' = db /\ Prepared(db, Top(c), stack'[c][1])
<1> DEFINE f == Top(c)
           g == stack'[c][1]
<1>1. Busy(c) /\ f.pc = "resolve" /\ ~ Follows(db, f.path) /\ db' = db
  BY DEF SetPrepare, Resolved, At
<1>2. f \in GoodFields /\ \A h : Continue(c, h) => Replaces(c) /\ g = h
  BY <1>1, SetTop
<1>3. Replaces(c) /\ g = Ensuring(f, Parent(f.path))
  BY <1>2, AbortTop DEF SetPrepare
<1> HIDE DEF g
<1>4. /\ g.pc = "ensure" /\ g.dir = Parent(f.path) /\ g.at = 1 /\ Same(f, g) /\ g.path = f.path
  BY <1>2, <1>3 DEF GoodFields, Same, Ensuring
<1> QED  BY <1>1, <1>3, <1>4 DEF Prepared, g

LEMMA ListedFrame ==
  ASSUME TypeInv, NEW c \in Clients, Top(c).call = "Set", EnsureListed(c)
  PROVE  Replaces(c) /\ db' = db /\ NextListed(db, Top(c)) /\ Advanced(Top(c), stack'[c][1])
<1> DEFINE f == Top(c)
           g == stack'[c][1]
<1>1. Busy(c) /\ NextListed(db, f) /\ db' = db
  BY DEF EnsureListed, At, NextListed
<1>2. f \in GoodFields /\ \A h : Continue(c, h) => Replaces(c) /\ g = h
  BY <1>1, SetTop
<1>3. Replaces(c) /\ g = [f EXCEPT !.at = @ + 1] /\ f.pc = "ensure"
  BY <1>2 DEF EnsureListed, At
<1> HIDE DEF g
<1>4. Advanced(f, g)
  BY <1>2, <1>3 DEF GoodFields, Same, Advanced
<1> QED  BY <1>1, <1>3, <1>4 DEF g

\* The Set that makes directory d.
Make(d) == SetFrame(<<[key |-> d, val |-> IndexOf({})]>>)

LEMMA MissingFrame ==
  ASSUME TypeInv, NEW c \in Clients, Top(c).call = "Set", EnsureMissing(c), stack'[c] # << >>
  PROVE  /\ db' = db /\ NextMissing(db, Top(c)) /\ Len(stack'[c]) = Len(stack[c]) + 1
         /\ stack'[c][1] = Make(Ancestor(Top(c).dir, Top(c).at))
         /\ Advanced(Top(c), stack'[c][2])
<1> DEFINE f == Top(c)
           h == [f EXCEPT !.at = @ + 1]
<1>1. Busy(c) /\ NextMissing(db, f) /\ db' = db /\ f.pc = "ensure"
  BY DEF EnsureMissing, At, NextMissing
<1>2. f \in GoodFields
  BY <1>1, SetTop
<1>3. Nest(c, h, Make(Ancestor(f.dir, f.at)))
  BY AbortTop DEF EnsureMissing, Make
<1>4. Advanced(f, h)
  BY <1>1, <1>2 DEF GoodFields, Same, Advanced
<1> HIDE DEF h
<1> QED  BY <1>1, <1>3, <1>4, NestTop

LEMMA QueueFrame ==
  ASSUME TypeInv, NEW c \in Clients, Top(c).call = "Set", SetQueue(c), stack'[c] # << >>
  PROVE  Replaces(c) /\ db' = db /\ QueuedPair(Top(c), stack'[c][1])
<1> DEFINE f == Top(c)
           g == stack'[c][1]
           rest == Tail(f.pairs)
           w == [key |-> f.path, val |-> Head(f.pairs).val]
           queued == [f EXCEPT !.pairs = rest, !.pipe = Append(@, w),
                               !.touched = @ \cup {f.path}]
<1>1. Busy(c) /\ f.pc = "ensure" /\ f.at > Len(f.dir) /\ db' = db
  BY DEF SetQueue, Ensured, At
<1>2. f \in GoodFields /\ \A h : Continue(c, h) => Replaces(c) /\ g = h
  BY <1>1, SetTop
<1>3. /\ Replaces(c)
      /\ \/ rest = << >> /\ g = [queued EXCEPT !.pc = "parents",
                                              !.todo = {Parent(p) : p \in queued.touched}]
         \/ rest # << >> /\ g = [queued EXCEPT !.pc = "resolve", !.path = Head(rest).key]
  BY <1>2, AbortTop DEF SetQueue
<1>4. /\ queued.pairs = rest /\ queued.pipe = Append(f.pipe, w)
      /\ queued.touched = f.touched \cup {f.path} /\ queued.path = f.path
      /\ DOMAIN queued = {"call", "pc", "pairs", "keys", "path", "target", "dir", "at", "touched",
                          "todo", "pipe", "doomed"}
  <2> HIDE DEF w, rest
  <2> QED  BY <1>2 DEF GoodFields
<1> HIDE DEF g, queued, w
<1>5. g.pairs = rest /\ g.touched = f.touched \cup {f.path} /\ g.pipe = Append(f.pipe, w)
  <2> HIDE DEF rest
  <2> QED  BY <1>3, <1>4
<1>6. \/ rest = << >> /\ g.pc = "parents" /\ g.path = f.path
         /\ g.todo = {Parent(p) : p \in g.touched}
      \/ rest # << >> /\ g.pc = "resolve" /\ g.path = Head(rest).key
  <2> HIDE DEF rest
  <2> QED  BY <1>3, <1>4, <1>5
<1> QED  BY <1>1, <1>3, <1>5, <1>6 DEF QueuedPair, g, w

LEMMA ParentFrame ==
  ASSUME TypeInv, NEW c \in Clients, Top(c).call = "Set", SetParent(c), stack'[c] # << >>
  PROVE  Replaces(c) /\ db' = db /\ \E d : ReadParent(db, Top(c), stack'[c][1], d)
<1> DEFINE f == Top(c)
           g == stack'[c][1]
<1>1. Busy(c) /\ f.pc = "parents" /\ db' = db
  BY DEF SetParent, At
<1>2. f \in GoodFields /\ \A h : Continue(c, h) => Replaces(c) /\ g = h
  BY <1>1, SetTop
<1>3. PICK d \in f.todo :
         Continue(c, [f EXCEPT !.todo = @ \ {d},
                               !.pipe = Append(@, Named(db, d, f.touched)),
                               !.pc = IF f.todo = {d} THEN "exec" ELSE @])
  BY AbortTop DEF SetParent
<1>4. Replaces(c) /\ g = [f EXCEPT !.todo = @ \ {d},
                                   !.pipe = Append(@, Named(db, d, f.touched)),
                                   !.pc = IF f.todo = {d} THEN "exec" ELSE @]
  BY <1>2, <1>3
<1> HIDE DEF g
<1>5. ReadParent(db, f, g, d)
  BY <1>1, <1>2, <1>4 DEF GoodFields, ReadParent
<1> QED  BY <1>1, <1>4, <1>5 DEF g

LEMMA ExecFrame ==
  ASSUME TypeInv, NEW c \in Clients, Top(c).call = "Set", ExecCommand(c)
  PROVE  /\ Replaces(c) /\ Executed(Top(c), stack'[c][1])
         /\ db' = [db EXCEPT ![Head(Top(c).pipe).key] = Head(Top(c).pipe).val]
<1> DEFINE f == Top(c)
           g == stack'[c][1]
<1>1. Busy(c) /\ f.pc = "exec" /\ f.pipe # << >>
      /\ db' = [db EXCEPT ![Head(f.pipe).key] = Head(f.pipe).val]
  BY DEF ExecCommand, At
<1>2. f \in GoodFields /\ \A h : Continue(c, h) => Replaces(c) /\ g = h
  BY <1>1, SetTop
<1>3. Replaces(c) /\ g = [f EXCEPT !.pipe = Tail(@)]
  BY <1>2 DEF ExecCommand
<1> HIDE DEF g
<1>4. Executed(f, g)
  BY <1>1, <1>2, <1>3 DEF GoodFields, Executed
<1> QED  BY <1>1, <1>3, <1>4 DEF g

LEMMA DoneFrame ==
  ASSUME TypeInv, NEW c \in Clients, Top(c).call = "Set", ExecDone(c)
  PROVE  /\ db' = db /\ Top(c).pc = "exec" /\ Top(c).pipe = << >>
         /\ \/ /\ Len(stack[c]) = 1 /\ Len(stack'[c]) = 1
               /\ stack'[c][1] = Done("Set", Top(c).touched)
            \/ /\ Len(stack[c]) > 1 /\ Len(stack'[c]) = Len(stack[c]) - 1
               /\ \A i \in 1 .. Len(stack'[c]) : stack'[c][i] = stack[c][i + 1]
               /\ stack'[c][1].pc = "ensure"
<1>1. Busy(c) /\ Top(c).pc = "exec" /\ Top(c).pipe = << >> /\ db' = db
  BY DEF ExecDone, At
<1>2. Return(c, Top(c))
  BY DEF ExecDone
<1> QED  BY <1>1, <1>2, ReturnTop

-----------------------------------------------------------------------------
(* What a Set that is not interrupted knows after each of its steps *)

\* The n-th directory on the way that MkIndexRecursive goes.
LEMMA WayTo ==
  ASSUME NEW t, NEW gp, NEW m, NEW f, f.path \in Paths \ {Root}, Ensures(t, gp, f, m),
         NEW n \in 1 .. Len(f.dir)
  PROVE  /\ Ancestor(f.dir, n) = Ancestor(f.path, n)
         /\ Ancestor(f.path, n) \in Dirs /\ Ancestor(f.path, n) # Root
         /\ Len(Ancestor(f.path, n)) = n
         /\ Parent(Ancestor(f.path, n)) = Ancestor(f.path, n - 1)
         /\ Ancestor(f.path, n - 1) \in Dirs
         /\ ~ Follows(t, Ancestor(f.path, n - 1)) /\ ~ Follows(t, Ancestor(f.path, n))
         /\ ChildName(Ancestor(f.path, n)) = f.path[n]
         /\ Len(f.dir) = Len(f.path) - 1 /\ Len(f.path) \in Nat
<1> DEFINE p == f.path
           k == Len(p) - 1
<1>1. /\ f.dir = Ancestor(p, k) /\ Len(f.dir) = k /\ ~ Follows(t, p)
      /\ Len(p) \in Nat /\ Len(p) >= 1
  BY ParentAncestor DEF Ensures
<1>2. k \in 0 .. Len(p) /\ n \in 0 .. k /\ n \in 1 .. Len(p) /\ n - 1 \in 0 .. Len(p)
      /\ n \in 0 .. Len(p) /\ n < Len(p) /\ n - 1 < Len(p)
  BY <1>1
<1> HIDE DEF p, k
<1>3. Ancestor(f.dir, n) = Ancestor(p, n)
  BY <1>1, <1>2, AncestorAncestor DEF p
<1>4. Ancestor(p, n) \in Dirs /\ Ancestor(p, n - 1) \in Dirs
  BY <1>2, AncestorDir DEF p
<1>5. ~ Follows(t, Ancestor(p, n - 1)) /\ ~ Follows(t, Ancestor(p, n))
  BY <1>1, <1>2, FollowsAncestor DEF p
<1>6. /\ Ancestor(p, n) # Root /\ Len(Ancestor(p, n)) = n
      /\ Parent(Ancestor(p, n)) = Ancestor(p, n - 1) /\ ChildName(Ancestor(p, n)) = p[n]
  BY <1>2, AncestorParent DEF p
<1> QED  BY <1>1, <1>3, <1>4, <1>5, <1>6 DEF p, k

LEMMA NextFound ==
  ASSUME NEW t, NEW gp, NEW m, NEW f, f.path \in Paths \ {Root}, Ensures(t, gp, f, m),
         f.at \in 1 .. Len(f.dir)
  PROVE  /\ NextListed(t, f) => Lists(ValueAt(t, Ancestor(f.path, f.at - 1)), f.path[f.at])
         /\ NextMissing(t, f) => ~ Lists(ValueAt(t, Ancestor(f.path, f.at - 1)), f.path[f.at])
<1> DEFINE d == Ancestor(f.dir, f.at)
           e == Ancestor(f.path, f.at - 1)
           k == f.path[f.at]
<1>1. Parent(d) = e /\ ChildName(d) = k /\ e \in Dirs /\ ~ Follows(t, e)
  BY WayTo
<1> HIDE DEF d, e, k
<1>2. k.name \in {j.name : j \in ListOwn(t, e)} <=> Lists(ValueAt(t, e), k)
  BY <1>1, OwnList
<1>3. NextListed(t, f) => Lists(ValueAt(t, e), k)
  BY <1>1, <1>2 DEF NextListed, d
<1>4. NextMissing(t, f) => ~ Lists(ValueAt(t, e), k)
  BY <1>1, <1>2 DEF NextMissing, d
<1> QED  BY <1>3, <1>4 DEF e, k

LEMMA ChainNext ==
  ASSUME NEW t, NEW gp, NEW p, NEW n \in Nat \ {0}, Chain(t, gp, p, n - 1),
         Lists(Final(t, gp, Ancestor(p, n - 1)), p[n])
  PROVE  Chain(t, gp, p, n)
<1>1. 1 .. n = (1 .. n - 1) \cup {n}
  OBVIOUS
<1> QED  BY <1>1 DEF Chain

LEMMA TurnedSteps ==
  ASSUME NEW t, GoodDb(t), NEW f, NEW g, Turned(t, f, g), SetSteps(t, f)
  PROVE  SetSteps(t, g)
<1>1. LinkTargets # {}
  BY NoLinks DEF Turned
<1>2. Queued(t, << >>, f) /\ g.pc = "resolve" /\ Same(f, g)
  BY DEF SetSteps, Turned
<1>3. Fits(g)
  BY <1>1, <1>2 DEF Queued, Fits, Same
<1>4. Queued(t, << >>, g)
  BY <1>2, <1>3 DEF Queued, Same
<1> QED  BY <1>2, <1>4 DEF SetSteps

LEMMA PreparedSteps ==
  ASSUME NEW t, NEW f, f.path \in Paths \ {Root}, NEW g, Prepared(t, f, g), SetSteps(t, f)
  PROVE  SetSteps(t, g)
<1>1. Queued(t, << >>, f) /\ g.pc = "ensure" /\ Same(f, g) /\ g.path = f.path /\ g.at = 1
      /\ g.dir = Parent(f.path) /\ ~ Follows(t, f.path)
  BY DEF SetSteps, Prepared
<1>2. Queued(t, << >>, g)
  BY <1>1 DEF Queued, Same, Fits
<1>3. 0 \in 0 .. Len(g.dir)
  BY <1>1, ParentAncestor
<1>4. Chain(t, << >>, g.path, 0)
  BY DEF Chain
<1>5. Ensures(t, << >>, g, 0)
  BY <1>1, <1>2, <1>3, <1>4 DEF Ensures
<1>6. Ensures(t, << >>, g, g.at - 1)
  BY <1>1, <1>5
<1> QED  BY <1>1, <1>6 DEF SetSteps

LEMMA ListedSteps ==
  ASSUME NEW t, NEW f \in GoodFields, f.path \in Paths \ {Root}, NEW g,
         NextListed(t, f), Advanced(f, g), SetSteps(t, f)
  PROVE  SetSteps(t, g)
<1>1. Ensures(t, << >>, f, f.at - 1) /\ f.at \in Nat \ {0} /\ f.at <= Len(f.dir)
  BY DEF SetSteps, NextListed, GoodFields
<1>2. Len(f.dir) \in Nat
  BY <1>1, ParentAncestor DEF Ensures
<1>3. f.at \in 1 .. Len(f.dir) /\ f.at \in 0 .. Len(f.dir)
  BY <1>1, <1>2
<1>4. Lists(Final(t, << >>, Ancestor(f.path, f.at - 1)), f.path[f.at])
  BY <1>1, <1>3, NextFound, FinalEmpty
<1>5. Chain(t, << >>, f.path, f.at)
  BY <1>1, <1>4, ChainNext DEF Ensures
<1>6. g.pc = "ensure" /\ Same(f, g) /\ g.path = f.path /\ g.dir = f.dir /\ g.at - 1 = f.at
  BY <1>1 DEF Advanced
<1>7. Queued(t, << >>, g)
  BY <1>1, <1>6 DEF Ensures, Queued, Same, Fits
<1>8. Ensures(t, << >>, g, f.at)
  BY <1>1, <1>3, <1>5, <1>6, <1>7 DEF Ensures
<1> QED  BY <1>6, <1>8 DEF SetSteps

\* No path leads through a file, or through one that is as deep.
LEMMA NoneReplaced ==
  ASSUME NEW p \in Paths \ {Root}, NEW q \in Paths \ {Root}, p = q \/ ~ IsDir(q),
         NEW n \in 0 .. Len(p) - 1
  PROVE  Ancestor(p, n) # q
<1>1. Len(p) \in Nat /\ n \in 0 .. Len(p) /\ n < Len(p)
  BY ParentAncestor
<1>2. Ancestor(p, n) \in Dirs /\ Len(Ancestor(p, n)) = n
  BY <1>1, AncestorDir, AncestorSeq
<1> QED  BY <1>1, <1>2 DEF Dirs

LEMMA QueuedSteps ==
  ASSUME NEW t, NEW f \in GoodFields, f.path \in Paths \ {Root}, f.pairs # << >>, NEW g,
         QueuedPair(f, g), SetSteps(t, f)
  PROVE  SetSteps(t, g)
<1> DEFINE p == f.path
           w == [key |-> p, val |-> Head(f.pairs).val]
           rest == Tail(f.pairs)
<1>1. /\ Ensures(t, << >>, f, f.at - 1) /\ f.at > Len(f.dir) /\ f.at \in Nat \ {0}
      /\ g.pairs = rest /\ g.touched = f.touched \cup {p} /\ g.pipe = Append(f.pipe, w)
  BY DEF SetSteps, QueuedPair, GoodFields
<1>2. /\ f.pairs \in Seq(Given) /\ Head(f.pairs) \in Given /\ f.pipe \in Seq(GoodWrite)
      /\ Head(f.pairs).val \in GoodValue /\ Head(f.pairs).val.kind # "absent"
      /\ f.touched \subseteq Paths \ {Root}
  <2>1. f.pairs \in Seq(Given) /\ f.pipe \in Seq(GoodWrite) /\ f.touched \subseteq Paths \ {Root}
    BY DEF GoodFields
  <2>2. Head(f.pairs) \in Given
    BY <2>1
  <2> QED  BY <2>1, <2>2 DEF Given, GoodWrite
<1>3. w \in GoodWrite /\ w.key = p /\ w.val.kind # "absent"
  BY <1>2, WriteType
<1> HIDE DEF w
<1>4. WritesTo(g.pipe) = g.touched /\ Solid(g.pipe) /\ g.touched \subseteq Paths \ {Root}
  BY <1>1, <1>2, <1>3, WritesAppend DEF Ensures, Queued
<1>5. Chain(t, << >>, p, Len(p) - 1)
  <2>1. Len(f.dir) = Len(p) - 1 /\ Len(p) \in Nat
    BY <1>1, ParentAncestor DEF Ensures
  <2>2. f.at - 1 = Len(p) - 1
    BY <1>1, <2>1 DEF Ensures
  <2> QED  BY <1>1, <2>2 DEF Ensures
<1>6. \A q \in g.touched : Chain(t, << >>, q, Len(q) - 1)
  BY <1>1, <1>5 DEF Ensures, Queued
<1>7. \A q \in f.touched : ~ IsDir(q) /\ ~ IsDir(p)
  BY <1>1 DEF Ensures, Queued, Fits
<1>8. /\ \A i \in DOMAIN rest : i + 1 \in DOMAIN f.pairs /\ rest[i] = f.pairs[i + 1]
      /\ Len(rest) = Len(f.pairs) - 1
      /\ rest # << >> => Head(rest) = rest[1] /\ 1 \in DOMAIN rest
  BY <1>2
<1>9. CASE rest = << >> /\ g.pc = "parents" /\ g.todo = {Parent(q) : q \in g.touched}
  <2>1. ASSUME NEW x \in g.touched, NEW y \in g.touched, NEW n \in 0 .. Len(x) - 1
        PROVE  Ancestor(x, n) # y
    <3>1. x \in Paths \ {Root} /\ y \in Paths \ {Root} /\ (x = y \/ ~ IsDir(y))
      BY <1>1, <1>4, <1>7, <2>1
    <3> QED  BY <3>1, NoneReplaced
  <2>2. ASSUME NEW q \in g.touched
        PROVE  Chain(t, g.pipe, q, Len(q) - 1)
    <3>1. q \in Paths \ {Root} /\ Len(q) \in Nat
      BY <1>4, ParentAncestor
    <3>2. ASSUME NEW n \in 1 .. Len(q) - 1
          PROVE  Ancestor(q, n - 1) \notin WritesTo(g.pipe)
      <4>1. n - 1 \in 0 .. Len(q) - 1
        BY <3>1
      <4> QED  BY <1>4, <2>1, <4>1
    <3> QED  BY <1>6, <3>2, ChainUntouched
  <2>3. Reads(t, g)
    BY <1>4, <1>9, <2>1, <2>2 DEF Reads
  <2> QED  BY <1>9, <2>3 DEF SetSteps
<1>10. CASE rest # << >> /\ g.pc = "resolve" /\ g.path = Head(rest).key
  <2>1. Len(f.pairs) # 1
    <3>1. Len(rest) # 0
      BY <1>8, <1>10
    <3> QED  BY <1>8, <3>1
  <2>2. /\ LinkTargets = {} /\ ~ IsDir(p) /\ \A q \in f.touched : ~ IsDir(q)
        /\ \A i \in DOMAIN f.pairs : ~ IsDir(f.pairs[i].key)
    BY <1>1, <2>1 DEF Ensures, Queued, Fits
  <2>3. Fits(g)
    BY <1>1, <1>8, <1>10, <2>2 DEF Fits
  <2>4. Queued(t, << >>, g)
    BY <1>4, <1>6, <2>3 DEF Queued
  <2> QED  BY <1>10, <2>4 DEF SetSteps
<1> QED  BY <1>9, <1>10 DEF QueuedPair

LEMMA ReadSteps ==
  ASSUME NEW t, GoodDb(t), NEW f \in GoodFields, NEW g, NEW d, ReadParent(t, f, g, d),
         SetSteps(t, f)
  PROVE  /\ SetSteps(t, g) /\ WritesTo(g.pipe) = WritesTo(f.pipe) \cup {d}
         /\ \A q : Final(t, f.pipe, q).kids \subseteq Final(t, g.pipe, q).kids
<1> DEFINE w == Named(t, d, f.touched)
<1>1. /\ Reads(t, f) /\ d \in f.todo /\ g.touched = f.touched /\ g.todo = f.todo \ {d}
      /\ g.pipe = Append(f.pipe, w) /\ g.pc = IF f.todo = {d} THEN "exec" ELSE "parents"
  BY DEF ReadParent, SetSteps
<1>2. f.touched \in SUBSET (Paths \ {Root}) /\ f.pipe \in Seq(GoodWrite) /\ f.todo \subseteq Dirs
      /\ d \in Paths
  BY <1>1 DEF GoodFields, Dirs
<1>3. d \notin f.touched
  <2>1. PICK p \in f.touched : d = Parent(p)
    BY <1>1 DEF Reads
  <2>2. p \in Paths /\ p # Root
    BY <1>2
  <2>3. d = Ancestor(p, Len(p) - 1) /\ Len(p) - 1 \in 0 .. Len(p) - 1
    BY <2>1, <2>2, ParentAncestor
  <2> QED  BY <1>1, <2>3 DEF Reads
<1>4. d \notin WritesTo(f.pipe)
  BY <1>1, <1>3 DEF Reads
<1>5. w \in GoodWrite /\ w.key = d /\ w.val.kind # "absent"
  BY <1>2, NamedWrite
<1>6. /\ \A q : Final(t, f.pipe, q).kids \subseteq Final(t, g.pipe, q).kids
      /\ \A p \in f.touched : Parent(p) = d => Lists(Final(t, g.pipe, d), ChildName(p))
  BY <1>1, <1>2, <1>4, NamedGrows
<1> HIDE DEF w
<1>7. WritesTo(g.pipe) = WritesTo(f.pipe) \cup {d} /\ Solid(g.pipe)
  BY <1>1, <1>2, <1>5, WritesAppend DEF Reads
<1>8. ASSUME NEW p \in f.touched
      PROVE  /\ Chain(t, g.pipe, p, Len(p) - 1)
             /\ Parent(p) \in f.todo \ {d} \/ Chain(t, g.pipe, p, Len(p))
  <2>1. p \in Paths /\ p # Root
    BY <1>2
  <2>2. Chain(t, g.pipe, p, Len(p) - 1)
    BY <1>1, <1>6, ChainGrows DEF Reads
  <2>3. CASE Parent(p) = d
    <3>1. Len(p) \in Nat \ {0} /\ d = Ancestor(p, Len(p) - 1) /\ ChildName(p) = p[Len(p)]
      BY <2>1, <2>3, ParentAncestor
    <3>2. Lists(Final(t, g.pipe, Ancestor(p, Len(p) - 1)), p[Len(p)])
      BY <1>6, <2>3, <3>1
    <3>3. Chain(t, g.pipe, p, Len(p))
      BY <2>2, <3>1, <3>2, ChainNext
    <3> QED  BY <2>2, <3>3
  <2>4. CASE Parent(p) # d /\ Parent(p) \in f.todo
    BY <2>2, <2>4
  <2>5. CASE Parent(p) \notin f.todo
    <3>1. Chain(t, f.pipe, p, Len(p))
      BY <1>1, <2>5 DEF Reads
    <3>2. Chain(t, g.pipe, p, Len(p))
      BY <1>6, <3>1, ChainGrows
    <3> QED  BY <2>2, <3>2
  <2> QED  BY <2>3, <2>4, <2>5
<1>9. CASE g.pc = "parents"
  <2>1. Reads(t, g)
    BY <1>1, <1>7, <1>8 DEF Reads
  <2> QED  BY <1>6, <1>7, <1>9, <2>1 DEF SetSteps
<1>10. CASE g.pc = "exec" /\ f.todo = {d}
  <2>1. ASSUME NEW p \in f.touched
        PROVE  Final(t, g.pipe, p).kind # "absent" /\ Chain(t, g.pipe, p, Len(p))
    <3>1. g.pipe \in Seq(GoodWrite)
      BY <1>1, <1>2, <1>5
    <3>2. p \in WritesTo(g.pipe)
      BY <1>1, <1>7 DEF Reads
    <3>3. Final(t, g.pipe, p).kind # "absent"
      BY <1>7, <3>1, <3>2, FinalWritten
    <3> QED  BY <1>8, <1>10, <3>3
  <2>2. Stores(t, g)
    BY <1>1, <2>1 DEF Stores
  <2> QED  BY <1>6, <1>7, <1>10, <2>2 DEF SetSteps
<1> QED  BY <1>1, <1>9, <1>10

LEMMA ExecutedSteps ==
  ASSUME NEW t, GoodDb(t), NEW f \in GoodFields, NEW g, Executed(f, g), SetSteps(t, f),
         NEW u, u = [t EXCEPT ![Head(f.pipe).key] = Head(f.pipe).val]
  PROVE  /\ SetSteps(u, g) /\ WritesTo(g.pipe) \subseteq WritesTo(f.pipe)
         /\ \A q : Final(u, g.pipe, q) = Final(t, f.pipe, q)
<1>1. f.pipe \in Seq(GoodWrite) /\ f.pipe # << >> /\ f.pc = "exec"
      /\ g.pc = "exec" /\ g.pipe = Tail(f.pipe) /\ g.touched = f.touched
  BY DEF Executed, GoodFields
<1>2. \A q : Final(u, g.pipe, q) = Final(t, f.pipe, q)
  BY <1>1, FinalStep
<1>3. WritesTo(g.pipe) \subseteq WritesTo(f.pipe)
  BY <1>1, WritesTail
<1>4. Stores(t, f)
  BY <1>1 DEF SetSteps
<1>5. Stores(u, g)
  BY <1>1, <1>2, <1>4 DEF Stores, Chain
<1> QED  BY <1>1, <1>2, <1>3, <1>5 DEF SetSteps

-----------------------------------------------------------------------------
(* The nested Set and its caller *)

LEMMA TailOfOne ==
  ASSUME NEW S, NEW s \in Seq(S), Len(s) = 1
  PROVE  Tail(s) = << >> /\ Head(s) \in S
<1>1. s # << >>
  OBVIOUS
<1>2. Len(Tail(s)) = 0 /\ Tail(s) \in Seq(S) /\ Head(s) \in S
  BY <1>1
<1> QED  BY <1>2, EmptySeq

LEMMA MakeFrame ==
  ASSUME NEW d \in Paths \ {Root}
  PROVE  /\ Make(d).call = "Set" /\ Make(d).pc = "resolve" /\ Make(d).path = d
         /\ Make(d).touched = {} /\ Make(d).pipe = << >> /\ Len(Make(d).pairs) = 1
<1> DEFINE w == [key |-> d, val |-> IndexOf({})]
           batch == <<w>>
<1>1. /\ IndexOf({}) \in GoodValue /\ IndexOf({}).kind = "index"
  BY PlainValues
<1>2. w \in Given /\ w.key = d
  BY <1>1 DEF Given, GoodWrite
<1> HIDE DEF w
<1>3. batch \in Seq(Given) /\ batch # << >> /\ Head(batch) = w /\ Len(batch) = 1
  BY <1>2
<1>4. Make(d) = SetFrame(batch)
  BY DEF Make, w
<1> HIDE DEF batch
<1>5. SetFrame(batch).touched = {} /\ SetFrame(batch).pipe = << >>
  BY BlankType DEF SetFrame, GoodFields
<1> QED  BY <1>2, <1>3, <1>4, <1>5, SetFrameType

\* A missing directory is made: it is not listed, and all above it are.
LEMMA NestedBegins ==
  ASSUME NEW t, NEW f \in GoodFields, f.path \in Paths \ {Root}, SetSteps(t, f),
         NextMissing(t, f), NEW h, Advanced(f, h)
  PROVE  SetNested(t, Make(Ancestor(f.dir, f.at)), h)
<1> DEFINE d == Ancestor(f.dir, f.at)
           g == Make(d)
<1>1. Ensures(t, << >>, f, f.at - 1) /\ f.at \in Nat \ {0} /\ f.at <= Len(f.dir)
  BY DEF SetSteps, NextMissing, GoodFields
<1>2. Len(f.dir) \in Nat
  BY <1>1, ParentAncestor DEF Ensures
<1>3. f.at \in 1 .. Len(f.dir)
  BY <1>1, <1>2
<1>4. /\ d \in Paths \ {Root} /\ Parent(d) = Ancestor(f.path, f.at - 1)
      /\ ChildName(d) = f.path[f.at]
  BY <1>1, <1>3, WayTo DEF Dirs
<1>5. ~ Lists(ValueAt(t, Parent(d)), ChildName(d))
  BY <1>1, <1>3, <1>4, NextFound
<1>6. /\ Same(f, h) /\ h.path = f.path /\ h.dir = f.dir /\ h.at = f.at + 1
      /\ h.at - 1 = f.at /\ h.at - 2 = f.at - 1 /\ h.at >= 2
  BY <1>1 DEF Advanced
<1> HIDE DEF d
<1>7. /\ g.pc = "resolve" /\ g.path = d /\ g.touched = {} /\ g.pipe = << >>
      /\ Len(g.pairs) = 1
  BY <1>4, MakeFrame
<1>8. h.at >= 2 /\ h.at - 1 <= Len(h.dir) /\ g.path = Ancestor(h.dir, h.at - 1)
  BY <1>1, <1>6, <1>7 DEF d
<1> HIDE DEF g
<1>9. Ensures(t, g.pipe, h, h.at - 2)
  BY <1>1, <1>6, <1>7 DEF Ensures, Queued, Same, Fits
<1>10. SetSteps(t, g) /\ Starting(t, g)
  <2>1. Queued(t, << >>, g)
    BY <1>7, WritesEmpty DEF Queued, Fits
  <2> QED  BY <1>5, <1>7, <2>1 DEF SetSteps, Starting
<1>11. WritesTo(g.pipe) \subseteq {g.path, Parent(g.path)}
  BY <1>7, WritesEmpty
<1>12. SetNested(t, g, h)
  BY <1>7, <1>8, <1>9, <1>10, <1>11 DEF SetNested
<1> QED  BY <1>12 DEF g, d

\* Where the nested Set is in the tree.
LEMMA NestedPath ==
  ASSUME NEW t, NEW g, NEW f \in GoodFields, f.path \in Paths \ {Root}, SetNested(t, g, f)
  PROVE  /\ g.path = Ancestor(f.path, f.at - 1) /\ g.path \in Dirs /\ g.path \in Paths \ {Root}
         /\ ~ Follows(t, g.path) /\ Len(g.path) = f.at - 1 /\ Parent(g.path) \in Dirs
         /\ f.at - 1 \in 1 .. Len(f.dir) /\ f.at \in Nat
         /\ Len(f.dir) = Len(f.path) - 1 /\ Len(f.path) \in Nat
<1>1. /\ f.at >= 2 /\ f.at - 1 <= Len(f.dir) /\ Ensures(t, g.pipe, f, f.at - 2)
      /\ g.path = Ancestor(f.dir, f.at - 1) /\ f.at \in Nat
  BY DEF SetNested, GoodFields
<1>2. Len(f.dir) \in Nat
  BY <1>1, ParentAncestor DEF Ensures
<1>3. f.at - 1 \in 1 .. Len(f.dir)
  BY <1>1, <1>2
<1>4. /\ g.path = Ancestor(f.path, f.at - 1) /\ g.path \in Dirs /\ g.path # Root
      /\ Len(g.path) = f.at - 1 /\ ~ Follows(t, g.path)
      /\ Len(f.dir) = Len(f.path) - 1 /\ Len(f.path) \in Nat
  BY <1>1, <1>3, WayTo
<1>5. g.path \in Paths /\ Parent(g.path) \in Dirs
  BY <1>4, ParentDir DEF Dirs
<1> QED  BY <1>1, <1>3, <1>4, <1>5

\* Its first steps change nothing, ...
LEMMA NestedStarts ==
  ASSUME NEW t, NEW g, NEW f, SetNested(t, g, f), g.pc \in {"resolve", "ensure"},
         NEW h, SetSteps(t, h), Same(g, h), h.path = g.path, h.pc \in {"resolve", "ensure"}
  PROVE  SetNested(t, h, f)
BY DEF SetNested, Same, Starting

\* ... and it finds all directories above its own listed.
LEMMA NestedFinds ==
  ASSUME NEW t, NEW g \in GoodFields, NEW f \in GoodFields, f.path \in Paths \ {Root},
         SetNested(t, g, f)
  PROVE  ~ NextMissing(t, g)
<1> SUFFICES ASSUME NextMissing(t, g)
             PROVE  FALSE
  OBVIOUS
<1>1. /\ g.path = Ancestor(f.path, f.at - 1) /\ g.path \in Paths \ {Root}
      /\ Len(g.path) = f.at - 1 /\ f.at - 1 \in 1 .. Len(f.dir) /\ f.at \in Nat
      /\ Len(f.dir) = Len(f.path) - 1 /\ Len(f.path) \in Nat
  BY NestedPath
<1>2. g.pc = "ensure" /\ g.at <= Len(g.dir) /\ g.at \in Nat \ {0}
  BY DEF NextMissing, GoodFields
<1>3. Ensures(t, << >>, g, g.at - 1) /\ g.pipe = << >>
  BY <1>2 DEF SetNested, SetSteps, Starting
<1>4. Len(g.dir) = f.at - 2
  BY <1>1, <1>3, ParentAncestor DEF Ensures
<1>5. g.at \in 1 .. Len(g.dir) /\ g.at \in 1 .. f.at - 2 /\ g.at - 1 \in 0 .. f.at - 1
      /\ g.at \in 1 .. f.at - 1 /\ f.at - 1 \in 0 .. Len(f.path)
  BY <1>1, <1>2, <1>4
<1>6. ~ Lists(ValueAt(t, Ancestor(g.path, g.at - 1)), g.path[g.at])
  BY <1>1, <1>3, <1>5, NextFound
<1>7. Ancestor(g.path, g.at - 1) = Ancestor(f.path, g.at - 1) /\ g.path[g.at] = f.path[g.at]
  BY <1>1, <1>5, AncestorAncestor, AncestorSeq
<1>8. Chain(t, << >>, f.path, f.at - 2)
  BY <1>3 DEF SetNested, Ensures
<1>9. Lists(Final(t, << >>, Ancestor(f.path, g.at - 1)), f.path[g.at])
  BY <1>5, <1>8 DEF Chain
<1> QED  BY <1>6, <1>7, <1>9, FinalEmpty

\* It queues the empty index of a directory that nothing of the caller is in.
LEMMA NestedQueues ==
  ASSUME NEW t, NEW g \in GoodFields, NEW f \in GoodFields, f.path \in Paths \ {Root},
         SetNested(t, g, f), NEW h, QueuedPair(g, h), SetSteps(t, h)
  PROVE  SetNested(t, h, f)
<1> DEFINE d == g.path
           w == [key |-> d, val |-> Head(g.pairs).val]
<1>1. /\ d \in Paths \ {Root} /\ f.at - 1 \in 1 .. Len(f.dir) /\ f.at \in Nat
      /\ Len(f.dir) = Len(f.path) - 1 /\ Len(f.path) \in Nat
  BY NestedPath
<1>2. /\ Len(g.pairs) = 1 /\ g.touched = {} /\ g.pipe = << >>
      /\ ~ Lists(ValueAt(t, Parent(d)), ChildName(d))
  BY DEF QueuedPair, SetNested, Starting
<1>3. Tail(g.pairs) = << >> /\ Head(g.pairs) \in Given
  BY <1>2, TailOfOne DEF GoodFields
<1>4. /\ h.pc = "parents" /\ h.path = d /\ h.touched = {d} /\ h.pipe = Append(<< >>, w)
  BY <1>2, <1>3 DEF QueuedPair
<1>5. w \in GoodWrite /\ w.key = d
  BY <1>1, <1>3, WriteType DEF Given, GoodWrite
<1> HIDE DEF w
<1>6. WritesTo(h.pipe) = {d}
  <2>1. << >> \in Seq(GoodWrite)
    OBVIOUS
  <2> QED  BY <1>4, <1>5, <2>1, WritesAppend, WritesEmpty
<1>7. ASSUME NEW p \in Paths, NEW m \in 0 .. Len(p), Chain(t, << >>, p, m)
      PROVE  Chain(t, h.pipe, p, m)
  <2>1. \A n \in 1 .. m : Ancestor(p, n - 1) # d
    BY <1>1, <1>2, <1>7, NotThrough
  <2> QED  BY <1>6, <1>7, <2>1, ChainUntouched
<1>8. Ensures(t, << >>, f, f.at - 2)
  BY <1>2 DEF SetNested
<1>9. \A p \in f.touched : Chain(t, h.pipe, p, Len(p) - 1)
  <2> SUFFICES ASSUME NEW p \in f.touched
               PROVE  Chain(t, h.pipe, p, Len(p) - 1)
    OBVIOUS
  <2>1. p \in Paths /\ p # Root
    BY DEF GoodFields
  <2>2. Len(p) - 1 \in 0 .. Len(p)
    BY <2>1, ParentAncestor
  <2> QED  BY <1>7, <1>8, <2>1, <2>2 DEF Ensures, Queued
<1>10. Chain(t, h.pipe, f.path, f.at - 2)
  <2>1. f.at - 2 \in 0 .. Len(f.path)
    BY <1>1
  <2> QED  BY <1>7, <1>8, <2>1 DEF Ensures
<1>11. Ensures(t, h.pipe, f, f.at - 2)
  BY <1>8, <1>9, <1>10 DEF Ensures, Queued
<1> QED  BY <1>4, <1>6, <1>11 DEF SetNested

\* It queues the name of that directory.
LEMMA NestedReads ==
  ASSUME NEW t, NEW g, NEW f, SetNested(t, g, f), NEW h, NEW d, ReadParent(t, g, h, d),
         SetSteps(t, h), WritesTo(h.pipe) = WritesTo(g.pipe) \cup {d},
         \A q : Final(t, g.pipe, q).kids \subseteq Final(t, h.pipe, q).kids
  PROVE  SetNested(t, h, f)
<1>1. g.pc = "parents" /\ h.path = g.path /\ h.touched = g.touched /\ h.pc \in {"parents", "exec"}
      /\ d \in g.todo
  BY DEF ReadParent
<1>2. g.touched = {g.path} /\ Reads(t, g)
  BY <1>1 DEF SetNested, SetSteps
<1>3. d = Parent(g.path)
  BY <1>1, <1>2 DEF Reads
<1>4. Ensures(t, g.pipe, f, f.at - 2)
  BY DEF SetNested
<1>5. \A p, m : Chain(t, g.pipe, p, m) => Chain(t, h.pipe, p, m)
  BY ChainGrows
<1>6. Ensures(t, h.pipe, f, f.at - 2)
  BY <1>4, <1>5 DEF Ensures, Queued
<1> QED  BY <1>1, <1>2, <1>3, <1>6 DEF SetNested

\* The server executes its commands, none of which writes a link.
LEMMA NestedExecutes ==
  ASSUME NEW t, GoodDb(t), NEW g \in GoodFields, NEW f \in GoodFields, f.path \in Paths \ {Root},
         SetNested(t, g, f), NEW h, Executed(g, h),
         NEW u, u = [t EXCEPT ![Head(g.pipe).key] = Head(g.pipe).val],
         SetSteps(u, h), WritesTo(h.pipe) \subseteq WritesTo(g.pipe),
         \A q : Final(u, h.pipe, q) = Final(t, g.pipe, q)
  PROVE  SetNested(u, h, f)
<1> DEFINE k == Head(g.pipe).key
           v == Head(g.pipe).val
<1>1. g.pc = "exec" /\ h.pc = "exec" /\ h.path = g.path /\ h.touched = g.touched
      /\ g.pipe \in Seq(GoodWrite) /\ g.pipe # << >>
  BY DEF Executed, GoodFields
<1>2. k \in WritesTo(g.pipe) /\ v \in GoodValue
  BY <1>1, WritesTail, FirstWrite
<1>3. k \in Dirs
  BY <1>2, NestedPath DEF SetNested
<1>4. Ensures(t, g.pipe, f, f.at - 2)
  BY DEF SetNested
<1> HIDE DEF k, v
<1>5. ~ Follows([t EXCEPT ![k] = v], f.path)
  BY <1>2, <1>3, <1>4, FollowsKept DEF Ensures
<1>6. ~ Follows(u, f.path)
  BY <1>5 DEF k, v
<1>7. \A p, m : Chain(t, g.pipe, p, m) => Chain(u, h.pipe, p, m)
  BY DEF Chain
<1>8. Ensures(u, h.pipe, f, f.at - 2)
  BY <1>4, <1>6, <1>7 DEF Ensures, Queued
<1> QED  BY <1>1, <1>8 DEF SetNested

\* It returns, and one directory more is listed.
LEMMA NestedReturns ==
  ASSUME NEW t, NEW g, NEW f \in GoodFields, f.path \in Paths \ {Root},
         SetNested(t, g, f), g.pc = "exec", g.pipe = << >>, f.pc = "ensure"
  PROVE  SetSteps(t, f)
<1>1. /\ g.path = Ancestor(f.path, f.at - 1) /\ Len(g.path) = f.at - 1
      /\ f.at - 1 \in 1 .. Len(f.dir) /\ f.at \in Nat
      /\ Len(f.dir) = Len(f.path) - 1 /\ Len(f.path) \in Nat
  BY NestedPath
<1>2. Ensures(t, << >>, f, f.at - 2)
  BY DEF SetNested
<1>3. Chain(t, << >>, g.path, Len(g.path))
  BY DEF SetNested, SetSteps, Stores
<1>4. ASSUME NEW n \in 1 .. f.at - 1
      PROVE  Lists(Final(t, << >>, Ancestor(f.path, n - 1)), f.path[n])
  <2>1. f.at - 1 \in 0 .. Len(f.path) /\ n - 1 \in 0 .. f.at - 1
    BY <1>1
  <2>2. Ancestor(g.path, n - 1) = Ancestor(f.path, n - 1) /\ g.path[n] = f.path[n]
    BY <1>1, <2>1, AncestorAncestor, AncestorSeq
  <2> QED  BY <1>1, <1>3, <2>2 DEF Chain
<1>5. Chain(t, << >>, f.path, f.at - 1)
  BY <1>4 DEF Chain
<1>6. f.at - 1 \in 0 .. Len(f.dir)
  BY <1>1
<1>7. Ensures(t, << >>, f, f.at - 1)
  BY <1>2, <1>5, <1>6 DEF Ensures
<1> QED  BY <1>7 DEF SetSteps

-----------------------------------------------------------------------------
(* Set, whole *)

\* A step goes on in the same frame, or calls a nested Set, or returns; only a
\* DelTree that finds a link changes what it does.
LEMMA StepKinds ==
  ASSUME TypeInv, NEW c \in Clients, Step(c)
  PROVE  /\ Busy(c)
         /\ \/ Abort(c) \/ Return(c, Top(c))
            \/ \E g : Continue(c, g) /\ g.pc # "returned" /\ g.call \in {Top(c).call, "Del"}
            \/ \E g, h : Nest(c, g, h) /\ g.call = Top(c).call /\ h.pc # "returned"
<1>1. Busy(c)
  BY BusyStep
<1> DEFINE f == Top(c)
           Goes == \E g : Continue(c, g) /\ g.pc # "returned" /\ g.call \in {f.call, "Del"}
           Nests == \E g, h : Nest(c, g, h) /\ g.call = f.call /\ h.pc # "returned"
<1>2. f \in GoodFields /\ f.pc # "returned"
  BY <1>1, TopType, BusyTop DEF TypeInv
<1>3. ASSUME NEW g, Continue(c, g), g.pc # "returned", g.call = f.call \/ g.call = "Del"
      PROVE  Goes
  BY <1>3
<1>4. ASSUME NEW g, NEW h, Nest(c, g, h), g.call = f.call, h.pc # "returned"
      PROVE  Nests
  BY <1>4
<1> SUFFICES Abort(c) \/ Return(c, f) \/ Goes \/ Nests
  BY <1>1
<1> HIDE DEF Goes, Nests
<1> USE <1>2 DEF GoodFields
<1>5. CASE FollowLink(c) \/ EnsureListed(c) \/ SetPrepare(c)
  BY <1>3, <1>5 DEF FollowLink, EnsureListed, SetPrepare, Ensuring
<1>6. CASE EnsureMissing(c)
  <2>1. \A batch : SetFrame(batch).pc = "resolve"
    BY BlankType DEF SetFrame
  <2>2. \/ Abort(c)
        \/ \E batch : Nest(c, [f EXCEPT !.at = @ + 1], SetFrame(batch))
    BY <1>6 DEF EnsureMissing
  <2>3. [f EXCEPT !.at = @ + 1].call = f.call
    OBVIOUS
  <2> QED  BY <1>4, <2>1, <2>2, <2>3
<1>7. CASE SetQueue(c)
  BY <1>3, <1>7 DEF SetQueue
<1>8. CASE SetParent(c)
  BY <1>3, <1>8 DEF SetParent
<1>9. CASE DelCheck(c) \/ DelQueue(c) \/ DelTreeScan(c) \/ DelTreeUnlist(c)
  BY <1>3, <1>9 DEF DelCheck, DelQueue, Removed, DelTreeScan, DelTreeUnlist
<1>10. CASE DelTreeLink(c)
  <2>1. \A keys : DelFrame(keys).pc = "resolveParent" /\ DelFrame(keys).call = "Del"
    BY BlankType DEF DelFrame
  <2> QED  BY <1>3, <1>10, <2>1 DEF DelTreeLink
<1>11. CASE MkindexPrepare(c) \/ DelExtQueue(c)
  BY <1>3, <1>11 DEF MkindexPrepare, DelExtQueue
<1>12. CASE MkindexNext(c)
  BY <1>3, <1>12 DEF MkindexNext
<1>13. CASE ExtIndexTarget(c) \/ ExtIndexPrepare(c) \/ ExtIndexQueue(c)
  BY <1>3, <1>13 DEF ExtIndexTarget, ExtIndexPrepare, ExtIndexQueue, Ensuring
<1>14. CASE ExecCommand(c) \/ ExecDoomed(c)
  BY <1>3, <1>14 DEF ExecCommand, ExecDoomed
<1>15. CASE ExecDone(c)
  BY <1>3, <1>15 DEF ExecDone
<1> QED  BY <1>5, <1>6, <1>7, <1>8, <1>9, <1>10, <1>11, <1>12, <1>13, <1>14, <1>15 DEF Step

\* The frame of the call that the client has made.
Outermost(s) == s[Len(s)]

LEMMA OutermostKept ==
  ASSUME TypeInv, NEW c \in Clients, Step(c), stack'[c] # << >>
  PROVE  /\ Outermost(stack'[c]).call = "Set" => Outermost(stack[c]).call = "Set"
         /\ Len(stack'[c]) > 1 => stack'[c][1].pc # "returned"
<1> DEFINE s == stack[c]
           t == stack'[c]
           n == Len(s)
<1>1. Busy(c) /\ n \in Nat \ {0} /\ Top(c) = s[1]
  BY StepKinds, BusyTop DEF TypeInv
<1>2. ~ Abort(c)
  BY AbortTop
<1> SUFFICES /\ t[Len(t)].call = "Set" => s[n].call = "Set"
             /\ Len(t) > 1 => t[1].pc # "returned"
  BY DEF Outermost
<1>3. CASE Return(c, Top(c))
  <2>1. \/ Len(s) = 1 /\ Len(t) = 1 /\ t[1] = Done(Top(c).call, Top(c).touched)
        \/ /\ Len(s) > 1 /\ Len(t) = Len(s) - 1
           /\ \A i \in 1 .. Len(t) : t[i] = s[i + 1]
           /\ t[1].pc = "ensure" /\ t[1].call \in {"Set", "ExtIndex"}
    BY <1>1, <1>3, ReturnTop
  <2>2. Done(Top(c).call, Top(c).touched).call = Top(c).call
    BY DoneFields
  <2> HIDE DEF s, t
  <2>3. CASE Len(s) = 1 /\ Len(t) = 1 /\ t[1] = Done(Top(c).call, Top(c).touched)
    BY <1>1, <2>2, <2>3
  <2>4. CASE /\ n > 1 /\ Len(t) = n - 1 /\ t[1].pc = "ensure"
             /\ \A i \in 1 .. Len(t) : t[i] = s[i + 1]
    <3> HIDE DEF n
    <3>1. n - 1 \in 1 .. Len(t) /\ n - 1 + 1 = n
      BY <1>1, <2>4
    <3>2. t[n - 1] = s[n]
      BY <2>4, <3>1
    <3> QED  BY <2>4, <3>2
  <2> QED  BY <2>1, <2>3, <2>4
<1>4. CASE \E g : Continue(c, g) /\ g.pc # "returned" /\ g.call \in {Top(c).call, "Del"}
  <2>1. PICK g : Continue(c, g) /\ g.pc # "returned" /\ g.call \in {Top(c).call, "Del"}
    BY <1>4
  <2>2. Len(t) = n /\ t[1] = g /\ \A i \in 2 .. Len(s) : t[i] = s[i]
    BY <1>1, <2>1, ContinueTop
  <2> HIDE DEF s, t
  <2>3. CASE n = 1
    BY <1>1, <2>1, <2>2, <2>3
  <2>4. CASE n # 1
    <3>1. t[n] = s[n]
      <4> HIDE DEF n
      <4>1. n \in 2 .. n
        BY <1>1, <2>4
      <4> QED  BY <2>2, <4>1 DEF n
    <3> QED  BY <2>1, <2>2, <3>1
  <2> QED  BY <2>3, <2>4
<1>5. CASE \E g, h : Nest(c, g, h) /\ g.call = Top(c).call /\ h.pc # "returned"
  <2>1. PICK g, h : Nest(c, g, h) /\ g.call = Top(c).call /\ h.pc # "returned"
    BY <1>5
  <2>2. Len(t) = n + 1 /\ t[1] = h /\ t[2] = g /\ \A i \in 3 .. Len(s) + 1 : t[i] = s[i - 1]
    BY <1>1, <2>1, NestTop
  <2> HIDE DEF s, t
  <2>3. CASE n = 1
    BY <1>1, <2>1, <2>2, <2>3
  <2>4. CASE n # 1
    <3>1. t[n + 1] = s[n]
      <4>1. \A i \in 3 .. n + 1 : t[i] = s[i - 1]
        BY <2>2
      <4> HIDE DEF n
      <4> DEFINE k == n + 1
      <4>2. k \in 3 .. n + 1 /\ k - 1 = n
        BY <1>1, <2>4
      <4>3. t[k] = s[n]
        <5> HIDE DEF k
        <5> QED  BY <4>1, <4>2
      <4> QED  BY <4>3
    <3> QED  BY <2>1, <2>2, <3>1
  <2> QED  BY <2>3, <2>4
<1> QED  BY <1>2, <1>3, <1>4, <1>5, StepKinds

\* A call that has returned has called nothing that is still running.
Alone == \A c \in Clients : stack[c] # << >> /\ Len(stack[c]) > 1 => stack[c][1].pc # "returned"

LEMMA MoreThanOne ==
  ASSUME NEW n, n > 1
  PROVE  n # 1
OBVIOUS

LEMMA AloneStep == TypeInv /\ Alone /\ [Next]_vars => Alone'
<1> SUFFICES ASSUME TypeInv, Alone, [Next]_vars, NEW c \in Clients,
                    stack'[c] # << >>, Len(stack'[c]) > 1
             PROVE  stack'[c][1].pc # "returned"
  BY DEF Alone
<1>1. CASE UNCHANGED vars
  BY <1>1 DEF vars, Alone
<1>2. CASE Next
  <2>1. PICK d \in Clients : Begin(d) \/ Step(d) \/ Fault(d)
    BY <1>2 DEF Next
  <2>2. CASE d # c
    BY <2>1, <2>2, OtherStack DEF Alone
  <2>3. CASE d = c /\ Begin(c)
    <3>1. ASSUME NEW f, Enter(c, f)
          PROVE  stack'[c] = <<f>>
      BY <3>1 DEF Enter, TypeInv, StackInv
    <3>2. ASSUME NEW f, Enter(c, f)
          PROVE  Len(stack'[c]) = 1
      <4> DEFINE one == <<f>>
      <4>1. Len(one) = 1
        <5>1. one \in Seq({f})
          OBVIOUS
        <5> QED  BY <5>1
      <4>2. stack'[c] = one
        BY <3>1, <3>2
      <4> HIDE DEF one
      <4> QED  BY <4>1, <4>2
    <3>3. ~ Clear(c)
      BY AbortTop DEF Clear
    <3>4. \E f : Enter(c, f)
      BY <2>3, <3>3 DEF Begin, SetBegin, DelBegin, DelTreeBegin, MkindexBegin, ExtIndexBegin,
                        DelExtBegin
    <3> QED  BY <3>2, <3>4, MoreThanOne
  <2>4. CASE d = c /\ Step(c)
    BY <2>4, OutermostKept
  <2>5. CASE d = c /\ Fault(c)
    <3>1. ~ Abort(c)
      BY AbortTop
    <3>2. Busy(c) /\ Return(c, Top(c))
      BY <2>5, <3>1 DEF Fault, ExecFails, Crash, At
    <3>3. Len(stack'[c]) # 1
      BY MoreThanOne
    <3> QED  BY <3>2, <3>3, ReturnTop
  <2> QED  BY <2>1, <2>2, <2>3, <2>4, <2>5
<1> QED  BY <1>1, <1>2

SetInvs ==
    \A c \in Clients \ Failing :
        c \in undisturbed /\ stack[c] # << >> /\ Outermost(stack[c]).call = "Set" =>
            SetInv(db, stack[c])

\* The frame that has called the nested Set.
LEMMA Caller ==
  ASSUME NEW s \in GoodStack, Len(s) = 2
  PROVE  s[1].call = "Set" /\ s[2] \in GoodFields /\ s[2].path \in Paths \ {Root} /\ s[2].pc = "ensure"
<1>1. 1 \in 1 .. Len(s) - 1 /\ 2 \in 1 .. Len(s) /\ s \in Seq(GoodFrame)
  BY DEF GoodStack
<1>2. s[1].call = "Set" /\ s[1 + 1].pc = "ensure" /\ s[2] \in GoodFrame
  BY <1>1 DEF GoodStack, Shape
<1> QED  BY <1>2 DEF GoodFrame, OnRoute, GoodFields

\* The steps that change the innermost frame, of a Set that runs by itself ...
LEMMA SetAlone ==
  ASSUME TypeInv, NEW c \in Clients, Step(c), stack'[c] # << >>, Top(c).call = "Set",
         Len(stack[c]) = 1, SetSteps(db, stack[c][1])
  PROVE  SetInv(db', stack'[c])
<1> DEFINE f == Top(c)
           g == stack'[c][1]
<1>1. Busy(c)
  BY BusyStep
<1>2. f \in GoodFields /\ GoodDb(db) /\ f.path \in Paths \ {Root} /\ f = stack[c][1]
      /\ (f.pc \in {"resolve", "ensure"} => f.pairs # << >>)
  BY <1>1, SetTop
<1>3. SetSteps(db, f)
  BY <1>2
<1>4. ASSUME Replaces(c), SetSteps(db', g)
      PROVE  SetInv(db', stack'[c])
  BY <1>4 DEF Replaces, SetInv
<1> HIDE DEF f, g
<1>5. CASE FollowLink(c)
  <2>1. Replaces(c) /\ db' = db /\ Turned(db, f, g)
    BY <1>5, FollowLinkFrame DEF f, g
  <2>2. SetSteps(db, g)
    BY <1>2, <1>3, <2>1, TurnedSteps
  <2> QED  BY <1>4, <2>1, <2>2
<1>6. CASE SetPrepare(c)
  <2>1. Replaces(c) /\ db' = db /\ Prepared(db, f, g)
    BY <1>6, PrepareFrame DEF f, g
  <2>2. SetSteps(db, g)
    BY <1>2, <1>3, <2>1, PreparedSteps
  <2> QED  BY <1>4, <2>1, <2>2
<1>7. CASE EnsureListed(c)
  <2>1. Replaces(c) /\ db' = db /\ NextListed(db, f) /\ Advanced(f, g)
    BY <1>7, ListedFrame DEF f, g
  <2>2. SetSteps(db, g)
    BY <1>2, <1>3, <2>1, ListedSteps
  <2> QED  BY <1>4, <2>1, <2>2
<1>8. CASE EnsureMissing(c)
  <2>1. /\ db' = db /\ NextMissing(db, f) /\ Len(stack'[c]) = Len(stack[c]) + 1
        /\ g = Make(Ancestor(f.dir, f.at)) /\ Advanced(f, stack'[c][2])
    BY <1>8, MissingFrame DEF f, g
  <2>2. SetNested(db, Make(Ancestor(f.dir, f.at)), stack'[c][2])
    BY <1>2, <1>3, <2>1, NestedBegins
  <2>3. Len(stack'[c]) = 2
    BY <2>1
  <2> QED  BY <2>1, <2>2, <2>3 DEF SetInv, g
<1>9. CASE SetQueue(c)
  <2>1. Replaces(c) /\ db' = db /\ QueuedPair(f, g)
    BY <1>9, QueueFrame DEF f, g
  <2>2. f.pairs # << >>
    BY <1>2, <2>1 DEF QueuedPair
  <2>3. SetSteps(db, g)
    BY <1>2, <1>3, <2>1, <2>2, QueuedSteps
  <2> QED  BY <1>4, <2>1, <2>3
<1>10. CASE SetParent(c)
  <2>1. Replaces(c) /\ db' = db /\ \E d : ReadParent(db, f, g, d)
    BY <1>10, ParentFrame DEF f, g
  <2>2. SetSteps(db, g)
    BY <1>2, <1>3, <2>1, ReadSteps
  <2> QED  BY <1>4, <2>1, <2>2
<1>11. CASE ExecCommand(c)
  <2>1. /\ Replaces(c) /\ Executed(f, g)
        /\ db' = [db EXCEPT ![Head(f.pipe).key] = Head(f.pipe).val]
    BY <1>11, ExecFrame DEF f, g
  <2>2. SetSteps(db', g)
    BY <1>2, <1>3, <2>1, ExecutedSteps
  <2> QED  BY <1>4, <2>1, <2>2
<1>12. CASE ExecDone(c)
  <2>1. /\ db' = db /\ f.pc = "exec" /\ f.pipe = << >>
        /\ Len(stack'[c]) = 1 /\ g = Done("Set", f.touched)
    BY <1>12, DoneFrame, MoreThanOne DEF f, g
  <2>2. g.touched = f.touched /\ g.pc = "returned" /\ g.pipe = << >>
    BY <2>1, DoneFields
  <2>3. SetSteps(db', g)
    BY <1>3, <2>1, <2>2 DEF SetSteps, Stores
  <2> QED  BY <2>1, <2>3 DEF SetInv, g
<1> QED  BY <1>5, <1>6, <1>7, <1>8, <1>9, <1>10, <1>11, <1>12, SetActions

\* ... and of one that makes a directory for another call of its client.
LEMMA SetInside ==
  ASSUME TypeInv, NEW c \in Clients, Step(c), stack'[c] # << >>, Top(c).call = "Set",
         Len(stack[c]) = 2, SetNested(db, stack[c][1], stack[c][2])
  PROVE  SetInv(db', stack'[c])
<1> DEFINE f == stack[c][2]
           g == Top(c)
           h == stack'[c][1]
<1>1. Busy(c)
  BY BusyStep
<1>2. /\ g \in GoodFields /\ GoodDb(db) /\ g.path \in Paths \ {Root} /\ g = stack[c][1]
      /\ (g.pc \in {"resolve", "ensure"} => g.pairs # << >>)
  BY <1>1, SetTop
<1>3. f \in GoodFields /\ f.path \in Paths \ {Root} /\ f.pc = "ensure"
  BY <1>1, BusyTop, Caller DEF TypeInv
<1>4. SetNested(db, g, f) /\ SetSteps(db, g)
  BY <1>2 DEF SetNested
<1>5. ASSUME Replaces(c), SetNested(db', h, f)
      PROVE  SetInv(db', stack'[c])
  <2>1. Len(stack'[c]) = 2 /\ stack'[c][2] = f
    BY <1>5 DEF Replaces
  <2> QED  BY <1>5, <2>1 DEF SetInv
<1> HIDE DEF f, g, h
<1>6. CASE FollowLink(c)
  <2>1. Turned(db, g, h)
    BY <1>6, FollowLinkFrame DEF g, h
  <2>2. ~ Follows(db, g.path)
    BY <1>3, <1>4, NestedPath
  <2> QED  BY <2>1, <2>2 DEF Turned
<1>7. CASE SetPrepare(c)
  <2>1. Replaces(c) /\ db' = db /\ Prepared(db, g, h)
    BY <1>7, PrepareFrame DEF g, h
  <2>2. SetSteps(db, h)
    BY <1>2, <1>4, <2>1, PreparedSteps
  <2>3. Same(g, h) /\ h.path = g.path /\ g.pc \in {"resolve", "ensure"} /\ h.pc \in {"resolve", "ensure"}
    BY <2>1 DEF Prepared
  <2>4. SetNested(db, h, f)
    BY <1>4, <2>2, <2>3, NestedStarts
  <2> QED  BY <1>5, <2>1, <2>4
<1>8. CASE EnsureListed(c)
  <2>1. Replaces(c) /\ db' = db /\ NextListed(db, g) /\ Advanced(g, h)
    BY <1>8, ListedFrame DEF g, h
  <2>2. SetSteps(db, h)
    BY <1>2, <1>4, <2>1, ListedSteps
  <2>3. Same(g, h) /\ h.path = g.path /\ g.pc \in {"resolve", "ensure"} /\ h.pc \in {"resolve", "ensure"}
    BY <2>1 DEF Advanced, NextListed
  <2>4. SetNested(db, h, f)
    BY <1>4, <2>2, <2>3, NestedStarts
  <2> QED  BY <1>5, <2>1, <2>4
<1>9. CASE EnsureMissing(c)
  <2>1. NextMissing(db, g)
    BY <1>9, MissingFrame DEF g
  <2> QED  BY <1>2, <1>3, <1>4, <2>1, NestedFinds
<1>10. CASE SetQueue(c)
  <2>1. Replaces(c) /\ db' = db /\ QueuedPair(g, h)
    BY <1>10, QueueFrame DEF g, h
  <2>2. g.pairs # << >>
    BY <1>2, <2>1 DEF QueuedPair
  <2>3. SetSteps(db, h)
    BY <1>2, <1>4, <2>1, <2>2, QueuedSteps
  <2>4. SetNested(db, h, f)
    BY <1>2, <1>3, <1>4, <2>1, <2>3, NestedQueues
  <2> QED  BY <1>5, <2>1, <2>4
<1>11. CASE SetParent(c)
  <2>1. Replaces(c) /\ db' = db /\ \E d : ReadParent(db, g, h, d)
    BY <1>11, ParentFrame DEF g, h
  <2>2. PICK d : ReadParent(db, g, h, d)
    BY <2>1
  <2>3. /\ SetSteps(db, h) /\ WritesTo(h.pipe) = WritesTo(g.pipe) \cup {d}
        /\ \A q : Final(db, g.pipe, q).kids \subseteq Final(db, h.pipe, q).kids
    <3>1. GoodDb(db) /\ g \in GoodFields /\ SetSteps(db, g)
      BY <1>2, <1>4
    <3>2. SetSteps(db, h)
      BY <3>1, <2>2, ReadSteps
    <3>3. WritesTo(h.pipe) = WritesTo(g.pipe) \cup {d}
      BY <3>1, <2>2, ReadSteps
    <3>4. \A q : Final(db, g.pipe, q).kids \subseteq Final(db, h.pipe, q).kids
      BY <3>1, <2>2, ReadSteps
    <3> QED  BY <3>2, <3>3, <3>4
  <2>4. SetNested(db, h, f)
    BY <1>4, <2>2, <2>3, NestedReads
  <2> QED  BY <1>5, <2>1, <2>4
<1>12. CASE ExecCommand(c)
  <2>1. /\ Replaces(c) /\ Executed(g, h)
        /\ db' = [db EXCEPT ![Head(g.pipe).key] = Head(g.pipe).val]
    BY <1>12, ExecFrame DEF g, h
  <2>2. /\ SetSteps(db', h) /\ WritesTo(h.pipe) \subseteq WritesTo(g.pipe)
        /\ \A q : Final(db', h.pipe, q) = Final(db, g.pipe, q)
    <3> DEFINE u == [db EXCEPT ![Head(g.pipe).key] = Head(g.pipe).val]
    <3>1. GoodDb(db) /\ g \in GoodFields /\ Executed(g, h) /\ SetSteps(db, g)
      BY <1>2, <1>4, <2>1
    <3>2. SetSteps(u, h)
      BY <3>1, ExecutedSteps
    <3>3. WritesTo(h.pipe) \subseteq WritesTo(g.pipe)
      BY <3>1, ExecutedSteps
    <3>4. \A q : Final(u, h.pipe, q) = Final(db, g.pipe, q)
      BY <3>1, ExecutedSteps
    <3>5. db' = u
      BY <2>1
    <3> HIDE DEF u
    <3> QED  BY <3>2, <3>3, <3>4, <3>5
  <2>3. SetNested(db', h, f)
    <3>1. /\ GoodDb(db) /\ g \in GoodFields /\ f \in GoodFields /\ f.path \in Paths \ {Root}
          /\ SetNested(db, g, f)
      BY <1>2, <1>3, <1>4
    <3> QED  BY <3>1, <2>1, <2>2, NestedExecutes
  <2> QED  BY <1>5, <2>1, <2>3
<1>13. CASE ExecDone(c)
  <2>1. /\ db' = db /\ g.pc = "exec" /\ g.pipe = << >>
        /\ Len(stack'[c]) = 1 /\ \A i \in 1 .. Len(stack'[c]) : stack'[c][i] = stack[c][i + 1]
    <3>1. db' = db /\ g.pc = "exec" /\ g.pipe = << >>
      BY <1>13, DoneFrame DEF g
    <3>2. \/ Len(stack[c]) = 1
          \/ /\ Len(stack'[c]) = Len(stack[c]) - 1
             /\ \A i \in 1 .. Len(stack'[c]) : stack'[c][i] = stack[c][i + 1]
      BY <1>13, DoneFrame
    <3>3. Len(stack[c]) # 1
      OBVIOUS
    <3>4. Len(stack'[c]) = 2 - 1
      BY <3>2, <3>3
    <3> QED  BY <3>1, <3>2, <3>3, <3>4
  <2>2. h = f
    <3>1. 1 \in 1 .. Len(stack'[c])
      BY <2>1
    <3>2. stack'[c][1] = stack[c][1 + 1]
      BY <2>1, <3>1
    <3> QED  BY <3>2 DEF h, f
  <2>3. SetSteps(db, f)
    BY <1>3, <1>4, <2>1, NestedReturns
  <2> QED  BY <2>1, <2>2, <2>3 DEF SetInv, h
<1> QED  BY <1>6, <1>7, <1>8, <1>9, <1>10, <1>11, <1>12, <1>13, SetActions

LEMMA SetBegins ==
  ASSUME OneOrFiles, TypeInv, NEW c \in Clients, Begin(c),
         stack'[c] # << >>, Outermost(stack'[c]).call = "Set"
  PROVE  SetInv(db', stack'[c])
<1>1. ASSUME NEW f, Enter(c, f)
      PROVE  stack'[c][1] = f /\ Len(stack'[c]) = 1
  <2> DEFINE one == <<f>>
  <2>1. Len(one) = 1 /\ one[1] = f
    <3>1. one \in Seq({f})
      OBVIOUS
    <3> QED  BY <3>1
  <2>2. stack'[c] = one
    BY <1>1 DEF Enter, TypeInv, StackInv
  <2> HIDE DEF one
  <2> QED  BY <2>1, <2>2
<1>2. ASSUME NEW f, Enter(c, f)
      PROVE  f.call = "Set"
  BY <1>1, <1>2 DEF Outermost
<1>3. ~ Clear(c)
  BY AbortTop DEF Clear
<1>4. ~ DelBegin(c)
  <2>1. \A keys : DelFrame(keys).call = "Del"
    BY BlankType DEF DelFrame
  <2> QED  BY <1>2, <2>1 DEF DelBegin
<1>5. ~ DelTreeBegin(c) /\ ~ MkindexBegin(c) /\ ~ ExtIndexBegin(c) /\ ~ DelExtBegin(c)
  <2>1. \A p : [Blank EXCEPT !.call = "DelTree", !.pc = "link", !.path = p].call = "DelTree"
    BY BlankType DEF GoodFields
  <2>2. \A p : [Blank EXCEPT !.call = "Mkindex", !.pc = "resolve", !.path = p].call = "Mkindex"
    BY BlankType DEF GoodFields
  <2>3. \A p, t : [Blank EXCEPT !.call = "ExtIndex", !.pc = "target", !.path = p,
                               !.target = t].call = "ExtIndex"
    BY BlankType DEF GoodFields
  <2>4. \A p : [Blank EXCEPT !.call = "DelExtIndex", !.pc = "resolveParent",
                            !.path = p].call = "DelExtIndex"
    BY BlankType DEF GoodFields
  <2>5. ~ DelTreeBegin(c)
    BY <1>2, <2>1 DEF DelTreeBegin
  <2>6. ~ MkindexBegin(c)
    BY <1>2, <2>2 DEF MkindexBegin
  <2>7. ~ ExtIndexBegin(c)
    BY <1>2, <2>3 DEF ExtIndexBegin
  <2>8. ~ DelExtBegin(c)
    BY <1>2, <2>4 DEF DelExtBegin
  <2> QED  BY <2>5, <2>6, <2>7, <2>8
<1>6. PICK batch \in Batches[c] : Enter(c, SetFrame(batch))
  BY <1>3, <1>4, <1>5 DEF Begin, SetBegin
<1> DEFINE f == SetFrame(batch)
<1>7. /\ f.pc = "resolve" /\ f.pairs = batch /\ f.path = Head(batch).key
      /\ batch \in Seq(Given) /\ batch # << >>
  BY BatchType, SetFrameType
<1>8. f.touched = {} /\ f.pipe = << >>
  BY BlankType DEF SetFrame, GoodFields
<1>9. Head(batch) = batch[1] /\ 1 \in DOMAIN batch
  BY <1>7
<1> HIDE DEF f
<1>10. Fits(f)
  BY <1>7, <1>8, <1>9 DEF Fits, OneOrFiles
<1>11. SetSteps(db', f)
  BY <1>7, <1>8, <1>10, WritesEmpty DEF SetSteps, Queued
<1> QED  BY <1>1, <1>6, <1>11 DEF SetInv, f

LEMMA SetStep == OneOrFiles /\ TypeInv /\ SetInvs /\ [Next]_vars => SetInvs'
<1> SUFFICES ASSUME OneOrFiles, TypeInv, SetInvs, [Next]_vars, NEW c \in Clients \ Failing,
                    c \in undisturbed', stack'[c] # << >>, Outermost(stack'[c]).call = "Set"
             PROVE  SetInv(db', stack'[c])
  BY DEF SetInvs
<1>1. CASE UNCHANGED vars
  BY <1>1 DEF vars, SetInvs
<1>2. CASE Next
  <2>1. PICK d \in Clients : Begin(d) \/ Step(d) \/ Fault(d)
    BY <1>2 DEF Next
  <2>2. CASE d # c
    BY <2>1, <2>2, OtherClient DEF SetInvs
  <2>3. CASE d = c /\ Begin(c)
    BY <2>3, SetBegins
  <2>4. CASE d = c /\ Step(c)
    <3>1. /\ Outermost(stack[c]).call = "Set" /\ Busy(c)
      BY <2>4, OutermostKept, BusyStep
    <3>2. stack[c] # << >> /\ stack[c] \in GoodStack /\ Top(c) = stack[c][1]
      BY <3>1, BusyTop DEF TypeInv
    <3>3. c \in undisturbed
      <4>1. undisturbed' \subseteq undisturbed
        BY <2>4 DEF Step, FollowLink, EnsureListed, EnsureMissing, SetPrepare, SetQueue, SetParent,
                    DelCheck, DelQueue, DelTreeLink, DelTreeScan, DelTreeUnlist, MkindexPrepare,
                    MkindexNext, DelExtQueue, ExtIndexTarget, ExtIndexPrepare, ExtIndexQueue,
                    ExecCommand, ExecDoomed, ExecDone
      <4> QED  BY <4>1
    <3>4. SetInv(db, stack[c])
      BY <3>1, <3>2, <3>3 DEF SetInvs
    <3>5. CASE Len(stack[c]) = 1 /\ SetSteps(db, stack[c][1])
      <4>1. Top(c).call = "Set"
        BY <3>1, <3>2, <3>5 DEF Outermost
      <4> QED  BY <2>4, <3>5, <4>1, SetAlone
    <3>6. CASE Len(stack[c]) = 2 /\ SetNested(db, stack[c][1], stack[c][2])
      <4>1. Top(c).call = "Set"
        BY <3>2, <3>6, Caller
      <4> QED  BY <2>4, <3>6, <4>1, SetInside
    <3> QED  BY <3>4, <3>5, <3>6 DEF SetInv
  <2>5. CASE d = c /\ Fault(c)
    BY <2>5, AbortTop DEF Fault, ExecFails, Crash
  <2> QED  BY <2>1, <2>2, <2>3, <2>4, <2>5
<1> QED  BY <1>1, <1>2

\* A Set that returns, while no other client writes, has stored its pairs where
\* List finds them: every directory on the way lists the next, whatever state
\* an earlier call has left the indexes in.  It is called with one pair, or
\* with files only and no links are about: a pair that is a directory would
\* replace the index that lists another.
THEOREM SetRepaired ==
  ASSUME OneOrFiles
  PROVE  Spec => []SetRepairs
<1>1. Init => SetInvs /\ Alone
  BY DEF Init, SetInvs, Alone
<1>2. TypeInv /\ SetInvs /\ Alone => SetRepairs
  <2> SUFFICES ASSUME TypeInv, SetInvs, Alone, NEW c \in Clients \ Failing, Did(c, "Set"),
                      NEW p \in Top(c).touched
               PROVE  Present(db, p) /\ NamedUp(db, p)
    BY DEF SetRepairs, HasStored
  <2>1. /\ c \in undisturbed /\ stack[c] # << >> /\ Top(c).pc = "returned"
        /\ Top(c).call = "Set" /\ Top(c) = stack[c][1] /\ stack[c] \in GoodStack
    BY DEF Did, Busy, Top, TypeInv, StackInv, GoodStack
  <2>2. Len(stack[c]) = 1
    <3> DEFINE n == Len(stack[c])
    <3>1. n \in Nat \ {0}
      BY <2>1 DEF GoodStack
    <3>2. ~ (n > 1)
      BY <2>1 DEF Alone
    <3> HIDE DEF n
    <3>3. n = 1
      BY <3>1, <3>2
    <3> QED  BY <3>3 DEF n
  <2>3. Outermost(stack[c]).call = "Set"
    BY <2>1, <2>2 DEF Outermost
  <2>4. SetSteps(db, Top(c))
    BY <2>1, <2>2, <2>3 DEF SetInvs, SetInv
  <2>5. Top(c).pipe = << >> /\ Stores(db, Top(c))
    BY <2>1, <2>4 DEF SetSteps
  <2>6. Final(db, << >>, p).kind # "absent" /\ Chain(db, << >>, p, Len(p))
    BY <2>5 DEF Stores
  <2>7. Present(db, p)
    BY <2>6, FinalEmpty DEF Present
  <2>8. NamedUp(db, p)
    BY <2>6, FinalEmpty DEF Chain, Lists, NamedUp, DirIndex
  <2> QED  BY <2>7, <2>8
<1> QED  BY <1>1, <1>2, TypeInvariant, SetStep, AloneStep, PTL DEF Spec

-----------------------------------------------------------------------------
(* Clients that work in directories of their own: what agrees *)

\* The directory of p lists it.
Noted(t, p) == ChildName(p) \in DirIndex(t, Parent(p))

\* A key is listed by its directory, and a file that is listed is there.
Agrees(t, p) == (Present(t, p) => Noted(t, p)) /\ (Noted(t, p) /\ ~ IsDir(p) => Present(t, p))

\* The keys below h agree with their indexes, but for those under a path of T.
TidyBut(t, h, T) ==
    \A p \in Paths : Inner(h, p) /\ (\A x \in T : ~ Under(p, x)) => Agrees(t, p)
Tidy(t, h) == TidyBut(t, h, {})

-----------------------------------------------------------------------------
(* Below a directory *)

LEMMA InnerPath ==
  ASSUME NEW h \in Dirs, NEW p \in Paths, Inner(h, p)
  PROVE  /\ p \in Paths \ {Root} /\ Parent(p) \in Dirs /\ Under(Parent(p), h)
         /\ Len(h) < Len(p) /\ Under(AsFile(p), h)
<1>1. /\ h \in Seq(Child) /\ p \in Seq(Child) /\ Len(h) \in Nat /\ Len(p) \in Nat
      /\ Len(h) <= Len(p) /\ \A i \in 1 .. Len(h) : p[i] = h[i]
  BY PathSeq, UnderMeans DEF Inner, Dirs
<1>2. Len(h) # Len(p)
  BY <1>1, SeqEqual DEF Inner
<1>3. Len(h) < Len(p) /\ p # Root
  BY <1>1, <1>2 DEF Root
<1>4. /\ Parent(p) \in Dirs /\ Parent(p) \in Seq(Child) /\ Len(Parent(p)) = Len(p) - 1
      /\ \A i \in 1 .. Len(p) - 1 : Parent(p)[i] = p[i]
  BY <1>1, <1>3, ParentSeq, ParentDir
<1>5. Under(Parent(p), h)
  BY <1>1, <1>3, <1>4, UnderMeans
<1>6. /\ AsFile(p) \in Seq(Child) /\ Len(AsFile(p)) = Len(p)
      /\ \A i \in 1 .. Len(p) - 1 : AsFile(p)[i] = p[i]
  BY <1>1, <1>3, Respelled
<1>7. Under(AsFile(p), h)
  BY <1>1, <1>3, <1>6, UnderMeans
<1> QED  BY <1>3, <1>4, <1>5, <1>7

LEMMA InnerDir ==
  ASSUME NEW h \in Dirs, NEW p \in Paths \ {Root}, Under(Parent(p), h)
  PROVE  Inner(h, p)
<1>1. /\ h \in Seq(Child) /\ p \in Seq(Child) \ {Root} /\ Len(h) \in Nat /\ Len(p) \in Nat
      /\ Parent(p) \in Seq(Child) /\ Len(Parent(p)) = Len(p) - 1
      /\ \A i \in 1 .. Len(p) - 1 : Parent(p)[i] = p[i]
  BY PathSeq, ParentSeq DEF Dirs
<1>2. Len(h) <= Len(p) - 1 /\ \A i \in 1 .. Len(h) : Parent(p)[i] = h[i]
  BY <1>1, UnderMeans
<1>3. Len(h) <= Len(p) /\ \A i \in 1 .. Len(h) : p[i] = h[i]
  BY <1>1, <1>2
<1>4. Under(p, h) /\ Len(p) # Len(h)
  BY <1>1, <1>2, <1>3, UnderMeans
<1> QED  BY <1>4 DEF Inner

\* What is under a path that is not a home's ancestor is as far in.
LEMMA InnerUnder ==
  ASSUME NEW h \in Dirs, NEW p \in Paths, Inner(h, p), NEW q \in Paths, Under(q, p)
  PROVE  Inner(h, q)
<1>1. /\ h \in Seq(Child) /\ p \in Seq(Child) /\ q \in Seq(Child) /\ Len(h) \in Nat
      /\ Len(p) \in Nat /\ Len(q) \in Nat
  BY PathSeq DEF Dirs
<1>2. Len(h) < Len(p) /\ Len(p) <= Len(q) /\ Under(q, h)
  BY <1>1, InnerPath, UnderMeans, UnderTransitive DEF Inner
<1>3. Len(h) # Len(q)
  BY <1>1, <1>2
<1> QED  BY <1>2, <1>3 DEF Inner

\* Below x, but not x itself: so is the parent.
LEMMA ParentUnder ==
  ASSUME NEW x \in Paths, NEW p \in Paths, Under(p, x), p # x
  PROVE  p # Root /\ Under(Parent(p), x)
<1>1. /\ x \in Seq(Child) /\ p \in Seq(Child) /\ Len(x) \in Nat /\ Len(p) \in Nat
      /\ Len(x) <= Len(p) /\ \A i \in 1 .. Len(x) : p[i] = x[i]
  BY PathSeq, UnderMeans
<1>2. Len(x) # Len(p)
  BY <1>1, SeqEqual
<1>3. p # Root
  BY <1>1, <1>2 DEF Root
<1>4. /\ Parent(p) \in Seq(Child) /\ Len(Parent(p)) = Len(p) - 1
      /\ \A i \in 1 .. Len(p) - 1 : Parent(p)[i] = p[i]
  BY <1>1, <1>3, ParentSeq
<1> QED  BY <1>1, <1>2, <1>3, <1>4, UnderMeans

LEMMA UnderParent ==
  ASSUME NEW x \in Paths, NEW p \in Paths \ {Root}, Under(Parent(p), x)
  PROVE  Under(p, x)
<1>1. x \in Seq(Child) /\ p \in Seq(Child) /\ Parent(p) \in Seq(Child) /\ Under(p, Parent(p))
  <2>1. Len(p) - 1 \in 0 .. Len(p) /\ Parent(p) = Ancestor(p, Len(p) - 1)
    BY ParentAncestor
  <2> QED  BY <2>1, PathSeq, AncestorPath, AncestorUnder
<1> QED  BY <1>1, UnderTransitive

\* Paths of two homes, neither in the other, are different.
LEMMA HomesApart ==
  ASSUME NEW h \in Dirs, NEW e \in Dirs, ~ Under(h, e), ~ Under(e, h),
         NEW p \in Paths, Under(p, h)
  PROVE  ~ Under(p, e)
<1>1. h \in Seq(Child) /\ e \in Seq(Child) /\ p \in Seq(Child) /\ Len(h) \in Nat /\ Len(e) \in Nat
  BY PathSeq DEF Dirs
<1>2. Len(h) <= Len(e) \/ Len(e) <= Len(h)
  BY <1>1
<1> QED  BY <1>1, <1>2, UnderBoth

-----------------------------------------------------------------------------
(* One name each *)

LEMMA AppendParent ==
  ASSUME NEW d \in Seq(Child), NEW k \in Child
  PROVE  /\ Append(d, k) \in Seq(Child) \ {Root} /\ Parent(Append(d, k)) = d
         /\ ChildName(Append(d, k)) = k /\ IsDir(Append(d, k)) = k.dir
         /\ Len(Append(d, k)) = Len(d) + 1
<1> DEFINE p == Append(d, k)
<1>1. /\ p \in Seq(Child) /\ Len(p) = Len(d) + 1 /\ Len(d) \in Nat
      /\ p[Len(d) + 1] = k /\ \A i \in 1 .. Len(d) : p[i] = d[i]
  OBVIOUS
<1> HIDE DEF p
<1>2. p # Root
  BY <1>1 DEF Root
<1>3. Parent(p) = d
  BY <1>1, <1>2, ParentSeq, SeqEqual
<1>4. ChildName(p) = k /\ IsDir(p) = k.dir
  BY <1>1, <1>2 DEF ChildName, Last, IsDir
<1> QED  BY <1>1, <1>2, <1>3, <1>4 DEF p

\* A path is its parent and its child's name.
LEMMA AppendName ==
  ASSUME NEW p \in Seq(Child) \ {Root}
  PROVE  Append(Parent(p), ChildName(p)) = p
<1>1. Parent(p) \in Seq(Child) /\ ChildName(p) \in Child
  BY ParentSeq DEF ChildName, Last, Root
<1>2. /\ Append(Parent(p), ChildName(p)) \in Seq(Child) \ {Root}
      /\ Parent(Append(Parent(p), ChildName(p))) = Parent(p)
      /\ ChildName(Append(Parent(p), ChildName(p))) = ChildName(p)
  BY <1>1, AppendParent
<1> QED  BY <1>2, ParentAndName

LEMMA SameName ==
  ASSUME NEW U, OneNameEach(U), NEW p \in U \ {Root}, NEW q \in U \ {Root},
         Parent(p) = Parent(q), ChildName(p).name = ChildName(q).name
  PROVE  p = q
<1> DEFINE a == AsFile(p)
           b == AsFile(q)
<1>1. p \in Paths \ {Root} /\ q \in Paths \ {Root} /\ p \in Seq(Child) /\ q \in Seq(Child)
  BY PathSeq DEF OneNameEach
<1>2. /\ Len(p) \in Nat /\ Len(q) \in Nat /\ Len(p) >= 1 /\ Len(q) >= 1
      /\ Len(Parent(p)) = Len(p) - 1 /\ Len(Parent(q)) = Len(q) - 1
      /\ \A i \in 1 .. Len(p) - 1 : Parent(p)[i] = p[i]
      /\ \A i \in 1 .. Len(q) - 1 : Parent(q)[i] = q[i]
      /\ ChildName(p) = p[Len(p)] /\ ChildName(q) = q[Len(q)]
  BY <1>1, ParentAncestor, ParentSeq
<1>3. Len(p) = Len(q) /\ \A i \in 1 .. Len(p) - 1 : p[i] = q[i]
  BY <1>2
<1>4. /\ a \in Seq(Child) /\ Len(a) = Len(p) /\ a[Len(p)] = FileChild(p[Len(p)])
      /\ \A i \in 1 .. Len(p) - 1 : a[i] = p[i]
  BY <1>1, Respelled
<1>5. /\ b \in Seq(Child) /\ Len(b) = Len(q) /\ b[Len(q)] = FileChild(q[Len(q)])
      /\ \A i \in 1 .. Len(q) - 1 : b[i] = q[i]
  BY <1>1, Respelled
<1>6. FileChild(p[Len(p)]) = FileChild(q[Len(q)])
  BY <1>2 DEF FileChild
<1> HIDE DEF a, b
<1>7. \A i \in 1 .. Len(p) : a[i] = b[i]
  <2> TAKE i \in 1 .. Len(p)
  <2>1. i = Len(p) \/ i \in 1 .. Len(p) - 1
    BY <1>2
  <2> QED  BY <1>3, <1>4, <1>5, <1>6, <2>1
<1>8. a = b
  BY <1>3, <1>4, <1>5, <1>7, SeqEqual
<1> QED  BY <1>8 DEF a, b, OneNameEach

LEMMA InUsed ==
  ASSUME NEW U, OneNameEach(U), NEW p \in U, p # Root
  PROVE  Parent(p) \in U /\ p \in Paths /\ Parent(p) \in Dirs
<1>1. p \in Paths
  BY DEF OneNameEach
<1>2. Len(p) - 1 \in 0 .. Len(p) /\ Parent(p) = Ancestor(p, Len(p) - 1)
  BY <1>1, ParentAncestor
<1> QED  BY <1>1, <1>2, ParentDir DEF OneNameEach

\* The spelling of a directory as a file is not in U as well.
LEMMA OtherSpelling ==
  ASSUME NEW U, OneNameEach(U), NEW p \in U \ {Root}, AsFile(p) \in U
  PROVE  AsFile(p) = p
<1>1. p \in Paths /\ p \in Seq(Child)
  BY PathSeq DEF OneNameEach
<1>2. AsFile(AsFile(p)) = AsFile(p)
  <2> DEFINE a == AsFile(p)
             b == AsFile(a)
  <2>1. /\ a \in Seq(Child) /\ a # Root /\ Len(a) = Len(p) /\ Len(p) \in Nat /\ Len(p) >= 1
        /\ p[Len(p)] \in Child /\ a[Len(p)] = FileChild(p[Len(p)])
        /\ \A i \in 1 .. Len(p) - 1 : a[i] = p[i]
    BY <1>1, Respelled
  <2> HIDE DEF a
  <2>2. /\ b \in Seq(Child) /\ Len(b) = Len(a) /\ b[Len(a)] = FileChild(a[Len(a)])
        /\ \A i \in 1 .. Len(a) - 1 : b[i] = a[i]
    BY <2>1, Respelled
  <2> HIDE DEF b
  <2>3. \A i \in 1 .. Len(a) : b[i] = a[i]
    <3> TAKE i \in 1 .. Len(a)
    <3>1. i = Len(a) \/ i \in 1 .. Len(a) - 1
      BY <2>1
    <3> QED  BY <2>1, <2>2, <3>1, ChildKinds
  <2>4. b = a
    BY <2>1, <2>2, <2>3, SeqEqual
  <2> QED  BY <2>4 DEF a, b
<1> QED  BY <1>2 DEF OneNameEach

-----------------------------------------------------------------------------
(* Keys and indexes that agree *)

FitDb(U, t) == GoodDb(t) /\ \A p \in Paths : Fit(U, p, t[p])

Hung(t, h, p) == Inner(h, p) => Noted(t, p)

LEMMA KeyValue ==
  ASSUME NEW U, NEW t, FitDb(U, t), NEW p \in Paths
  PROVE  /\ ValueAt(t, p) = t[p] /\ t[p] \in GoodValue /\ DirIndex(t, p) = t[p].kids
         /\ t[p].kids \in SUBSET Child
         /\ Present(t, p) <=> t[p].kind # "absent"
         /\ Present(t, p) => p \in U
         /\ ~ Present(t, p) => DirIndex(t, p) = {}
         /\ LinkTargets = {} /\ p \in Dirs => ~ NoIndex(t, p)
<1>1. t[p] \in GoodValue /\ ValueAt(t, p) = t[p] /\ Fit(U, p, t[p])
  BY DEF FitDb, GoodDb, ValueAt
<1>2. t[p].kids \in SUBSET Child /\ (t[p].kind = "absent" => t[p].kids = {})
      /\ (t[p].kind = "ptr" => t[p].ext \in LinkTargets)
  BY <1>1, ValueFields
<1>3. p \in Dirs => t[p].kind # "data"
  BY <1>1 DEF Fit, Dirs
<1> QED  BY <1>1, <1>2, <1>3 DEF DirIndex, Present, Fit, NoIndex

\* What a directory lists is in U, and so is the directory.
LEMMA NotedUsed ==
  ASSUME NEW U, NEW t, FitDb(U, t), NEW d \in Dirs, NEW k \in DirIndex(t, d)
  PROVE  /\ k \in Child /\ Append(d, k) \in U /\ Present(t, d) /\ d \in U
         /\ Append(d, k) # Root /\ Parent(Append(d, k)) = d /\ ChildName(Append(d, k)) = k
<1>1. d \in Paths /\ d \in Seq(Child)
  BY PathSeq DEF Dirs
<1>2. /\ DirIndex(t, d) = t[d].kids /\ k \in Child /\ Present(t, d) /\ d \in U
  BY <1>1, KeyValue
<1>3. Append(d, k) \in U
  BY <1>1, <1>2 DEF FitDb, Fit, Dirs
<1> QED  BY <1>1, <1>2, <1>3, AppendParent

\* A directory that lists the name of p lists p.
LEMMA NamedNoted ==
  ASSUME NEW U, OneNameEach(U), NEW t, FitDb(U, t), NEW p \in U \ {Root},
         NEW k \in DirIndex(t, Parent(p)), k.name = ChildName(p).name
  PROVE  k = ChildName(p) /\ Noted(t, p)
<1>1. Parent(p) \in Dirs
  BY InUsed
<1> DEFINE q == Append(Parent(p), k)
<1>2. q \in U \ {Root} /\ Parent(q) = Parent(p) /\ ChildName(q) = k
  BY <1>1, NotedUsed
<1> HIDE DEF q
<1>3. q = p
  BY <1>2, SameName
<1> QED  BY <1>2, <1>3 DEF Noted

LEMMA NotedPresent ==
  ASSUME NEW U, NEW t, FitDb(U, t), NEW p \in Paths, p # Root, Noted(t, p)
  PROVE  Present(t, Parent(p)) /\ p \in U
<1>1. Parent(p) \in Dirs /\ p \in Seq(Child)
  BY ParentDir, PathSeq
<1>2. Append(Parent(p), ChildName(p)) = p
  BY <1>1, AppendName
<1> DEFINE d == Parent(p)
           k == ChildName(p)
<1>3. k \in DirIndex(t, d)
  BY DEF Noted
<1> HIDE DEF d, k
<1>4. Append(d, k) \in U /\ Present(t, d)
  BY <1>1, <1>3, NotedUsed DEF d
<1> QED  BY <1>2, <1>4 DEF d, k

\* The index of its directory without the name of p.
OtherNames(t, p) == {k \in DirIndex(t, Parent(p)) : k.name # ChildName(p).name}

\* The paths of T lose their keys and their names.
LEMMA RemovedTidy ==
  ASSUME NEW U, OneNameEach(U), NEW h \in Dirs, NEW t, FitDb(U, t), NEW u, FitDb(U, u),
         NEW T \in SUBSET U, TidyBut(t, h, T),
         \A x \in T : Inner(h, x) /\ \A q \in Paths : Under(q, x) => ~ Present(u, q),
         \A x \in T :
            /\ DirIndex(u, Parent(x)) = OtherNames(t, x)
            /\ Present(u, Parent(x)) => Present(t, Parent(x)),
         \A q \in U : Under(q, h) /\ (\A x \in T : ~ Under(q, x) /\ Parent(x) # q) => u[q] = t[q]
  PROVE  Tidy(u, h)
<1> SUFFICES ASSUME NEW p \in Paths, Inner(h, p)
             PROVE  Agrees(u, p)
  BY DEF Tidy, TidyBut
<1> DEFINE d == Parent(p)
<1>1. p # Root /\ d \in Dirs /\ d \in Paths /\ Under(d, h) /\ Under(p, h)
  BY InnerPath DEF Dirs, Inner
<1>2. T \subseteq Paths
  BY DEF OneNameEach
<1>3. CASE \E x \in T : Under(p, x)
  <2>1. PICK x \in T : Under(p, x)
    BY <1>3
  <2>2. ~ Present(u, p) /\ x # Root /\ x \in U
    BY <1>2, <2>1, InnerPath
  <2>3. ~ Noted(u, p)
    <3>1. CASE p = x
      BY <3>1 DEF Noted, OtherNames
    <3>2. CASE p # x
      <4>1. Under(d, x)
        BY <1>2, <2>1, <3>2, ParentUnder
      <4>2. ~ Present(u, d)
        BY <1>1, <2>1, <4>1
      <4> QED  BY <1>1, <4>2, NotedPresent
    <3> QED  BY <3>1, <3>2
  <2> QED  BY <2>2, <2>3 DEF Agrees
<1>4. CASE \A x \in T : ~ Under(p, x)
  <2>1. Agrees(t, p)
    BY <1>4 DEF TidyBut
  <2>2. \A x \in T : ~ Under(d, x)
    BY <1>1, <1>2, <1>4, UnderParent
  <2>3. ASSUME d \in U, \A x \in T : Parent(x) # d
        PROVE  Noted(u, p) <=> Noted(t, p)
    <3>1. u[d] = t[d]
      BY <1>1, <2>2, <2>3
    <3> QED  BY <1>1, <3>1, KeyValue DEF Noted
  <2>4. ASSUME Present(u, p)
        PROVE  Noted(u, p)
    <3>1. p \in U /\ d \in U
      BY <1>1, <2>4, KeyValue, InUsed
    <3>2. Present(t, p)
      <4>1. CASE \E x \in T : Parent(x) = p
        BY <2>4, <4>1
      <4>2. CASE \A x \in T : Parent(x) # p
        <5>1. u[p] = t[p]
          BY <1>1, <1>4, <3>1, <4>2
        <5> QED  BY <2>4, <5>1, KeyValue
      <4> QED  BY <4>1, <4>2
    <3>3. Noted(t, p)
      BY <2>1, <3>2 DEF Agrees
    <3>4. ASSUME NEW x \in T, Parent(x) = d
          PROVE  Noted(u, p)
      <4>1. x # Root /\ x \in U
        BY <1>2, InnerPath
      <4>2. Under(x, x)
        BY <1>2, <4>1, UnderItself
      <4>3. p # x
        BY <1>4, <4>2
      <4>4. ChildName(p).name # ChildName(x).name
        BY <1>1, <3>1, <3>4, <4>1, <4>3, SameName
      <4> QED  BY <3>3, <3>4, <4>4 DEF Noted, OtherNames
    <3> QED  BY <2>3, <3>1, <3>3, <3>4
  <2>5. ASSUME Noted(u, p), ~ IsDir(p)
        PROVE  Present(u, p)
    <3>1. d \in U
      BY <1>1, <2>5, NotedPresent, KeyValue
    <3>2. Noted(t, p)
      BY <2>3, <2>5, <3>1 DEF Noted, OtherNames
    <3>3. Present(t, p) /\ p \in U
      BY <2>1, <2>5, <3>2, KeyValue DEF Agrees
    <3>4. \A x \in T : Parent(x) # p
      <4> TAKE x \in T
      <4>1. Parent(x) \in Dirs
        BY <1>2, ParentDir
      <4> QED  BY <2>5, <4>1 DEF Dirs
    <3>5. u[p] = t[p]
      BY <1>1, <1>4, <3>3, <3>4
    <3> QED  BY <3>3, <3>5, KeyValue
  <2> QED  BY <2>4, <2>5 DEF Agrees
<1> QED  BY <1>3, <1>4

\* The names in d of the paths of S.
NamesIn(S, d) == {ChildName(p) : p \in {q \in S : Parent(q) = d}}

\* The paths of T get their names, and those that are files their keys.
LEMMA NamedTidy ==
  ASSUME NEW U, OneNameEach(U), NEW h \in Dirs, NEW t, FitDb(U, t), NEW u, FitDb(U, u),
         NEW T \in SUBSET Paths, Tidy(t, h),
         \A x \in T :
            /\ Inner(h, x) /\ Hung(t, h, Parent(x)) /\ Parent(x) \notin T
            /\ IsDir(x) => DirIndex(t, x) = {} /\ DirIndex(u, x) = {}
            /\ ~ IsDir(x) => Present(u, x)
            /\ DirIndex(u, Parent(x)) = DirIndex(t, Parent(x)) \cup NamesIn(T, Parent(x)),
         \A q \in Paths : Under(q, h) /\ q \notin T /\ (\A x \in T : Parent(x) # q) => u[q] = t[q]
  PROVE  Tidy(u, h) /\ \A x \in T : Noted(u, x)
<1>1. ASSUME NEW x \in T
      PROVE  Noted(u, x)
  <2>1. ChildName(x) \in NamesIn(T, Parent(x))
    BY DEF NamesIn
  <2> QED  BY <2>1 DEF Noted
<1>2. ASSUME NEW d \in Dirs, Under(d, h)
      PROVE  DirIndex(t, d) \subseteq DirIndex(u, d)
  <2>1. d \in Paths
    BY DEF Dirs
  <2>2. CASE d \in T
    BY <2>2 DEF Dirs
  <2>3. CASE \E x \in T : Parent(x) = d
    BY <2>3
  <2>4. CASE d \notin T /\ \A x \in T : Parent(x) # d
    BY <1>2, <2>1, <2>4, KeyValue
  <2> QED  BY <2>2, <2>3, <2>4
<1>3. ASSUME NEW p \in Paths, Inner(h, p)
      PROVE  Agrees(u, p)
  <2> DEFINE d == Parent(p)
  <2>1. p # Root /\ d \in Dirs /\ d \in Paths /\ Under(d, h) /\ Under(p, h) /\ p \in Seq(Child)
    BY <1>3, InnerPath, PathSeq DEF Dirs, Inner
  <2>2. Agrees(t, p)
    BY <1>3 DEF Tidy, TidyBut
  <2>3. Noted(t, p) => Noted(u, p)
    BY <1>2, <2>1 DEF Noted
  <2>4. Present(u, p) => Noted(u, p)
    <3>1. CASE p \in T
      BY <1>1, <3>1
    <3>2. CASE p \notin T /\ \E x \in T : Parent(x) = p
      BY <1>3, <2>3, <3>2 DEF Hung
    <3>3. CASE p \notin T /\ \A x \in T : Parent(x) # p
      BY <2>1, <2>2, <2>3, <3>3, KeyValue DEF Agrees
    <3> QED  BY <3>1, <3>2, <3>3
  <2>5. ASSUME Noted(u, p), ~ IsDir(p)
        PROVE  Present(u, p)
    <3>1. CASE p \in T
      BY <2>5, <3>1
    <3>2. CASE p \notin T
      <4>1. \A x \in T : Parent(x) # p
        <5> TAKE x \in T
        <5>1. Parent(x) \in Dirs
          BY ParentDir
        <5> QED  BY <2>5, <5>1 DEF Dirs
      <4>2. u[p] = t[p]
        BY <2>1, <3>2, <4>1
      <4>3. Noted(t, p)
        <5>1. CASE d \in T
          BY <2>1, <2>5, <5>1 DEF Noted, Dirs
        <5>2. CASE \E x \in T : Parent(x) = d
          <6>1. PICK x \in T : Parent(x) = d
            BY <5>2
          <6>2. ASSUME NEW y \in T, Parent(y) = d, ChildName(y) = ChildName(p)
                PROVE  FALSE
            <7>1. y # Root /\ y \in Seq(Child)
              BY InnerPath, PathSeq
            <7> QED  BY <2>1, <3>2, <6>2, <7>1, ParentAndName
          <6> QED  BY <2>5, <6>1, <6>2 DEF Noted, NamesIn
        <5>3. CASE d \notin T /\ \A x \in T : Parent(x) # d
          BY <2>1, <2>5, <5>3, KeyValue DEF Noted
        <5> QED  BY <5>1, <5>2, <5>3
      <4> QED  BY <2>2, <2>5, <4>2, <4>3, KeyValue DEF Agrees
    <3> QED  BY <3>1, <3>2
  <2> QED  BY <2>4, <2>5 DEF Agrees
<1> QED  BY <1>1, <1>3 DEF Tidy, TidyBut

-----------------------------------------------------------------------------
(* What a pipeline leaves *)

\* The keys when the rest of the pipeline has been executed.
After(t, pipe) == [q \in Paths |-> Final(t, pipe, q)]

\* The commands write below h what may be stored there.
PipeFit(U, h, pipe) ==
    \A i \in DOMAIN pipe : Under(pipe[i].key, h) /\ Fit(U, pipe[i].key, pipe[i].val)

\* ... and leave the keys below h as their indexes have them.
Settles(U, t, h, pipe) == Tidy(After(t, pipe), h) /\ PipeFit(U, h, pipe)

\* No command takes a name out of an index.
Grows(t, pipe) ==
    \A i \in DOMAIN pipe :
        /\ DirIndex(t, pipe[i].key) \subseteq pipe[i].val.kids
        /\ \A j \in DOMAIN pipe : i # j => pipe[i].key # pipe[j].key

\* The keys when the first command has been executed.
Sent(t, pipe) == [t EXCEPT ![Head(pipe).key] = Head(pipe).val]

LEMMA AfterValue ==
  ASSUME NEW t, GoodDb(t), NEW pipe \in Seq(GoodWrite)
  PROVE  GoodDb(After(t, pipe)) /\ \A q \in Paths : ValueAt(After(t, pipe), q) = Final(t, pipe, q)
BY FinalType DEF After, GoodDb, ValueAt

LEMMA AfterFit ==
  ASSUME NEW U, NEW t, FitDb(U, t), NEW h, NEW pipe \in Seq(GoodWrite), PipeFit(U, h, pipe)
  PROVE  FitDb(U, After(t, pipe))
<1>1. GoodDb(t) /\ GoodDb(After(t, pipe))
  BY AfterValue DEF FitDb
<1>2. ASSUME NEW q \in Paths
      PROVE  Fit(U, q, Final(t, pipe, q))
  <2>1. CASE \E i \in DOMAIN pipe : pipe[i].key = q
    <3>1. PICK i \in DOMAIN pipe : LastWrite(pipe, q, i)
      BY <2>1, LastWriteExists
    <3>2. Final(t, pipe, q) = pipe[i].val
      BY <3>1, FinalLast
    <3>3. pipe[i].key = q
      BY <3>1 DEF LastWrite
    <3> QED  BY <3>2, <3>3 DEF PipeFit
  <2>2. CASE \A i \in DOMAIN pipe : pipe[i].key # q
    <3>1. Final(t, pipe, q) = t[q]
      BY <2>2, FinalNone DEF ValueAt
    <3> QED  BY <3>1 DEF FitDb
  <2> QED  BY <2>1, <2>2
<1> QED  BY <1>1, <1>2 DEF FitDb, After

LEMMA AfterNone ==
  ASSUME NEW t, GoodDb(t)
  PROVE  After(t, << >>) = t
<1>1. \A q \in Paths : Final(t, << >>, q) = t[q]
  BY FinalEmpty DEF ValueAt
<1> QED  BY <1>1 DEF After, GoodDb

\* A command is executed: what the pipeline leaves is the same.
LEMMA AfterStep ==
  ASSUME NEW U, NEW t, FitDb(U, t), NEW h, NEW pipe \in Seq(GoodWrite), pipe # << >>,
         PipeFit(U, h, pipe), NEW u, u = Sent(t, pipe)
  PROVE  /\ After(u, Tail(pipe)) = After(t, pipe) /\ PipeFit(U, h, Tail(pipe))
         /\ FitDb(U, u) /\ \A q \in Paths : ~ Under(q, h) => u[q] = t[q]
<1> DEFINE w == Head(pipe)
<1>1. /\ w \in GoodWrite /\ w.key \in Paths /\ w.val \in GoodValue /\ w = pipe[1]
      /\ 1 \in DOMAIN pipe /\ Tail(pipe) \in Seq(GoodWrite)
      /\ \A i \in DOMAIN Tail(pipe) : i + 1 \in DOMAIN pipe /\ Tail(pipe)[i] = pipe[i + 1]
  BY FirstWrite
<1>2. GoodDb(t)
  BY DEF FitDb
<1>3. After(u, Tail(pipe)) = After(t, pipe)
  <2>1. \A q \in Paths : Final(u, Tail(pipe), q) = Final(t, pipe, q)
    BY <1>2, FinalStep DEF Sent
  <2> QED  BY <2>1 DEF After
<1>4. PipeFit(U, h, Tail(pipe)) /\ Under(w.key, h) /\ Fit(U, w.key, w.val)
  <2>1. Under(pipe[1].key, h) /\ Fit(U, pipe[1].key, pipe[1].val)
    BY <1>1 DEF PipeFit
  <2>2. PipeFit(U, h, Tail(pipe))
    BY <1>1 DEF PipeFit
  <2> QED  BY <1>1, <2>1, <2>2
<1> HIDE DEF w
<1>5. /\ \A q \in Paths : u[q] = IF q = w.key THEN w.val ELSE t[q]
      /\ u \in [Paths -> GoodValue]
  BY <1>1, <1>2 DEF GoodDb, Sent, w
<1>6. FitDb(U, u)
  BY <1>4, <1>5 DEF FitDb, GoodDb
<1>7. \A q \in Paths : ~ Under(q, h) => u[q] = t[q]
  BY <1>4, <1>5
<1> QED  BY <1>3, <1>4, <1>6, <1>7

LEMMA AfterApart ==
  ASSUME NEW U, NEW t, GoodDb(t), NEW h, NEW pipe \in Seq(GoodWrite), pipe # << >>,
         PipeFit(U, h, pipe), NEW q \in Paths, ~ Under(q, h), NEW u, u = Sent(t, pipe)
  PROVE  u[q] = t[q]
<1>1. Head(pipe) = pipe[1] /\ 1 \in DOMAIN pipe /\ Head(pipe).key \in Paths
  BY FirstWrite
<1>2. Under(Head(pipe).key, h)
  BY <1>1 DEF PipeFit
<1>3. q # Head(pipe).key
  BY <1>2
<1> QED  BY <1>1, <1>3 DEF GoodDb, Sent

LEMMA GrowsStep ==
  ASSUME NEW t, GoodDb(t), NEW pipe \in Seq(GoodWrite), pipe # << >>, Grows(t, pipe),
         NEW u, u = Sent(t, pipe)
  PROVE  Grows(u, Tail(pipe)) /\ \A d \in Paths : DirIndex(t, d) \subseteq DirIndex(u, d)
<1> DEFINE w == Head(pipe)
<1>1. /\ w \in GoodWrite /\ w.key \in Paths /\ w.val \in GoodValue /\ w = pipe[1]
      /\ 1 \in DOMAIN pipe /\ Tail(pipe) \in Seq(GoodWrite)
      /\ \A i \in DOMAIN Tail(pipe) : i + 1 \in DOMAIN pipe /\ Tail(pipe)[i] = pipe[i + 1]
  BY FirstWrite
<1> HIDE DEF w
<1>2. \A q \in Paths : u[q] = IF q = w.key THEN w.val ELSE t[q]
  BY <1>1 DEF GoodDb, Sent, w
<1>3. DirIndex(t, w.key) \subseteq w.val.kids
  BY <1>1 DEF Grows
<1>4. \A d \in Paths : DirIndex(t, d) \subseteq DirIndex(u, d)
  BY <1>2, <1>3 DEF DirIndex, ValueAt
<1>5. ASSUME NEW i \in DOMAIN Tail(pipe)
      PROVE  /\ DirIndex(u, Tail(pipe)[i].key) \subseteq Tail(pipe)[i].val.kids
             /\ \A j \in DOMAIN Tail(pipe) : i # j => Tail(pipe)[i].key # Tail(pipe)[j].key
  <2>1. i \in Nat \ {0} /\ i + 1 \in DOMAIN pipe /\ Tail(pipe)[i] = pipe[i + 1]
    BY <1>1
  <2>2. pipe[i + 1].key # w.key /\ pipe[i + 1].key \in Paths
    <3>1. i + 1 # 1
      BY <2>1
    <3>2. pipe[i + 1].key # pipe[1].key
      BY <1>1, <2>1, <3>1 DEF Grows
    <3>3. pipe[i + 1] \in GoodWrite
      BY <2>1
    <3> QED  BY <1>1, <3>2, <3>3 DEF GoodWrite
  <2>3. DirIndex(u, pipe[i + 1].key) = DirIndex(t, pipe[i + 1].key)
    BY <1>2, <2>2 DEF DirIndex, ValueAt
  <2>4. ASSUME NEW j \in DOMAIN Tail(pipe), i # j
        PROVE  pipe[i + 1].key # pipe[j + 1].key
    <3>1. j \in Nat /\ j + 1 \in DOMAIN pipe /\ i + 1 # j + 1
      BY <1>1, <2>1, <2>4
    <3> QED  BY <2>1, <3>1 DEF Grows
  <2> QED  BY <1>1, <2>1, <2>3, <2>4 DEF Grows
<1> QED  BY <1>4, <1>5 DEF Grows

-----------------------------------------------------------------------------
(* Up to the root *)

\* The way up from what is listed is listed, as far as the home.
LEMMA HungUp ==
  ASSUME NEW U, NEW t, FitDb(U, t), NEW h \in Dirs, Tidy(t, h),
         NEW x \in Paths, Hung(t, h, x), NEW n \in 0 .. Len(x)
  PROVE  Hung(t, h, Ancestor(x, n))
<1> DEFINE S == {m \in 0 .. Len(x) : ~ Hung(t, h, Ancestor(x, m))}
           m == Max(S)
<1>1. Len(x) \in Nat /\ x \in Seq(Child)
  BY PathSeq
<1>2. SUFFICES ASSUME S # {}
               PROVE  FALSE
  OBVIOUS
<1>3. m \in S /\ \A k \in S : k <= m
  BY <1>1, <1>2, MaxNat
<1>4. m \in 0 .. Len(x) /\ ~ Hung(t, h, Ancestor(x, m))
  BY <1>3
<1>5. \A k \in 0 .. Len(x) : k > m => Hung(t, h, Ancestor(x, k))
  BY <1>1, <1>3
<1> HIDE DEF m, S
<1>6. m # Len(x)
  <2>1. x = Ancestor(x, Len(x))
    <3>1. CASE x # Root
      BY <3>1, ParentAncestor
    <3>2. CASE x = Root
      BY <3>2 DEF Ancestor, Root
    <3> QED  BY <3>1, <3>2
  <2> QED  BY <1>4, <2>1
<1>7. m + 1 \in 1 .. Len(x) /\ m + 1 \in 0 .. Len(x) /\ m + 1 > m /\ (m + 1) - 1 = m
  BY <1>1, <1>4, <1>6
<1> DEFINE y == Ancestor(x, m + 1)
           z == Ancestor(x, m)
<1>8. y \in Paths \ {Root} /\ Parent(y) = z
  BY <1>7, AncestorParent
<1>9. Hung(t, h, y) /\ ~ Hung(t, h, z)
  BY <1>4, <1>5, <1>7
<1> HIDE DEF y, z
<1>10. Inner(h, z) /\ ~ Noted(t, z) /\ z \in Dirs /\ z \in Paths
  BY <1>8, <1>9, ParentDir DEF Hung, Dirs
<1>11. Inner(h, y)
  BY <1>8, <1>10, InnerDir DEF Inner
<1>12. Noted(t, y)
  BY <1>9, <1>11 DEF Hung
<1>13. Present(t, z)
  BY <1>8, <1>12, NotedPresent
<1> QED  BY <1>10, <1>13 DEF Tidy, TidyBut, Agrees

\* A directory on the way that is not listed is below the home.
LEMMA MissingInner ==
  ASSUME NEW t, NEW h \in Dirs, ListedUp(t, h), NEW p \in Paths, Under(p, h),
         NEW n \in 1 .. Len(p), ~ Noted(t, Ancestor(p, n))
  PROVE  Inner(h, Ancestor(p, n))
<1> DEFINE a == Ancestor(p, n)
<1>1. /\ h \in Seq(Child) /\ p \in Seq(Child) /\ Len(h) \in Nat /\ Len(p) \in Nat
      /\ Len(h) <= Len(p) /\ \A i \in 1 .. Len(h) : p[i] = h[i]
  BY PathSeq, UnderMeans DEF Dirs
<1>2. /\ a \in Paths \ {Root} /\ Len(a) = n /\ Parent(a) = Ancestor(p, n - 1) /\ ChildName(a) = p[n]
      /\ a \in Seq(Child) /\ n \in 0 .. Len(p) /\ Under(p, a)
  BY AncestorParent, PathSeq, AncestorUnder
<1> HIDE DEF a
<1>3. CASE n > Len(h)
  <2>1. Under(a, h)
    BY <1>1, <1>2, <1>3, UnderBoth
  <2> QED  BY <1>2, <1>3, <2>1 DEF Inner, a
<1>4. CASE n <= Len(h)
  <2>1. n \in 1 .. Len(h) /\ p[n] = h[n]
    BY <1>1, <1>4
  <2>2. Ancestor(p, n - 1) = Ancestor(h, n - 1)
    <3> DEFINE x == Ancestor(p, n - 1)
               y == Ancestor(h, n - 1)
    <3>1. n - 1 \in 0 .. Len(h) /\ n - 1 \in 0 .. Len(p)
      BY <1>1, <2>1
    <3>2. /\ x \in Seq(Child) /\ Len(x) = n - 1 /\ \A i \in 1 .. n - 1 : x[i] = p[i]
          /\ y \in Seq(Child) /\ Len(y) = n - 1 /\ \A i \in 1 .. n - 1 : y[i] = h[i]
      <4>1. h \in Paths
        BY DEF Dirs
      <4>2. Len(x) = n - 1 /\ (\A i \in 1 .. n - 1 : x[i] = p[i]) /\ x \in Paths
        BY <3>1, AncestorSeq, AncestorPath
      <4>3. Len(y) = n - 1 /\ (\A i \in 1 .. n - 1 : y[i] = h[i]) /\ y \in Paths
        BY <3>1, <4>1, AncestorSeq, AncestorPath
      <4> QED  BY <4>2, <4>3, PathSeq
    <3> HIDE DEF x, y
    <3>3. \A i \in 1 .. n - 1 : x[i] = y[i]
      <4> TAKE i \in 1 .. n - 1
      <4>1. i \in 1 .. Len(h)
        BY <1>1, <2>1
      <4> QED  BY <1>1, <3>2, <4>1
    <3>4. x = y
      BY <3>2, <3>3, SeqEqual
    <3> QED  BY <3>4 DEF x, y
  <2>3. h[n] \in DirIndex(t, Ancestor(h, n - 1))
    BY <2>1 DEF ListedUp
  <2> QED  BY <1>2, <2>1, <2>2, <2>3 DEF Noted, a
<1> QED  BY <1>1, <1>3, <1>4

-----------------------------------------------------------------------------
(* The invariant of a client at home *)

\* Set has queued files whose directories are listed, and will queue files.
Gathers(U, t, h, f) ==
    /\ \A i \in DOMAIN f.pairs : MayPut(U, h, f.pairs[i].key)
    /\ \A p \in f.touched : MayPut(U, h, p) /\ Hung(t, h, Parent(p))
    /\ WritesTo(f.pipe) = f.touched /\ Solid(f.pipe)

\* MkIndexRecursive is on the way to the next of them.
Toward(f) == f.path = Head(f.pairs).key /\ f.dir = Parent(f.path) /\ f.at - 1 \in 0 .. Len(f.dir)

\* All files are queued, and the indexes that have been read name them.
Gives(U, t, h, f) ==
    /\ PipeFit(U, h, f.pipe)
    /\ WritesTo(f.pipe) = f.touched \cup ({Parent(p) : p \in f.touched} \ f.todo)
    /\ f.todo \subseteq {Parent(p) : p \in f.touched}
    /\ \A p \in f.touched :
          /\ Inner(h, p) /\ p \in U /\ Hung(t, h, Parent(p)) /\ Parent(p) \notin f.touched
          /\ Final(t, f.pipe, p).kind # "absent"
          /\ IsDir(p) => DirIndex(t, p) = {} /\ Final(t, f.pipe, p).kids = {}
          /\ Parent(p) \notin f.todo =>
                Final(t, f.pipe, Parent(p)).kids =
                    DirIndex(t, Parent(p)) \cup NamesIn(f.touched, Parent(p))

SetOk(U, t, h, f) ==
    /\ f.pc \in {"resolve", "ensure", "parents"} => Tidy(t, h)
    /\ f.pc \in {"resolve", "ensure"} => Gathers(U, t, h, f)
    /\ f.pc = "resolve" => f.path = Head(f.pairs).key
    /\ f.pc = "ensure" => Toward(f) /\ Hung(t, h, Ancestor(f.dir, f.at - 1))
    /\ f.pc = "parents" => Gives(U, t, h, f)
    /\ f.pc = "exec" => Settles(U, t, h, f.pipe)

\* Set waits for the Set that makes directory d for it.
Waits(U, t, h, f) == Gathers(U, t, h, f) /\ Toward(f) /\ f.at - 1 \in 1 .. Len(f.dir)

MakeOk(U, t, h, g, d) ==
    /\ g.path = d /\ d \in U /\ Inner(h, d)
    /\ g.pc \in {"resolve", "ensure", "parents"} =>
          Tidy(t, h) /\ Hung(t, h, Parent(d)) /\ ~ Noted(t, d)
    /\ g.pc \in {"resolve", "ensure"} =>
          g.pairs = Make(d).pairs /\ g.pipe = << >> /\ g.touched = {}
    /\ g.pc = "ensure" => g.dir = Parent(d)
    /\ g.pc = "parents" => g.pipe = Make(d).pairs /\ g.touched = {d} /\ g.todo = {Parent(d)}
    /\ g.pc = "exec" =>
          Settles(U, t, h, g.pipe) /\ Noted(After(t, g.pipe), d) /\ Grows(t, g.pipe)

\* Del has queued what takes the paths and their names away.
Takes(U, t, h, f) ==
    /\ PipeFit(U, h, f.pipe)
    /\ \A p \in f.touched :
          /\ MayDel(U, h, p)
          /\ \A i \in DOMAIN f.keys : Parent(f.keys[i]) # Parent(p)
          /\ Final(t, f.pipe, p).kind = "absent"
          /\ Final(t, f.pipe, Parent(p)).kids = OtherNames(t, p)
          /\ Final(t, f.pipe, Parent(p)).kind = ValueAt(t, Parent(p)).kind
    /\ \A q \in U : Under(q, h) /\ q \notin f.touched /\ (\A p \in f.touched : Parent(p) # q) =>
          Final(t, f.pipe, q) = ValueAt(t, q)

DelOk(U, t, h, f) ==
    /\ f.pc \in {"resolveParent", "remove"} =>
          /\ Tidy(t, h) /\ Takes(U, t, h, f) /\ f.path = Head(f.keys)
          /\ Scattered(f.keys) /\ \A i \in DOMAIN f.keys : MayDel(U, h, f.keys[i])
    /\ f.pc = "exec" => Settles(U, t, h, f.pipe)

TreeOk(U, t, h, f) ==
    /\ Inner(h, f.path) /\ f.path \in U /\ Exact(f.path)
    /\ f.pc \in {"link", "resolve"} => Tidy(t, h) /\ f.at = 1
    /\ f.pc = "unlist" => TidyBut(t, h, {f.path}) /\ Below(t, f.path) = {} /\ f.at = 1
    /\ f.pc = "exec" /\ f.at = 1 =>
          /\ TidyBut(t, h, {f.path})
          /\ \A q \in f.doomed : Under(q, f.path)
          /\ \/ f.pipe = << >> /\ Below(t, f.path) \subseteq f.doomed
             \/ f.pipe = <<DelKey(f.path)>> /\ Below(t, f.path) \subseteq f.doomed \cup {f.path}
    /\ f.pc = "exec" /\ f.at # 1 => Settles(U, t, h, f.pipe) /\ f.doomed = {}

MkOk(U, t, h, f) ==
    /\ Inner(h, f.path) /\ f.path \in U /\ IsDir(f.path)
    /\ f.at - 1 \in 0 .. Len(f.path)
    /\ f.pc \in {"resolve", "mkindex"} => Tidy(t, h) /\ Hung(t, h, Ancestor(f.path, f.at - 1))
    /\ f.pc = "exec" =>
          Settles(U, t, h, f.pipe) /\ Hung(After(t, f.pipe), h, Ancestor(f.path, f.at - 1))

CallOk(U, t, h, f) ==
    \/ f.call = "Set" /\ SetOk(U, t, h, f)
    \/ f.call = "Del" /\ DelOk(U, t, h, f)
    \/ f.call = "DelTree" /\ TreeOk(U, t, h, f)
    \/ f.call = "Mkindex" /\ MkOk(U, t, h, f)

\* Of the frames s of a client whose home is h.
Orderly(U, t, h, s) ==
    \/ (s = << >> \/ s[1].pc = "returned") /\ Tidy(t, h)
    \/ /\ s # << >> /\ s[1].pc # "returned"
       /\ \/ Len(s) = 1 /\ CallOk(U, t, h, s[1])
          \/ /\ Len(s) = 2 /\ s[1].call = "Set" /\ s[2].call = "Set"
             /\ Waits(U, t, h, s[2])
             /\ MakeOk(U, t, h, s[1], Ancestor(s[2].dir, s[2].at - 1))

\* The keys fit, no client writes outside its home, and each is orderly.
HomeInv(Home, U) ==
    /\ \A p \in Paths : Fit(U, p, db[p])
    /\ \A p \in Paths : (\A c \in Clients : ~ Under(p, Home[c])) => db[p] = Stored[p]
    /\ \A c \in Clients : Orderly(U, db, Home[c], stack[c])

-----------------------------------------------------------------------------
(* The calls of other clients *)

\* Below h the keys are the same.
Near(t, u, h) == \A q \in Paths : Under(q, h) => u[q] = t[q]

LEMMA NearKeys ==
  ASSUME NEW h \in Dirs, NEW t, NEW u, Near(t, u, h), NEW q \in Paths, Under(q, h)
  PROVE  /\ ValueAt(u, q) = ValueAt(t, q) /\ DirIndex(u, q) = DirIndex(t, q)
         /\ Present(u, q) <=> Present(t, q)
         /\ \A pipe : Final(u, pipe, q) = Final(t, pipe, q)
         /\ Inner(h, q) => (Noted(u, q) <=> Noted(t, q)) /\ (Agrees(u, q) <=> Agrees(t, q))
         /\ Hung(u, h, q) <=> Hung(t, h, q)
<1>1. /\ ValueAt(u, q) = ValueAt(t, q) /\ DirIndex(u, q) = DirIndex(t, q)
      /\ Present(u, q) <=> Present(t, q)
      /\ \A pipe : Final(u, pipe, q) = Final(t, pipe, q)
  BY DEF Near, ValueAt, DirIndex, Present, Final
<1>2. ASSUME Inner(h, q)
      PROVE  (Noted(u, q) <=> Noted(t, q)) /\ (Agrees(u, q) <=> Agrees(t, q))
  <2>1. Parent(q) \in Paths /\ Under(Parent(q), h)
    BY <1>2, InnerPath DEF Dirs
  <2>2. DirIndex(u, Parent(q)) = DirIndex(t, Parent(q))
    BY <2>1 DEF Near, DirIndex, ValueAt
  <2> QED  BY <1>1, <2>2 DEF Noted, Agrees
<1> QED  BY <1>1, <1>2 DEF Hung

LEMMA NearTidy ==
  ASSUME NEW h \in Dirs, NEW t, NEW u, Near(t, u, h), NEW T, TidyBut(t, h, T)
  PROVE  TidyBut(u, h, T)
<1> SUFFICES ASSUME NEW p \in Paths, Inner(h, p), \A x \in T : ~ Under(p, x)
             PROVE  Agrees(u, p)
  BY DEF TidyBut
<1>1. Under(p, h) /\ Agrees(t, p)
  BY DEF TidyBut, Inner
<1> QED  BY <1>1, NearKeys

LEMMA NearHung ==
  ASSUME NEW h \in Dirs, NEW t, NEW u, Near(t, u, h), NEW q \in Paths, Hung(t, h, q)
  PROVE  Hung(u, h, q)
BY NearKeys DEF Hung, Inner

LEMMA NearAfter ==
  ASSUME NEW h \in Dirs, NEW t, NEW u, Near(t, u, h), NEW pipe
  PROVE  Near(After(t, pipe), After(u, pipe), h)
<1> SUFFICES ASSUME NEW q \in Paths, Under(q, h)
             PROVE  After(u, pipe)[q] = After(t, pipe)[q]
  BY DEF Near
<1> QED  BY NearKeys DEF After

LEMMA NearSettles ==
  ASSUME NEW U, NEW h \in Dirs, NEW t, NEW u, Near(t, u, h), NEW pipe, Settles(U, t, h, pipe)
  PROVE  Settles(U, u, h, pipe)
<1>1. Near(After(t, pipe), After(u, pipe), h)
  BY NearAfter
<1> QED  BY <1>1, NearTidy DEF Settles, Tidy

LEMMA NearGathers ==
  ASSUME NEW U, NEW h \in Dirs, NEW t, NEW u, Near(t, u, h), NEW f \in GoodFields,
         Gathers(U, t, h, f)
  PROVE  Gathers(U, u, h, f)
<1>1. ASSUME NEW p \in f.touched
      PROVE  Hung(u, h, Parent(p))
  <2>1. Parent(p) \in Paths
    BY ParentDir DEF GoodFields, Dirs
  <2> QED  BY <1>1, <2>1, NearHung DEF Gathers
<1> QED  BY <1>1 DEF Gathers

LEMMA NearGives ==
  ASSUME NEW U, NEW h \in Dirs, NEW t, NEW u, Near(t, u, h), NEW f \in GoodFields, Gives(U, t, h, f)
  PROVE  Gives(U, u, h, f)
<1>1. ASSUME NEW p \in f.touched
      PROVE  /\ Hung(u, h, Parent(p)) /\ Final(u, f.pipe, p) = Final(t, f.pipe, p)
             /\ Final(u, f.pipe, Parent(p)) = Final(t, f.pipe, Parent(p))
             /\ DirIndex(u, p) = DirIndex(t, p) /\ DirIndex(u, Parent(p)) = DirIndex(t, Parent(p))
  <2>1. p \in Paths /\ Inner(h, p) /\ Hung(t, h, Parent(p))
    BY <1>1 DEF Gives, GoodFields
  <2>2. Under(p, h) /\ Parent(p) \in Paths /\ Under(Parent(p), h)
    BY <2>1, InnerPath DEF Inner, Dirs
  <2> QED  BY <2>1, <2>2, NearKeys, NearHung
<1>2. ASSUME NEW p \in f.touched
      PROVE  /\ Inner(h, p) /\ p \in U /\ Parent(p) \notin f.touched
             /\ Final(t, f.pipe, p).kind # "absent"
             /\ IsDir(p) => DirIndex(t, p) = {} /\ Final(t, f.pipe, p).kids = {}
             /\ Parent(p) \notin f.todo =>
                   Final(t, f.pipe, Parent(p)).kids =
                       DirIndex(t, Parent(p)) \cup NamesIn(f.touched, Parent(p))
  BY DEF Gives
<1>3. /\ PipeFit(U, h, f.pipe)
      /\ WritesTo(f.pipe) = f.touched \cup ({Parent(p) : p \in f.touched} \ f.todo)
      /\ f.todo \subseteq {Parent(p) : p \in f.touched}
  BY DEF Gives
<1> QED  BY <1>1, <1>2, <1>3 DEF Gives

LEMMA NearSet ==
  ASSUME NEW U, NEW h \in Dirs, NEW t, NEW u, Near(t, u, h), NEW f \in GoodFields, SetOk(U, t, h, f)
  PROVE  SetOk(U, u, h, f)
<1>1. Tidy(t, h) => Tidy(u, h)
  BY NearTidy DEF Tidy
<1>2. Gathers(U, t, h, f) => Gathers(U, u, h, f)
  BY NearGathers
<1>3. Gives(U, t, h, f) => Gives(U, u, h, f)
  BY NearGives
<1>4. Settles(U, t, h, f.pipe) => Settles(U, u, h, f.pipe)
  BY NearSettles
<1>5. ASSUME Toward(f), Hung(t, h, Ancestor(f.dir, f.at - 1))
      PROVE  Hung(u, h, Ancestor(f.dir, f.at - 1))
  <2>1. Ancestor(f.dir, f.at - 1) \in Paths
    BY <1>5, AncestorPath DEF GoodFields, Dirs, Toward
  <2> QED  BY <1>5, <2>1, NearHung
<1> QED  BY <1>1, <1>2, <1>3, <1>4, <1>5 DEF SetOk

LEMMA NearMake ==
  ASSUME NEW U, U \subseteq Paths, NEW h \in Dirs, NEW t, NEW u, Near(t, u, h),
         NEW g, NEW d, MakeOk(U, t, h, g, d)
  PROVE  MakeOk(U, u, h, g, d)
<1>1. Tidy(t, h) => Tidy(u, h)
  BY NearTidy DEF Tidy
<1>2. Settles(U, t, h, g.pipe) => Settles(U, u, h, g.pipe)
  BY NearSettles
<1>3. d \in Paths /\ Inner(h, d) /\ Under(d, h) /\ Parent(d) \in Paths
  BY ParentDir DEF MakeOk, Inner, Dirs
<1>4. (Noted(u, d) <=> Noted(t, d)) /\ (Hung(t, h, Parent(d)) => Hung(u, h, Parent(d)))
  BY <1>3, NearKeys, NearHung
<1>5. Noted(After(u, g.pipe), d) <=> Noted(After(t, g.pipe), d)
  BY <1>3, NearAfter, NearKeys
<1>6. ASSUME Settles(U, t, h, g.pipe), Grows(t, g.pipe)
      PROVE  Grows(u, g.pipe)
  <2>1. \A i \in DOMAIN g.pipe : DirIndex(u, g.pipe[i].key) = DirIndex(t, g.pipe[i].key)
    <3> TAKE i \in DOMAIN g.pipe
    <3>1. Under(g.pipe[i].key, h)
      BY <1>6 DEF Settles, PipeFit
    <3> QED  BY <3>1 DEF Near, DirIndex, ValueAt
  <2> QED  BY <1>6, <2>1 DEF Grows
<1> QED  BY <1>1, <1>2, <1>4, <1>5, <1>6 DEF MakeOk

LEMMA NearTakes ==
  ASSUME NEW U, U \subseteq Paths, NEW h \in Dirs, NEW t, NEW u, Near(t, u, h),
         NEW f \in GoodFields, Takes(U, t, h, f)
  PROVE  Takes(U, u, h, f)
<1>1. ASSUME NEW p \in f.touched
      PROVE  /\ Final(u, f.pipe, p) = Final(t, f.pipe, p)
             /\ Final(u, f.pipe, Parent(p)) = Final(t, f.pipe, Parent(p))
             /\ ValueAt(u, Parent(p)) = ValueAt(t, Parent(p))
             /\ DirIndex(u, Parent(p)) = DirIndex(t, Parent(p))
  <2>1. p \in Paths /\ Inner(h, p)
    BY <1>1 DEF Takes, GoodFields, MayDel
  <2>2. Under(p, h) /\ Parent(p) \in Paths /\ Under(Parent(p), h)
    BY <2>1, InnerPath DEF Inner, Dirs
  <2> QED  BY <2>1, <2>2, NearKeys
<1>2. ASSUME NEW q \in U, Under(q, h)
      PROVE  Final(u, f.pipe, q) = Final(t, f.pipe, q) /\ ValueAt(u, q) = ValueAt(t, q)
  BY <1>2, NearKeys
<1>3. /\ PipeFit(U, h, f.pipe)
      /\ \A p \in f.touched :
            /\ MayDel(U, h, p)
            /\ \A i \in DOMAIN f.keys : Parent(f.keys[i]) # Parent(p)
            /\ Final(u, f.pipe, p).kind = "absent"
            /\ Final(u, f.pipe, Parent(p)).kids = OtherNames(u, p)
            /\ Final(u, f.pipe, Parent(p)).kind = ValueAt(u, Parent(p)).kind
  BY <1>1 DEF Takes, OtherNames
<1>4. ASSUME NEW q \in U, Under(q, h), q \notin f.touched, \A p \in f.touched : Parent(p) # q
      PROVE  Final(u, f.pipe, q) = ValueAt(u, q)
  <2>1. Final(t, f.pipe, q) = ValueAt(t, q)
    BY <1>4 DEF Takes
  <2> QED  BY <1>2, <1>4, <2>1
<1> QED  BY <1>3, <1>4 DEF Takes

LEMMA NearTree ==
  ASSUME NEW U, U \subseteq Paths, NEW h \in Dirs, NEW t, NEW u, Near(t, u, h),
         NEW f \in GoodFields, TreeOk(U, t, h, f)
  PROVE  TreeOk(U, u, h, f)
<1>1. Tidy(t, h) => Tidy(u, h)
  BY NearTidy DEF Tidy
<1>2. TidyBut(t, h, {f.path}) => TidyBut(u, h, {f.path})
  BY NearTidy
<1>3. Settles(U, t, h, f.pipe) => Settles(U, u, h, f.pipe)
  BY NearSettles
<1>4. Below(u, f.path) = Below(t, f.path)
  <2>1. Inner(h, f.path) /\ f.path \in Paths
    BY DEF TreeOk
  <2>2. \A q \in Paths : Under(q, f.path) => (Present(u, q) <=> Present(t, q))
    <3> TAKE q \in Paths
    <3>1. Under(q, f.path) => Under(q, h)
      BY <2>1, InnerUnder DEF Inner
    <3> QED  BY <3>1, NearKeys
  <2> QED  BY <2>2 DEF Below, Keys
<1> QED  BY <1>1, <1>2, <1>3, <1>4 DEF TreeOk

LEMMA NearMk ==
  ASSUME NEW U, NEW h \in Dirs, NEW t, NEW u, Near(t, u, h), NEW f \in GoodFields, MkOk(U, t, h, f)
  PROVE  MkOk(U, u, h, f)
<1> DEFINE a == Ancestor(f.path, f.at - 1)
<1>1. Tidy(t, h) => Tidy(u, h)
  BY NearTidy DEF Tidy
<1>2. Settles(U, t, h, f.pipe) => Settles(U, u, h, f.pipe)
  BY NearSettles
<1>3. a \in Paths
  BY AncestorPath DEF GoodFields, MkOk
<1>4. Hung(t, h, a) => Hung(u, h, a)
  BY <1>3, NearHung
<1>5. Hung(After(t, f.pipe), h, a) => Hung(After(u, f.pipe), h, a)
  BY <1>3, NearAfter, NearHung
<1> QED  BY <1>1, <1>2, <1>4, <1>5 DEF MkOk

\* What other clients write elsewhere leaves a client as it is.
LEMMA NearOrderly ==
  ASSUME NEW U, U \subseteq Paths, NEW h \in Dirs, NEW t, NEW u, Near(t, u, h),
         NEW s \in GoodStack, Orderly(U, t, h, s)
  PROVE  Orderly(U, u, h, s)
<1>1. CASE (s = << >> \/ s[1].pc = "returned") /\ Tidy(t, h)
  BY <1>1, NearTidy DEF Orderly, Tidy
<1>2. CASE s # << >> /\ s[1].pc # "returned" /\ Len(s) = 1 /\ CallOk(U, t, h, s[1])
  <2>1. s[1] \in GoodFields
    BY <1>2 DEF GoodStack, GoodFrame
  <2>2. CallOk(U, u, h, s[1])
    BY <1>2, <2>1, NearSet, NearTree, NearMk, NearTakes, NearTidy, NearSettles
       DEF CallOk, DelOk, Tidy
  <2> QED  BY <1>2, <2>2 DEF Orderly
<1>3. CASE /\ s # << >> /\ s[1].pc # "returned" /\ Len(s) = 2
           /\ s[1].call = "Set" /\ s[2].call = "Set" /\ Waits(U, t, h, s[2])
           /\ MakeOk(U, t, h, s[1], Ancestor(s[2].dir, s[2].at - 1))
  <2>1. s[2] \in GoodFields
    BY <1>3, Caller
  <2>2. Waits(U, u, h, s[2])
    BY <1>3, <2>1, NearGathers DEF Waits
  <2>3. MakeOk(U, u, h, s[1], Ancestor(s[2].dir, s[2].at - 1))
    BY <1>3, NearMake
  <2> QED  BY <1>3, <2>2, <2>3 DEF Orderly
<1> QED  BY <1>1, <1>2, <1>3 DEF Orderly

-----------------------------------------------------------------------------
(* Set at home *)

LEMMA RootOut ==
  ASSUME NEW h \in Dirs, NEW t
  PROVE  ~ Inner(h, Root) /\ Hung(t, h, Root)
<1>1. h \in Seq(Child) /\ Root \in Seq(Child) /\ Len(Root) = 0 /\ Len(h) \in Nat
  BY PathSeq DEF Dirs, Root
<1>2. ASSUME Under(Root, h)
      PROVE  h = Root
  <2> DEFINE r == Root
  <2>1. r \in Seq(Child) /\ Len(r) = 0 /\ Under(r, h)
    BY <1>1, <1>2
  <2> HIDE DEF r
  <2>2. Len(h) <= Len(r)
    BY <1>1, <2>1, UnderMeans
  <2>3. Len(h) = 0
    BY <1>1, <2>1, <2>2
  <2> QED  BY <1>1, <2>3 DEF Root
<1> QED  BY <1>2 DEF Inner, Hung

\* Where MkIndexRecursive goes for the next file.
LEMMA HomeWay ==
  ASSUME NEW U, OneNameEach(U), NEW h \in Dirs, NEW t, NEW f \in GoodFields, f.pairs # << >>,
         Gathers(U, t, h, f), f.path = Head(f.pairs).key
  PROVE  /\ f.path \in U \ {Root} /\ f.path \in Paths /\ Inner(h, f.path) /\ ~ IsDir(f.path)
         /\ Parent(f.path) \in U /\ Parent(f.path) \in Dirs /\ Under(Parent(f.path), h)
         /\ MayPut(U, h, f.path)
         /\ \A n \in 1 .. Len(Parent(f.path)) :
               LET d == Ancestor(Parent(f.path), n)
               IN  /\ d \in U \ {Root} /\ d \in Dirs /\ Parent(d) = Ancestor(Parent(f.path), n - 1)
                   /\ Parent(d) \in Dirs
<1>1. f.pairs \in Seq(Given)
  BY DEF GoodFields
<1>2. 1 \in DOMAIN f.pairs /\ Head(f.pairs) = f.pairs[1]
  BY <1>1
<1>3. MayPut(U, h, f.path)
  BY <1>2 DEF Gathers
<1>4. Inner(h, f.path) /\ f.path \in U /\ ~ IsDir(f.path) /\ f.path \in Paths
  BY <1>3 DEF MayPut, OneNameEach
<1>5. f.path # Root /\ Parent(f.path) \in Dirs /\ Under(Parent(f.path), h) /\ Parent(f.path) \in U
  BY <1>4, InnerPath, InUsed
<1>6. ASSUME NEW n \in 1 .. Len(Parent(f.path))
      PROVE  LET d == Ancestor(Parent(f.path), n)
             IN  /\ d \in U \ {Root} /\ d \in Dirs /\ Parent(d) = Ancestor(Parent(f.path), n - 1)
                 /\ Parent(d) \in Dirs
  <2> DEFINE x == Parent(f.path)
             d == Ancestor(x, n)
  <2>1. x \in Paths /\ n \in 0 .. Len(x)
    BY <1>5 DEF Dirs
  <2>2. d \in Paths \ {Root} /\ Parent(d) = Ancestor(x, n - 1) /\ Parent(d) \in Dirs
    BY <2>1, AncestorParent, ParentDir
  <2>3. d \in U
    BY <1>5, <2>1 DEF OneNameEach
  <2>4. d \in Dirs
    BY <1>5, <2>1, AncestorDir
  <2> QED  BY <2>2, <2>3, <2>4
<1> QED  BY <1>3, <1>4, <1>5, <1>6

\* What the index of its parent says of a directory on the way.
LEMMA HomeNext ==
  ASSUME NEW U, OneNameEach(U), NEW t, FitDb(U, t), LinkTargets = {}, NEW d \in U \ {Root}
  PROVE  /\ ChildName(d).name \in {k.name : k \in ListOwn(t, Parent(d))} => Noted(t, d)
         /\ Noted(t, d) => ChildName(d).name \in {k.name : k \in ListOwn(t, Parent(d))}
<1>1. Parent(d) \in Dirs /\ Parent(d) \in Paths /\ d \in Paths
  BY InUsed DEF Dirs
<1>2. ~ Follows(t, Parent(d))
  BY NoLinks DEF FitDb
<1>3. ChildName(d).name \in {k.name : k \in ListOwn(t, Parent(d))}
         <=> Lists(ValueAt(t, Parent(d)), ChildName(d))
  BY <1>1, <1>2, OwnList
<1>4. ASSUME Lists(ValueAt(t, Parent(d)), ChildName(d))
      PROVE  Noted(t, d)
  <2>1. PICK k \in DirIndex(t, Parent(d)) : k.name = ChildName(d).name
    BY <1>4 DEF Lists, DirIndex
  <2> QED  BY <2>1, NamedNoted
<1>5. Noted(t, d) => Lists(ValueAt(t, Parent(d)), ChildName(d))
  BY DEF Noted, Lists, DirIndex
<1> QED  BY <1>3, <1>4, <1>5

LEMMA HomePrepared ==
  ASSUME NEW U, NEW h \in Dirs, NEW t, NEW f \in GoodFields, f.path \in Paths \ {Root},
         NEW g, Prepared(t, f, g), SetOk(U, t, h, f)
  PROVE  SetOk(U, t, h, g)
<1>1. /\ f.pc = "resolve" /\ Same(f, g) /\ g.path = f.path /\ g.pc = "ensure"
      /\ g.dir = Parent(f.path) /\ g.at = 1
  BY DEF Prepared
<1>2. Tidy(t, h) /\ Gathers(U, t, h, f) /\ f.path = Head(f.pairs).key
  BY <1>1 DEF SetOk
<1>3. Gathers(U, t, h, g) /\ g.path = Head(g.pairs).key
  BY <1>1, <1>2 DEF Gathers, Same
<1>4. g.at - 1 = 0 /\ 0 \in 0 .. Len(g.dir) /\ Ancestor(g.dir, 0) = Root
  BY <1>1, ParentDir, PathSeq, AncestorSeq DEF Dirs
<1>5. Toward(g) /\ Hung(t, h, Ancestor(g.dir, g.at - 1))
  BY <1>1, <1>3, <1>4, RootOut DEF Toward
<1> QED  BY <1>1, <1>2, <1>3, <1>5 DEF SetOk

LEMMA HomeFound ==
  ASSUME NEW U, OneNameEach(U), NEW h \in Dirs, NEW t, FitDb(U, t), LinkTargets = {},
         NEW f \in GoodFields, f.pairs # << >>, NEW g, NextListed(t, f), Advanced(f, g),
         SetOk(U, t, h, f)
  PROVE  SetOk(U, t, h, g)
<1> DEFINE d == Ancestor(f.dir, f.at)
<1>1. /\ f.pc = "ensure" /\ f.at <= Len(f.dir) /\ Same(f, g) /\ g.path = f.path /\ g.pc = "ensure"
      /\ g.dir = f.dir /\ g.at = f.at + 1
      /\ ChildName(d).name \in {k.name : k \in ListOwn(t, Parent(d))}
  BY DEF NextListed, Advanced
<1>2. Tidy(t, h) /\ Gathers(U, t, h, f) /\ Toward(f)
  BY <1>1 DEF SetOk
<1>3. /\ f.path = Head(f.pairs).key /\ f.dir = Parent(f.path) /\ f.at \in Nat \ {0}
      /\ f.dir \in Paths
  BY <1>2 DEF Toward, GoodFields, Dirs
<1>4. Len(f.dir) \in Nat /\ f.at \in 1 .. Len(f.dir) /\ g.at - 1 = f.at /\ f.at \in 0 .. Len(f.dir)
  BY <1>1, <1>3, PathSeq
<1>5. d \in U \ {Root}
  BY <1>2, <1>3, <1>4, HomeWay
<1>6. Noted(t, d)
  BY <1>1, <1>5, HomeNext
<1>7. Hung(t, h, Ancestor(g.dir, g.at - 1))
  BY <1>1, <1>4, <1>6 DEF Hung
<1>8. Gathers(U, t, h, g) /\ Toward(g)
  BY <1>1, <1>2, <1>3, <1>4 DEF Gathers, Toward, Same
<1> QED  BY <1>1, <1>2, <1>7, <1>8 DEF SetOk

\* The next file is queued.
LEMMA HomeQueued ==
  ASSUME NEW U, OneNameEach(U), NEW h \in Dirs, NEW t,
         NEW f \in GoodFields, f.pairs # << >>, NEW g, QueuedPair(f, g), SetOk(U, t, h, f)
  PROVE  SetOk(U, t, h, g)
<1>1. /\ f.pc = "ensure" /\ f.at > Len(f.dir)
      /\ g.pairs = Tail(f.pairs) /\ g.touched = f.touched \cup {f.path}
      /\ g.pipe = Append(f.pipe, [key |-> f.path, val |-> Head(f.pairs).val])
      /\ \/ Tail(f.pairs) = << >> /\ g.pc = "parents" /\ g.path = f.path
            /\ g.todo = {Parent(p) : p \in g.touched}
         \/ Tail(f.pairs) # << >> /\ g.pc = "resolve" /\ g.path = Head(Tail(f.pairs)).key
  BY DEF QueuedPair
<1>2. /\ Tidy(t, h) /\ Gathers(U, t, h, f) /\ Toward(f) /\ Hung(t, h, Ancestor(f.dir, f.at - 1))
      /\ f.path = Head(f.pairs).key
  BY <1>1 DEF SetOk, Toward
<1>3. /\ f.path \in U \ {Root} /\ f.path \in Paths /\ MayPut(U, h, f.path)
      /\ Parent(f.path) \in Dirs /\ Parent(f.path) \in Paths
  BY <1>2, HomeWay DEF Dirs
<1>4. Hung(t, h, Parent(f.path))
  <2>1. f.at \in Nat /\ f.dir = Parent(f.path) /\ Len(f.dir) \in Nat /\ f.at - 1 \in 0 .. Len(f.dir)
    BY <1>2, <1>3, PathSeq DEF GoodFields, Toward
  <2>2. f.at - 1 = Len(f.dir)
    BY <1>1, <2>1
  <2>3. Ancestor(f.dir, Len(f.dir)) = f.dir
    <3>1. CASE f.dir # Root
      BY <1>3, <2>1, <3>1, ParentAncestor
    <3>2. CASE f.dir = Root
      BY <3>2 DEF Ancestor, Root
    <3> QED  BY <3>1, <3>2
  <2> QED  BY <1>2, <2>1, <2>2, <2>3
<1> DEFINE w == [key |-> f.path, val |-> Head(f.pairs).val]
<1>5. /\ f.pipe \in Seq(GoodWrite) /\ f.pairs \in Seq(Given) /\ Head(f.pairs) \in Given
      /\ f.touched \in SUBSET Paths
  BY DEF GoodFields
<1>6. w \in GoodWrite /\ w.key = f.path /\ w.val.kind # "absent" /\ g.pipe \in Seq(GoodWrite)
  BY <1>1, <1>3, <1>5 DEF Given, GoodWrite
<1> HIDE DEF w
<1>7. WritesTo(g.pipe) = g.touched /\ Solid(g.pipe)
  BY <1>1, <1>2, <1>5, <1>6, WritesAppend DEF Gathers, w
<1>8. \A p \in g.touched : MayPut(U, h, p) /\ Hung(t, h, Parent(p)) /\ p \in Paths
  BY <1>1, <1>2, <1>3, <1>4, <1>5 DEF Gathers
<1>9. CASE Tail(f.pairs) # << >>
  <2>1. \A i \in DOMAIN g.pairs : MayPut(U, h, g.pairs[i].key)
    <3>1. \A i \in DOMAIN Tail(f.pairs) :
             i + 1 \in DOMAIN f.pairs /\ Tail(f.pairs)[i] = f.pairs[i + 1]
      BY <1>5
    <3> QED  BY <1>1, <1>2, <3>1 DEF Gathers
  <2>2. g.pc = "resolve" /\ g.path = Head(g.pairs).key
    BY <1>1, <1>9
  <2> QED  BY <1>2, <1>7, <1>8, <2>1, <2>2 DEF SetOk, Gathers
<1>10. CASE Tail(f.pairs) = << >>
  <2>1. g.pc = "parents" /\ g.todo = {Parent(p) : p \in g.touched}
    BY <1>1, <1>10
  <2>2. PipeFit(U, h, g.pipe)
    <3> SUFFICES ASSUME NEW i \in DOMAIN g.pipe
                 PROVE  Under(g.pipe[i].key, h) /\ Fit(U, g.pipe[i].key, g.pipe[i].val)
      BY DEF PipeFit
    <3>1. g.pipe[i].key \in g.touched
      BY <1>7 DEF WritesTo
    <3> QED  BY <1>8, <3>1 DEF MayPut, Inner, Fit
  <2>3. ASSUME NEW p \in g.touched
        PROVE  /\ Inner(h, p) /\ p \in U /\ Hung(t, h, Parent(p)) /\ Parent(p) \notin g.touched
               /\ Final(t, g.pipe, p).kind # "absent" /\ ~ IsDir(p) /\ Parent(p) \in g.todo
    <3>1. MayPut(U, h, p) /\ Hung(t, h, Parent(p)) /\ p \in Paths /\ Parent(p) \in g.todo
      BY <1>8, <2>1
    <3>2. IsDir(Parent(p))
      BY <3>1, ParentDir DEF Dirs
    <3>3. Parent(p) \notin g.touched
      BY <1>8, <3>2 DEF MayPut
    <3>4. Final(t, g.pipe, p).kind # "absent"
      BY <1>6, <1>7, FinalWritten
    <3> QED  BY <3>1, <3>3, <3>4 DEF MayPut
  <2>4. Gives(U, t, h, g)
    <3>1. WritesTo(g.pipe) = g.touched \cup ({Parent(p) : p \in g.touched} \ g.todo)
      BY <1>7, <2>1
    <3> QED  BY <2>1, <2>2, <2>3, <3>1 DEF Gives
  <2> QED  BY <1>2, <2>1, <2>4 DEF SetOk
<1> QED  BY <1>9, <1>10

\* What else an index has stays when its names change.
LEMMA KidsOnly ==
  ASSUME NEW v \in GoodValue, NEW kids
  PROVE  /\ [v EXCEPT !.kids = kids].kind = v.kind
         /\ [v EXCEPT !.kids = kids].ext = v.ext
BY DEF GoodValue, Value

\* What the index of a directory of U becomes may be stored there.
LEMMA IndexFit ==
  ASSUME NEW U, NEW t, FitDb(U, t), NEW d \in Dirs, d \in U, NEW names \in SUBSET Child,
         \A k \in names : Append(d, k) \in U
  PROVE  Fit(U, d, WithNames(t, d, names))
<1>1. d \in Paths /\ GoodDb(t) /\ Fit(U, d, t[d]) /\ ValueAt(t, d) = t[d]
  BY DEF FitDb, Dirs, ValueAt
<1>2. WithNames(t, d, names).kids = names \cup t[d].kids /\ WithNames(t, d, names).kind # "data"
  <2>1. WithNames(t, d, names).kids = names \cup DirIndex(t, d)
    BY <1>1, WithNamesType
  <2>2. t[d] \in GoodValue /\ t[d].kind # "data" /\ t[d].kids \in SUBSET Child
    BY <1>1, ValueFields DEF GoodDb, Fit, Dirs
  <2>3. CASE t[d].kind = "absent"
    <3>1. WithNames(t, d, names) = IndexOf(names)
      BY <1>1, <2>3 DEF WithNames
    <3> QED  BY <1>1, <2>1, <3>1, PlainValues DEF DirIndex
  <2>4. CASE t[d].kind # "absent"
    <3>1. WithNames(t, d, names) = [t[d] EXCEPT !.kids = t[d].kids \cup names]
      BY <1>1, <2>4 DEF WithNames
    <3> DEFINE kids == t[d].kids \cup names
    <3>2. kids \in SUBSET Child
      BY <2>2
    <3> HIDE DEF kids
    <3>3. [t[d] EXCEPT !.kids = kids].kind = t[d].kind
      BY <2>2, <2>4, <3>2, ValueFields
    <3> QED  BY <1>1, <2>1, <2>2, <3>1, <3>3 DEF DirIndex, kids
  <2> QED  BY <2>3, <2>4
<1>3. WithNames(t, d, names).kind = "extindex" => WithNames(t, d, names).ext \in Dirs
  <2>1. t[d].kind = "extindex" => t[d].ext \in Dirs
    BY <1>1 DEF Fit, Dirs
  <2>2. CASE t[d].kind = "absent"
    BY <1>1, <2>2 DEF WithNames, IndexOf
  <2>3. CASE t[d].kind # "absent"
    <3> DEFINE kids == t[d].kids \cup names
    <3>1. WithNames(t, d, names) = [t[d] EXCEPT !.kids = kids] /\ t[d] \in GoodValue
      BY <1>1, <2>3 DEF WithNames, GoodDb
    <3> HIDE DEF kids
    <3> QED  BY <2>1, <3>1, KidsOnly
  <2> QED  BY <2>2, <2>3
<1> QED  BY <1>1, <1>2, <1>3 DEF Fit, Dirs

LEMMA NamedValue ==
  ASSUME NEW t, GoodDb(t), NEW d \in Paths, NEW S \in SUBSET (Paths \ {Root})
  PROVE  /\ Named(t, d, S).key = d /\ Named(t, d, S) \in GoodWrite
         /\ Named(t, d, S).val = WithNames(t, d, NamesIn(S, d))
         /\ NamesIn(S, d) \in SUBSET Child
         /\ Named(t, d, S).val.kids = DirIndex(t, d) \cup NamesIn(S, d)
<1> DEFINE names == NamesIn(S, d)
<1>1. names \in SUBSET Child
  BY ChildNameType DEF NamesIn
<1>2. Named(t, d, S) = [key |-> d, val |-> WithNames(t, d, names)]
  BY DEF Named, NamesIn
<1> HIDE DEF names
<1>3. WithNames(t, d, names).kids = names \cup DirIndex(t, d)
  BY <1>1, WithNamesType
<1>4. Named(t, d, S) \in GoodWrite
  BY NamedType
<1> QED  BY <1>1, <1>2, <1>3, <1>4 DEF names

\* A parent's index is read and queued.
LEMMA GivesMore ==
  ASSUME NEW U, OneNameEach(U), NEW h \in Dirs, NEW t, FitDb(U, t), NEW f \in GoodFields,
         NEW g, NEW d, ReadParent(t, f, g, d), Gives(U, t, h, f)
  PROVE  Gives(U, t, h, g) /\ g.pipe \in Seq(GoodWrite)
<1> DEFINE w == Named(t, d, f.touched)
<1>1. /\ d \in f.todo /\ g.touched = f.touched /\ g.todo = f.todo \ {d}
      /\ g.pipe = Append(f.pipe, w)
  BY DEF ReadParent
<1>2. /\ f.touched \in SUBSET (Paths \ {Root}) /\ f.pipe \in Seq(GoodWrite) /\ GoodDb(t)
      /\ d \in Dirs /\ d \in Paths
  BY <1>1 DEF GoodFields, FitDb, Dirs
<1>3. /\ w.key = d /\ w \in GoodWrite
      /\ w.val = WithNames(t, d, NamesIn(f.touched, d))
      /\ NamesIn(f.touched, d) \in SUBSET Child
      /\ w.val.kids = DirIndex(t, d) \cup NamesIn(f.touched, d)
  <2> DEFINE S == f.touched
  <2>1. S \in SUBSET (Paths \ {Root}) /\ w = Named(t, d, S)
    BY <1>2
  <2> HIDE DEF S, w
  <2>2. /\ w.key = d /\ w \in GoodWrite
        /\ w.val = WithNames(t, d, NamesIn(S, d))
        /\ NamesIn(S, d) \in SUBSET Child
        /\ w.val.kids = DirIndex(t, d) \cup NamesIn(S, d)
    BY <1>2, <2>1, NamedValue
  <2> QED  BY <2>2 DEF S
<1> HIDE DEF w
<1>4. PICK x \in f.touched : d = Parent(x)
  BY <1>1 DEF Gives
<1>5. /\ d \notin f.touched /\ x \in U /\ x \in Paths \ {Root} /\ Inner(h, x)
  BY <1>2, <1>4 DEF Gives
<1>6. d \in U /\ Under(d, h)
  BY <1>4, <1>5, InUsed, InnerPath
<1>7. Fit(U, d, w.val)
  <2>1. ASSUME NEW p \in f.touched, Parent(p) = d
        PROVE  Append(d, ChildName(p)) \in U
    <3>1. p \in U /\ p \in Seq(Child) \ {Root}
      BY <1>2, <2>1, PathSeq DEF Gives
    <3> QED  BY <2>1, <3>1, AppendName
  <2>2. \A k \in NamesIn(f.touched, d) : Append(d, k) \in U
    BY <2>1 DEF NamesIn
  <2> QED  BY <1>2, <1>3, <1>6, <2>2, IndexFit
<1>8. g.pipe \in Seq(GoodWrite)
  BY <1>1, <1>2, <1>3
<1>9. PipeFit(U, h, g.pipe)
  <2> SUFFICES ASSUME NEW i \in DOMAIN g.pipe
               PROVE  Under(g.pipe[i].key, h) /\ Fit(U, g.pipe[i].key, g.pipe[i].val)
    BY DEF PipeFit
  <2>1. g.pipe[i] = w \/ (i \in DOMAIN f.pipe /\ g.pipe[i] = f.pipe[i])
    BY <1>1, <1>2, <1>3
  <2>2. CASE g.pipe[i] = w
    BY <1>3, <1>6, <1>7, <2>2
  <2>3. CASE i \in DOMAIN f.pipe /\ g.pipe[i] = f.pipe[i]
    BY <2>3 DEF Gives, PipeFit
  <2> QED  BY <2>1, <2>2, <2>3
<1>10. WritesTo(g.pipe) = g.touched \cup ({Parent(p) : p \in g.touched} \ g.todo)
  <2>1. WritesTo(g.pipe) = WritesTo(f.pipe) \cup {d}
    BY <1>1, <1>2, <1>3, WritesAppend
  <2>2. WritesTo(f.pipe) = f.touched \cup ({Parent(p) : p \in f.touched} \ f.todo)
    BY DEF Gives
  <2> QED  BY <1>1, <1>4, <2>1, <2>2
<1>11. \A q : Final(t, g.pipe, q) = IF q = d THEN w.val ELSE Final(t, f.pipe, q)
  BY <1>1, <1>2, <1>3, FinalAppend
<1>12. ASSUME NEW p \in g.touched
       PROVE  /\ Inner(h, p) /\ p \in U /\ Hung(t, h, Parent(p)) /\ Parent(p) \notin g.touched
              /\ Final(t, g.pipe, p).kind # "absent"
              /\ IsDir(p) => DirIndex(t, p) = {} /\ Final(t, g.pipe, p).kids = {}
              /\ Parent(p) \notin g.todo =>
                    Final(t, g.pipe, Parent(p)).kids =
                        DirIndex(t, Parent(p)) \cup NamesIn(g.touched, Parent(p))
  <2>1. p \in f.touched /\ p # d
    BY <1>1, <1>5
  <2>2. /\ Inner(h, p) /\ p \in U /\ Hung(t, h, Parent(p)) /\ Parent(p) \notin f.touched
        /\ Final(t, f.pipe, p).kind # "absent"
        /\ IsDir(p) => DirIndex(t, p) = {} /\ Final(t, f.pipe, p).kids = {}
    BY <2>1 DEF Gives
  <2>3. Final(t, g.pipe, p) = Final(t, f.pipe, p)
    BY <1>11, <2>1
  <2>4. ASSUME Parent(p) \notin g.todo
        PROVE  Final(t, g.pipe, Parent(p)).kids =
                   DirIndex(t, Parent(p)) \cup NamesIn(g.touched, Parent(p))
    <3>1. CASE Parent(p) = d
      <4>1. Final(t, g.pipe, Parent(p)) = w.val
        BY <1>11, <3>1
      <4> QED  BY <1>1, <1>3, <3>1, <4>1
    <3>2. CASE Parent(p) # d
      <4>1. Parent(p) \notin f.todo /\ Final(t, g.pipe, Parent(p)) = Final(t, f.pipe, Parent(p))
        BY <1>1, <1>11, <2>4, <3>2
      <4>2. Final(t, f.pipe, Parent(p)).kids =
                DirIndex(t, Parent(p)) \cup NamesIn(f.touched, Parent(p))
        BY <2>1, <4>1 DEF Gives
      <4> QED  BY <1>1, <4>1, <4>2
    <3> QED  BY <3>1, <3>2
  <2> QED  BY <1>1, <2>2, <2>3, <2>4
<1>13. g.todo \subseteq {Parent(p) : p \in g.touched}
  BY <1>1 DEF Gives
<1> QED  BY <1>8, <1>9, <1>10, <1>12, <1>13 DEF Gives

\* All indexes have been read: the pipeline adds what is written and its names.
LEMMA GivesTidy ==
  ASSUME NEW U, OneNameEach(U), NEW h \in Dirs, NEW t, FitDb(U, t), Tidy(t, h),
         NEW g, g.touched \in SUBSET Paths, g.pipe \in Seq(GoodWrite), Gives(U, t, h, g),
         g.todo = {}
  PROVE  Settles(U, t, h, g.pipe) /\ \A p \in g.touched : Noted(After(t, g.pipe), p)
<1> DEFINE u == After(t, g.pipe)
           T == g.touched
<1>1. /\ PipeFit(U, h, g.pipe) /\ GoodDb(t)
      /\ WritesTo(g.pipe) = g.touched \cup {Parent(p) : p \in g.touched}
  BY DEF Gives, FitDb
<1>2. /\ FitDb(U, u)
      /\ \A q \in Paths : ValueAt(u, q) = Final(t, g.pipe, q) /\ u[q] = Final(t, g.pipe, q)
  BY <1>1, AfterFit, AfterValue DEF After
<1> HIDE DEF u
<1>3. ASSUME NEW x \in T
      PROVE  /\ Inner(h, x) /\ Hung(t, h, Parent(x)) /\ Parent(x) \notin T
             /\ IsDir(x) => DirIndex(t, x) = {} /\ DirIndex(u, x) = {}
             /\ ~ IsDir(x) => Present(u, x)
             /\ DirIndex(u, Parent(x)) = DirIndex(t, Parent(x)) \cup NamesIn(T, Parent(x))
  <2>1. x \in Paths /\ Parent(x) \in Paths
    BY ParentDir DEF Dirs
  <2>2. ValueAt(u, x) = Final(t, g.pipe, x) /\ ValueAt(u, Parent(x)) = Final(t, g.pipe, Parent(x))
    BY <1>2, <2>1
  <2>3. /\ Inner(h, x) /\ Hung(t, h, Parent(x)) /\ Parent(x) \notin T
        /\ Final(t, g.pipe, x).kind # "absent"
        /\ IsDir(x) => DirIndex(t, x) = {} /\ Final(t, g.pipe, x).kids = {}
        /\ Final(t, g.pipe, Parent(x)).kids = DirIndex(t, Parent(x)) \cup NamesIn(T, Parent(x))
    BY DEF Gives
  <2> QED  BY <2>2, <2>3 DEF DirIndex, Present
<1>4. ASSUME NEW q \in Paths, q \notin T, \A x \in T : Parent(x) # q
      PROVE  u[q] = t[q]
  <2>1. q \notin WritesTo(g.pipe)
    BY <1>1, <1>4
  <2> QED  BY <1>2, <2>1, FinalUntouched DEF ValueAt
<1>5. Tidy(u, h) /\ \A x \in T : Noted(u, x)
  <2>1. \A q \in Paths : Under(q, h) /\ q \notin T /\ (\A x \in T : Parent(x) # q) => u[q] = t[q]
    BY <1>4
  <2>2. T \in SUBSET Paths
    OBVIOUS
  <2> HIDE DEF T
  <2> QED  BY <1>2, <1>3, <2>1, <2>2, NamedTidy
<1> QED  BY <1>1, <1>5 DEF Settles, u

LEMMA HomeRead ==
  ASSUME NEW U, OneNameEach(U), NEW h \in Dirs, NEW t, FitDb(U, t), NEW f \in GoodFields,
         NEW g, NEW d, ReadParent(t, f, g, d), SetOk(U, t, h, f)
  PROVE  SetOk(U, t, h, g)
<1>1. /\ f.pc = "parents" /\ d \in f.todo /\ g.touched = f.touched /\ g.todo = f.todo \ {d}
      /\ g.pc = IF f.todo = {d} THEN "exec" ELSE "parents"
  BY DEF ReadParent
<1>2. Tidy(t, h) /\ Gives(U, t, h, f)
  BY <1>1 DEF SetOk
<1>3. Gives(U, t, h, g) /\ g.pipe \in Seq(GoodWrite)
  BY <1>2, GivesMore
<1>4. CASE f.todo # {d}
  BY <1>1, <1>2, <1>3, <1>4 DEF SetOk
<1>5. CASE f.todo = {d}
  <2>1. g.todo = {} /\ g.touched \in SUBSET Paths /\ g.pc = "exec"
    BY <1>1, <1>5 DEF GoodFields
  <2>2. Settles(U, t, h, g.pipe)
    BY <1>2, <1>3, <2>1, GivesTidy
  <2> QED  BY <2>1, <2>2 DEF SetOk
<1> QED  BY <1>4, <1>5

\* A command of any call is executed.
LEMMA SettlesStep ==
  ASSUME NEW U, NEW t, FitDb(U, t), NEW h, NEW pipe \in Seq(GoodWrite), pipe # << >>,
         Settles(U, t, h, pipe), NEW u, u = Sent(t, pipe)
  PROVE  Settles(U, u, h, Tail(pipe)) /\ After(u, Tail(pipe)) = After(t, pipe)
<1>1. PipeFit(U, h, pipe)
  BY DEF Settles
<1>2. After(u, Tail(pipe)) = After(t, pipe) /\ PipeFit(U, h, Tail(pipe))
  BY <1>1, AfterStep
<1> QED  BY <1>2 DEF Settles

LEMMA SettledTidy ==
  ASSUME NEW U, NEW t, FitDb(U, t), NEW h, Settles(U, t, h, << >>)
  PROVE  Tidy(t, h)
BY AfterNone DEF Settles, FitDb

LEMMA HomeExecuted ==
  ASSUME NEW U, NEW t, FitDb(U, t), NEW h, NEW f \in GoodFields, NEW g, Executed(f, g),
         SetOk(U, t, h, f), NEW u, u = Sent(t, f.pipe)
  PROVE  SetOk(U, u, h, g)
<1>1. f.pc = "exec" /\ f.pipe # << >> /\ g.pc = "exec" /\ g.pipe = Tail(f.pipe)
  BY DEF Executed
<1>2. f.pipe \in Seq(GoodWrite) /\ Settles(U, t, h, f.pipe)
  BY <1>1 DEF GoodFields, SetOk
<1>3. Settles(U, u, h, Tail(f.pipe))
  BY <1>1, <1>2, SettlesStep
<1> QED  BY <1>1, <1>3 DEF SetOk

\* A Set begins to make a directory for Set.
LEMMA MakeBegins ==
  ASSUME NEW U, OneNameEach(U), NEW h \in Dirs, NEW t, FitDb(U, t), LinkTargets = {},
         ListedUp(t, h), NEW f \in GoodFields, f.pairs # << >>, NextMissing(t, f),
         NEW g, Advanced(f, g), SetOk(U, t, h, f)
  PROVE  /\ Waits(U, t, h, g) /\ Ancestor(g.dir, g.at - 1) = Ancestor(f.dir, f.at)
         /\ MakeOk(U, t, h, Make(Ancestor(f.dir, f.at)), Ancestor(f.dir, f.at))
<1> DEFINE d == Ancestor(f.dir, f.at)
<1>1. /\ f.pc = "ensure" /\ f.at <= Len(f.dir) /\ Same(f, g) /\ g.path = f.path
      /\ g.dir = f.dir /\ g.at = f.at + 1
      /\ ChildName(d).name \notin {k.name : k \in ListOwn(t, Parent(d))}
  BY DEF NextMissing, Advanced
<1>2. /\ Tidy(t, h) /\ Gathers(U, t, h, f) /\ Toward(f) /\ Hung(t, h, Ancestor(f.dir, f.at - 1))
  BY <1>1 DEF SetOk
<1>3. /\ f.path = Head(f.pairs).key /\ f.dir = Parent(f.path) /\ f.at \in Nat \ {0}
      /\ f.dir \in Paths
  BY <1>2 DEF Toward, GoodFields, Dirs
<1>4. Len(f.dir) \in Nat /\ f.at \in 1 .. Len(f.dir) /\ g.at - 1 = f.at /\ f.at \in 0 .. Len(f.dir)
  BY <1>1, <1>3, PathSeq
<1>5. /\ d \in U \ {Root} /\ Parent(d) = Ancestor(f.dir, f.at - 1) /\ Under(f.dir, h)
      /\ d \in Paths
  BY <1>2, <1>3, <1>4, HomeWay DEF OneNameEach
<1>6. ~ Noted(t, d)
  BY <1>1, <1>5, HomeNext
<1>7. Inner(h, d)
  BY <1>3, <1>4, <1>5, <1>6, MissingInner
<1>8. Waits(U, t, h, g)
  BY <1>1, <1>2, <1>3, <1>4 DEF Waits, Gathers, Toward, Same
<1> HIDE DEF d
<1>9. MakeOk(U, t, h, Make(d), d)
  <2>1. /\ Make(d).pc = "resolve" /\ Make(d).path = d /\ Make(d).touched = {}
        /\ Make(d).pipe = << >>
    BY <1>5, MakeFrame
  <2>2. Hung(t, h, Parent(d))
    BY <1>2, <1>5
  <2> QED  BY <1>2, <1>5, <1>6, <1>7, <2>1, <2>2 DEF MakeOk
<1> QED  BY <1>1, <1>4, <1>8, <1>9 DEF d

\* The parents of a directory that is made are there.
LEMMA MakeFinds ==
  ASSUME NEW U, OneNameEach(U), NEW h \in Dirs, NEW t, FitDb(U, t), LinkTargets = {},
         ListedUp(t, h), NEW g \in GoodFields, NEW d \in Paths, MakeOk(U, t, h, g, d)
  PROVE  ~ NextMissing(t, g)
<1> SUFFICES ASSUME NextMissing(t, g)
             PROVE  FALSE
  OBVIOUS
<1> DEFINE x == Parent(d)
           a == Ancestor(x, g.at)
<1>1. /\ g.pc = "ensure" /\ g.at <= Len(g.dir)
      /\ ChildName(Ancestor(g.dir, g.at)).name
            \notin {k.name : k \in ListOwn(t, Parent(Ancestor(g.dir, g.at)))}
  BY DEF NextMissing
<1>2. /\ g.dir = x /\ Tidy(t, h) /\ Hung(t, h, x) /\ d \in U /\ Inner(h, d)
  BY <1>1 DEF MakeOk
<1>3. /\ d # Root /\ x \in Dirs /\ x \in Paths /\ x \in U /\ Under(x, h) /\ Len(x) \in Nat
      /\ g.at \in Nat \ {0}
  BY <1>2, InnerPath, InUsed, PathSeq DEF GoodFields, Dirs
<1>4. g.at \in 1 .. Len(x) /\ g.at \in 0 .. Len(x)
  BY <1>1, <1>2, <1>3
<1> HIDE DEF x
<1>5. a \in U \ {Root}
  BY <1>3, <1>4, AncestorParent DEF OneNameEach
<1>6. Hung(t, h, a)
  BY <1>2, <1>3, <1>4, HungUp
<1>7. Noted(t, a)
  <2>1. CASE Inner(h, a)
    BY <1>6, <2>1 DEF Hung
  <2>2. CASE ~ Inner(h, a)
    BY <1>3, <1>4, <2>2, MissingInner
  <2> QED  BY <2>1, <2>2
<1>8. ChildName(a).name \in {k.name : k \in ListOwn(t, Parent(a))}
  BY <1>5, <1>7, HomeNext
<1> QED  BY <1>1, <1>2, <1>8

\* The Set of a directory, on its way to its parents ...
LEMMA MakeGoes ==
  ASSUME NEW U, NEW h, NEW t, NEW d, NEW g, MakeOk(U, t, h, g, d), NEW k, Prepared(t, g, k)
  PROVE  MakeOk(U, t, h, k, d)
BY DEF Prepared, Same, MakeOk

LEMMA MakeWalks ==
  ASSUME NEW U, NEW h, NEW t, NEW d, NEW g, MakeOk(U, t, h, g, d), NEW k,
         NextListed(t, g), Advanced(g, k)
  PROVE  MakeOk(U, t, h, k, d)
BY DEF NextListed, Advanced, Same, MakeOk

LEMMA MakeQueued ==
  ASSUME NEW U, NEW h, NEW t, NEW d \in Paths, NEW g, MakeOk(U, t, h, g, d), NEW k,
         QueuedPair(g, k)
  PROVE  MakeOk(U, t, h, k, d)
<1> DEFINE w == [key |-> d, val |-> IndexOf({})]
<1>1. /\ g.pc = "ensure" /\ k.touched = g.touched \cup {g.path}
      /\ k.pipe = Append(g.pipe, [key |-> g.path, val |-> Head(g.pairs).val])
      /\ \/ Tail(g.pairs) = << >> /\ k.pc = "parents" /\ k.path = g.path
            /\ k.todo = {Parent(p) : p \in k.touched}
         \/ Tail(g.pairs) # << >>
  BY DEF QueuedPair
<1>2. /\ g.path = d /\ g.touched = {} /\ g.pipe = << >> /\ g.pairs = Make(d).pairs
      /\ d \in U /\ Inner(h, d) /\ Tidy(t, h) /\ Hung(t, h, Parent(d)) /\ ~ Noted(t, d)
  BY <1>1 DEF MakeOk
<1>3. Make(d).pairs = <<w>>
  BY DEF Make, SetFrame, Blank
<1>4. Tail(g.pairs) = << >> /\ Head(g.pairs) = w
  BY <1>2, <1>3
<1>5. k.pipe = <<w>> /\ k.touched = {d} /\ k.todo = {Parent(d)}
  BY <1>1, <1>2, <1>4
<1>6. k.pc = "parents" /\ k.path = d
  BY <1>1, <1>2, <1>4
<1> QED  BY <1>2, <1>3, <1>5, <1>6 DEF MakeOk

\* ... reads the index of its parent and names the directory there.
LEMMA MakeRead ==
  ASSUME NEW U, OneNameEach(U), NEW h \in Dirs, NEW t, FitDb(U, t), NEW d \in Paths \ {Root},
         NEW g \in GoodFields, MakeOk(U, t, h, g, d), NEW k, NEW x, ReadParent(t, g, k, x)
  PROVE  MakeOk(U, t, h, k, d)
<1> DEFINE w == [key |-> d, val |-> IndexOf({})]
           n == Named(t, Parent(d), {d})
<1>1. /\ g.pc = "parents" /\ x \in g.todo /\ k.path = g.path /\ k.touched = g.touched
      /\ k.todo = g.todo \ {x} /\ k.pipe = Append(g.pipe, Named(t, x, g.touched))
      /\ k.pc = IF g.todo = {x} THEN "exec" ELSE "parents"
  BY DEF ReadParent
<1>2. /\ g.path = d /\ g.pipe = Make(d).pairs /\ g.touched = {d} /\ g.todo = {Parent(d)}
      /\ d \in U /\ Inner(h, d) /\ Tidy(t, h) /\ Hung(t, h, Parent(d)) /\ ~ Noted(t, d)
  BY <1>1 DEF MakeOk
<1>3. Make(d).pairs = <<w>>
  BY DEF Make, SetFrame, Blank
<1>4. x = Parent(d) /\ k.pc = "exec" /\ k.todo = {} /\ k.touched = {d} /\ k.path = d
      /\ k.pipe = Append(<<w>>, n) /\ g.pipe = <<w>>
  <2>1. x = Parent(d) /\ k.touched = {d} /\ k.path = d /\ g.pipe = <<w>>
    BY <1>1, <1>2, <1>3
  <2>2. k.todo = {} /\ k.pc = "exec"
    BY <1>1, <1>2, <2>1
  <2>3. k.pipe = Append(<<w>>, n)
    BY <1>1, <1>2, <2>1
  <2> QED  BY <2>1, <2>2, <2>3
<1>5. /\ Parent(d) \in Paths /\ Parent(d) # d /\ GoodDb(t) /\ Under(d, h)
      /\ ~ Present(t, d) /\ DirIndex(t, d) = {}
  <2>1. Parent(d) \in Paths /\ Parent(d) # d
    BY ParentDir, UnderItself DEF Dirs
  <2>2. ~ Present(t, d)
    BY <1>2 DEF Tidy, TidyBut, Agrees
  <2>3. GoodDb(t) /\ Under(d, h)
    BY <1>2 DEF Inner, FitDb
  <2>4. DirIndex(t, d) = {}
    BY <2>2, KeyValue
  <2> QED  BY <2>1, <2>2, <2>3, <2>4
<1>6. /\ w.key = d /\ w.val = IndexOf({}) /\ w \in GoodWrite
      /\ IndexOf({}).kind = "index" /\ IndexOf({}).kids = {} /\ IndexOf({}) \in GoodValue
  BY PlainValues DEF GoodWrite
<1> HIDE DEF w
<1>7. Gives(U, t, h, g)
  <2>1. PipeFit(U, h, g.pipe)
    BY <1>2, <1>4, <1>5, <1>6 DEF PipeFit, Fit
  <2>2. WritesTo(g.pipe) = {d}
    BY <1>4, <1>6 DEF WritesTo
  <2>3. Final(t, g.pipe, d) = IndexOf({})
    <3>1. g.pipe = Append(<< >>, w) /\ << >> \in Seq(GoodWrite)
      BY <1>4
    <3>2. Final(t, Append(<< >>, w), d) = w.val
      BY <1>6, <3>1, FinalAppend
    <3> QED  BY <1>6, <3>1, <3>2
  <2>4. /\ g.todo \subseteq {Parent(p) : p \in g.touched}
        /\ WritesTo(g.pipe) = g.touched \cup ({Parent(p) : p \in g.touched} \ g.todo)
    BY <1>2, <2>2
  <2> QED  BY <1>2, <1>5, <1>6, <2>1, <2>3, <2>4 DEF Gives
<1>8. Gives(U, t, h, k) /\ k.pipe \in Seq(GoodWrite)
  BY <1>7, GivesMore
<1>9. Settles(U, t, h, k.pipe) /\ Noted(After(t, k.pipe), d)
  <2>1. k.touched \in SUBSET Paths
    BY <1>4
  <2> QED  BY <1>2, <1>4, <1>8, <2>1, GivesTidy
<1>10. Grows(t, k.pipe)
  <2>1. /\ n.key = Parent(d) /\ n.val.kids = DirIndex(t, Parent(d)) \cup NamesIn({d}, Parent(d))
        /\ n \in GoodWrite
    <3>1. {d} \in SUBSET (Paths \ {Root})
      OBVIOUS
    <3> QED  BY <1>5, <3>1, NamedValue
  <2> HIDE DEF n
  <2>2. <<w>> \in Seq(GoodWrite) /\ Len(<<w>>) = 1 /\ <<w>>[1] = w
    BY <1>6
  <2>3. DOMAIN k.pipe = 1 .. 2 /\ k.pipe[1] = w /\ k.pipe[2] = n
    BY <1>4, <2>1, <2>2
  <2>4. \A i \in 1 .. 2 : i = 1 \/ i = 2
    OBVIOUS
  <2>5. /\ DirIndex(t, w.key) \subseteq w.val.kids /\ DirIndex(t, n.key) \subseteq n.val.kids
        /\ w.key # n.key
    BY <1>5, <1>6, <2>1
  <2> QED  BY <2>3, <2>4, <2>5 DEF Grows
<1> QED  BY <1>2, <1>4, <1>9, <1>10 DEF MakeOk

LEMMA MakeExecuted ==
  ASSUME NEW U, U \subseteq Paths, NEW h \in Dirs, NEW t, FitDb(U, t),
         NEW g \in GoodFields, NEW d \in Paths, MakeOk(U, t, h, g, d), NEW k, Executed(g, k),
         NEW f \in GoodFields, Waits(U, t, h, f), NEW u, u = Sent(t, g.pipe)
  PROVE  MakeOk(U, u, h, k, d) /\ Waits(U, u, h, f)
<1>1. g.pc = "exec" /\ g.pipe # << >> /\ k.pc = "exec" /\ k.pipe = Tail(g.pipe) /\ k.path = g.path
  BY DEF Executed
<1>2. /\ Settles(U, t, h, g.pipe) /\ Noted(After(t, g.pipe), d) /\ Grows(t, g.pipe)
      /\ g.path = d /\ d \in U /\ Inner(h, d) /\ g.pipe \in Seq(GoodWrite) /\ GoodDb(t)
  BY <1>1 DEF MakeOk, GoodFields, FitDb
<1>3. Settles(U, u, h, Tail(g.pipe)) /\ After(u, Tail(g.pipe)) = After(t, g.pipe)
  BY <1>1, <1>2, SettlesStep
<1>4. Grows(u, Tail(g.pipe)) /\ \A q \in Paths : DirIndex(t, q) \subseteq DirIndex(u, q)
  BY <1>1, <1>2, GrowsStep
<1>5. MakeOk(U, u, h, k, d)
  BY <1>1, <1>2, <1>3, <1>4 DEF MakeOk
<1>6. \A p \in f.touched : Hung(t, h, Parent(p)) => Hung(u, h, Parent(p))
  <2> TAKE p \in f.touched
  <2>1. Parent(p) \in Paths /\ Parent(Parent(p)) \in Paths
    BY ParentDir DEF GoodFields, Dirs
  <2> QED  BY <1>4, <2>1 DEF Hung, Noted
<1>7. Waits(U, u, h, f)
  BY <1>6 DEF Waits, Gathers
<1> QED  BY <1>5, <1>7

\* It returns, and Set goes on.
LEMMA MakeReturns ==
  ASSUME NEW U, NEW h, NEW t, FitDb(U, t), NEW g, g.pc = "exec", g.pipe = << >>, NEW f,
         f.pc = "ensure", MakeOk(U, t, h, g, Ancestor(f.dir, f.at - 1)), Waits(U, t, h, f)
  PROVE  SetOk(U, t, h, f)
<1> DEFINE d == Ancestor(f.dir, f.at - 1)
<1>1. Settles(U, t, h, << >>) /\ Noted(After(t, << >>), d)
  BY DEF MakeOk
<1>2. Tidy(t, h) /\ After(t, << >>) = t
  BY <1>1, SettledTidy, AfterNone DEF FitDb
<1> HIDE DEF d
<1>3. Hung(t, h, d)
  BY <1>1, <1>2 DEF Hung
<1> QED  BY <1>2, <1>3 DEF SetOk, Waits, d

-----------------------------------------------------------------------------
(* The steps of a client at home *)

\* A step writes below h only, and what may be stored there.
Writes(U, h) ==
    /\ \A p \in Paths : Fit(U, p, db'[p])
    /\ \A q \in Paths : ~ Under(q, h) => db'[q] = db[q]

LEMMA WritesNothing ==
  ASSUME NEW U, FitDb(U, db), NEW h, db' = db
  PROVE  Writes(U, h)
BY DEF Writes, FitDb

LEMMA WritesSent ==
  ASSUME NEW U, FitDb(U, db), NEW h, NEW pipe \in Seq(GoodWrite), pipe # << >>,
         Settles(U, db, h, pipe), db' = Sent(db, pipe)
  PROVE  Writes(U, h)
<1> DEFINE u == db'
<1>1. u = Sent(db, pipe) /\ PipeFit(U, h, pipe)
  BY DEF Settles
<1> HIDE DEF u
<1>2. FitDb(U, u)
  BY <1>1, AfterStep
<1>3. ASSUME NEW q \in Paths, ~ Under(q, h)
      PROVE  u[q] = db[q]
  BY <1>1, <1>3, AfterApart DEF FitDb
<1> QED  BY <1>2, <1>3 DEF Writes, FitDb, u

LEMMA SetKept ==
  ASSUME TypeInv, NEW c \in Clients, Step(c), Top(c).call = "Set", stack'[c] # << >>, Replaces(c)
  PROVE  stack'[c][1].call = "Set"
<1>1. Busy(c)
  BY BusyStep
<1>2. ~ Abort(c)
  BY AbortTop
<1>3. CASE Return(c, Top(c))
  <2>1. Len(stack'[c]) = Len(stack[c]) /\ Len(stack[c]) \in Nat
    BY <1>1, BusyTop DEF Replaces, TypeInv
  <2>2. Len(stack'[c]) # Len(stack[c]) - 1
    BY <2>1
  <2>3. stack'[c][1] = Done("Set", Top(c).touched)
    BY <1>1, <1>3, <2>2, ReturnTop
  <2> QED  BY <2>3, DoneFields
<1>4. CASE \E g : Continue(c, g) /\ g.pc # "returned" /\ g.call \in {Top(c).call, "Del"}
  <2>1. stack'[c][1].call \in {"Set", "Del"}
    BY <1>1, <1>4, ContinueTop
  <2>2. ~ DelTreeLink(c)
    <3>1. SUFFICES ASSUME DelTreeLink(c)
                   PROVE  FALSE
      OBVIOUS
    <3>2. Top(c).pc = "link"
      BY <3>1 DEF DelTreeLink, At
    <3> QED  BY <1>1, <3>2, TopType DEF OnRoute
  <2> QED  BY <2>1, <2>2, CallKept
<1>5. CASE \E g, k : Nest(c, g, k) /\ g.call = Top(c).call /\ k.pc # "returned"
  <2>1. Len(stack'[c]) = Len(stack[c]) + 1
    BY <1>1, <1>5, NestTop
  <2>2. Len(stack'[c]) = Len(stack[c]) /\ Len(stack[c]) \in Nat
    BY <1>1, BusyTop DEF Replaces, TypeInv
  <2> QED  BY <2>1, <2>2
<1> QED  BY <1>2, <1>3, <1>4, <1>5, StepKinds

LEMMA MissingKept ==
  ASSUME TypeInv, NEW c \in Clients, Top(c).call = "Set", EnsureMissing(c), stack'[c] # << >>
  PROVE  stack'[c][1].call = "Set" /\ stack'[c][1].pc = "resolve" /\ stack'[c][2].call = "Set"
<1> DEFINE f == Top(c)
           d == Ancestor(f.dir, f.at)
           k == [f EXCEPT !.at = @ + 1]
<1>1. At(c, "ensure") /\ Busy(c) /\ ~ Abort(c)
  BY AbortTop DEF EnsureMissing, At
<1>2. Nest(c, k, Make(d)) /\ f.at <= Len(f.dir)
  BY <1>1 DEF EnsureMissing, Make
<1>3. k.call = "Set" /\ d \in Paths \ {Root}
  BY <1>1, <1>2, NextDirFrame, EnsureDir
<1> HIDE DEF k, d
<1>4. stack'[c][1] = Make(d) /\ stack'[c][2] = k
  BY <1>1, <1>2, NestTop
<1> QED  BY <1>3, <1>4, MakeFrame

LEMMA HomeSet ==
  ASSUME TypeInv, NEW U, OneNameEach(U), FitDb(U, db), LinkTargets = {},
         NEW h \in Dirs, ListedUp(db, h), NEW c \in Clients, Step(c), Top(c).call = "Set",
         Len(stack[c]) = 1, SetOk(U, db, h, stack[c][1])
  PROVE  Writes(U, h) /\ Orderly(U, db', h, stack'[c])
<1> DEFINE f == Top(c)
           g == stack'[c][1]
<1>1. Busy(c)
  BY BusyStep
<1>2. /\ f \in GoodFields /\ GoodDb(db) /\ f.path \in Paths \ {Root} /\ f = stack[c][1]
      /\ (f.pc \in {"resolve", "ensure"} => f.pairs # << >>)
  BY <1>1, SetTop
<1>3. SetOk(U, db, h, f)
  BY <1>2
<1>4. ASSUME stack'[c] # << >>, Replaces(c), SetOk(U, db', h, g), g.pc # "returned"
      PROVE  Orderly(U, db', h, stack'[c])
  BY <1>4, SetKept DEF Replaces, Orderly, CallOk
<1>5. ASSUME db' = db, f.pc \in {"resolve", "ensure", "parents"}, stack'[c] = << >>
      PROVE  Orderly(U, db', h, stack'[c])
  BY <1>3, <1>5 DEF Orderly, SetOk
<1> HIDE DEF f, g
<1>6. CASE FollowLink(c)
  <2>1. Turned(db, f, g)
    BY <1>6, FollowLinkFrame DEF f, g
  <2> QED  BY <1>2, <2>1, NoLinks DEF Turned
<1>7. CASE SetPrepare(c)
  <2>1. db' = db /\ f.pc = "resolve"
    BY <1>7 DEF SetPrepare, Resolved, At, f
  <2>2. CASE stack'[c] # << >>
    <3>1. Replaces(c) /\ Prepared(db, f, g)
      BY <1>7, <2>2, PrepareFrame DEF f, g
    <3>2. SetOk(U, db, h, g) /\ g.pc = "ensure"
      BY <1>2, <1>3, <3>1, HomePrepared DEF Prepared
    <3> QED  BY <1>4, <2>1, <2>2, <3>1, <3>2, WritesNothing
  <2> QED  BY <1>5, <2>1, <2>2, WritesNothing
<1>8. CASE EnsureListed(c)
  <2>1. Replaces(c) /\ db' = db /\ NextListed(db, f) /\ Advanced(f, g)
    BY <1>8, ListedFrame DEF f, g
  <2>2. stack'[c] # << >>
    BY <1>1, <1>8, ContinueTop DEF EnsureListed
  <2>3. f.pairs # << >> /\ g.pc = "ensure"
    BY <1>2, <2>1 DEF NextListed, Advanced
  <2>4. SetOk(U, db, h, g)
    BY <1>2, <1>3, <2>1, <2>3, HomeFound
  <2> QED  BY <1>4, <2>1, <2>2, <2>3, <2>4, WritesNothing
<1>9. CASE EnsureMissing(c)
  <2>1. db' = db /\ f.pc = "ensure" /\ f.pairs # << >>
    BY <1>2, <1>9 DEF EnsureMissing, At, f
  <2>2. CASE stack'[c] # << >>
    <3> DEFINE k == stack'[c][2]
    <3>1. /\ NextMissing(db, f) /\ Len(stack'[c]) = Len(stack[c]) + 1
          /\ g = Make(Ancestor(f.dir, f.at)) /\ Advanced(f, k)
      BY <1>9, <2>2, MissingFrame DEF f, g
    <3>2. g.call = "Set" /\ g.pc = "resolve" /\ k.call = "Set"
      BY <1>9, <2>2, MissingKept DEF g
    <3>3. Len(stack'[c]) = 2
      BY <3>1
    <3> HIDE DEF k
    <3>4. /\ Waits(U, db, h, k) /\ Ancestor(k.dir, k.at - 1) = Ancestor(f.dir, f.at)
          /\ MakeOk(U, db, h, Make(Ancestor(f.dir, f.at)), Ancestor(f.dir, f.at))
      BY <1>2, <1>3, <2>1, <3>1, MakeBegins
    <3>5. MakeOk(U, db, h, g, Ancestor(k.dir, k.at - 1))
      BY <3>1, <3>4
    <3>6. Orderly(U, db', h, stack'[c])
      BY <2>1, <2>2, <3>2, <3>3, <3>4, <3>5 DEF Orderly, g, k
    <3> QED  BY <2>1, <3>6, WritesNothing
  <2> QED  BY <1>5, <2>1, <2>2, WritesNothing
<1>10. CASE SetQueue(c)
  <2>1. db' = db /\ f.pc = "ensure" /\ f.pairs # << >>
    BY <1>2, <1>10 DEF SetQueue, Ensured, At, f
  <2>2. CASE stack'[c] # << >>
    <3>1. Replaces(c) /\ QueuedPair(f, g)
      BY <1>10, <2>2, QueueFrame DEF f, g
    <3>2. SetOk(U, db, h, g)
      BY <1>2, <1>3, <2>1, <3>1, HomeQueued
    <3>3. g.pc # "returned"
      BY <3>1 DEF QueuedPair
    <3> QED  BY <1>4, <2>1, <2>2, <3>1, <3>2, <3>3, WritesNothing
  <2> QED  BY <1>5, <2>1, <2>2, WritesNothing
<1>11. CASE SetParent(c)
  <2>1. db' = db /\ f.pc = "parents"
    BY <1>11 DEF SetParent, At, f
  <2>2. CASE stack'[c] # << >>
    <3>1. Replaces(c) /\ \E d : ReadParent(db, f, g, d)
      BY <1>11, <2>2, ParentFrame DEF f, g
    <3>2. SetOk(U, db, h, g)
      BY <1>2, <1>3, <3>1, HomeRead
    <3>3. g.pc # "returned"
      BY <3>1 DEF ReadParent
    <3> QED  BY <1>4, <2>1, <2>2, <3>1, <3>2, <3>3, WritesNothing
  <2> QED  BY <1>5, <2>1, <2>2, WritesNothing
<1>12. CASE ExecCommand(c)
  <2>1. Replaces(c) /\ Executed(f, g) /\ db' = Sent(db, f.pipe)
    BY <1>12, ExecFrame DEF f, g, Sent
  <2>2. stack'[c] # << >>
    BY <1>1, <1>12, ContinueTop DEF ExecCommand
  <2>3. SetOk(U, db', h, g) /\ g.pc # "returned"
    BY <1>2, <1>3, <2>1, HomeExecuted DEF Executed
  <2>4. f.pipe \in Seq(GoodWrite) /\ f.pipe # << >> /\ Settles(U, db, h, f.pipe)
    BY <1>2, <1>3, <2>1 DEF Executed, GoodFields, SetOk
  <2> QED  BY <1>4, <2>1, <2>2, <2>3, <2>4, WritesSent
<1>13. CASE ExecDone(c)
  <2>1. /\ db' = db /\ f.pc = "exec" /\ f.pipe = << >>
        /\ g = Done("Set", f.touched)
    BY <1>13, DoneFrame, MoreThanOne DEF f, g
  <2>2. g.pc = "returned" /\ Settles(U, db, h, << >>)
    BY <1>3, <2>1, DoneFields DEF SetOk
  <2>3. Orderly(U, db', h, stack'[c])
    BY <2>1, <2>2, SettledTidy DEF Orderly, g
  <2> QED  BY <2>1, <2>3, WritesNothing
<1> QED  BY <1>6, <1>7, <1>8, <1>9, <1>10, <1>11, <1>12, <1>13, SetActions

\* ... while its Set makes a directory for another of its Sets.
LEMMA HomeMake ==
  ASSUME TypeInv, NEW U, OneNameEach(U), FitDb(U, db), LinkTargets = {},
         NEW h \in Dirs, ListedUp(db, h), NEW c \in Clients, Step(c), Top(c).call = "Set",
         Len(stack[c]) = 2, stack[c][2].call = "Set", Waits(U, db, h, stack[c][2]),
         MakeOk(U, db, h, stack[c][1], Ancestor(stack[c][2].dir, stack[c][2].at - 1))
  PROVE  Writes(U, h) /\ Orderly(U, db', h, stack'[c])
<1> DEFINE f == stack[c][2]
           d == Ancestor(f.dir, f.at - 1)
           g == Top(c)
           k == stack'[c][1]
<1>1. Busy(c)
  BY BusyStep
<1>2. /\ g \in GoodFields /\ GoodDb(db) /\ g.path \in Paths \ {Root} /\ g = stack[c][1]
  BY <1>1, SetTop
<1>3. f \in GoodFields /\ f.pc = "ensure" /\ f.call = "Set" /\ Waits(U, db, h, f)
  BY <1>1, BusyTop, Caller DEF TypeInv
<1>4. MakeOk(U, db, h, g, d) /\ U \subseteq Paths
  BY <1>2 DEF OneNameEach
<1>5. g.path = d /\ d \in Paths \ {Root} /\ Inner(h, d)
  BY <1>2, <1>4 DEF MakeOk
<1>6. ASSUME stack'[c] # << >>, Replaces(c), k.pc # "returned",
             MakeOk(U, db', h, k, d), Waits(U, db', h, f)
      PROVE  Orderly(U, db', h, stack'[c])
  <2>1. Len(stack'[c]) = 2 /\ stack'[c][2] = f
    BY <1>6 DEF Replaces
  <2>2. k.call = "Set"
    BY <1>6, SetKept
  <2> QED  BY <1>3, <1>6, <2>1, <2>2 DEF Orderly
<1>7. ASSUME db' = db, g.pc \in {"resolve", "ensure", "parents"}, stack'[c] = << >>
      PROVE  Orderly(U, db', h, stack'[c])
  BY <1>4, <1>7 DEF Orderly, MakeOk
<1> HIDE DEF f, g, k, d
<1>8. CASE FollowLink(c)
  <2>1. Turned(db, g, k)
    BY <1>8, FollowLinkFrame DEF g, k
  <2> QED  BY <1>2, <2>1, NoLinks DEF Turned
<1>9. CASE SetPrepare(c)
  <2>1. db' = db /\ g.pc = "resolve"
    BY <1>9 DEF SetPrepare, Resolved, At, g
  <2>2. CASE stack'[c] # << >>
    <3>1. Replaces(c) /\ Prepared(db, g, k)
      BY <1>9, <2>2, PrepareFrame DEF g, k
    <3>2. MakeOk(U, db, h, k, d)
      BY <1>4, <3>1, MakeGoes
    <3>3. k.pc = "ensure"
      BY <3>1 DEF Prepared
    <3> QED  BY <1>3, <1>6, <2>1, <2>2, <3>1, <3>2, <3>3, WritesNothing
  <2> QED  BY <1>7, <2>1, <2>2, WritesNothing
<1>10. CASE EnsureListed(c)
  <2>1. Replaces(c) /\ db' = db /\ NextListed(db, g) /\ Advanced(g, k)
    BY <1>10, ListedFrame DEF g, k
  <2>2. stack'[c] # << >>
    BY <1>1, <1>10, ContinueTop DEF EnsureListed
  <2>3. MakeOk(U, db, h, k, d)
    BY <1>4, <2>1, MakeWalks
  <2>4. k.pc = "ensure"
    BY <2>1 DEF Advanced
  <2> QED  BY <1>3, <1>6, <2>1, <2>2, <2>3, <2>4, WritesNothing
<1>11. CASE EnsureMissing(c)
  <2>1. db' = db /\ g.pc = "ensure"
    BY <1>11 DEF EnsureMissing, At, g
  <2>2. CASE stack'[c] # << >>
    <3>1. NextMissing(db, g)
      BY <1>11, <2>2, MissingFrame DEF g
    <3> QED  BY <1>2, <1>4, <1>5, <3>1, MakeFinds
  <2> QED  BY <1>7, <2>1, <2>2, WritesNothing
<1>12. CASE SetQueue(c)
  <2>1. db' = db /\ g.pc = "ensure"
    BY <1>12 DEF SetQueue, Ensured, At, g
  <2>2. CASE stack'[c] # << >>
    <3>1. Replaces(c) /\ QueuedPair(g, k)
      BY <1>12, <2>2, QueueFrame DEF g, k
    <3>2. MakeOk(U, db, h, k, d)
      BY <1>4, <1>5, <3>1, MakeQueued
    <3>3. k.pc # "returned"
      BY <3>1 DEF QueuedPair
    <3> QED  BY <1>3, <1>6, <2>1, <2>2, <3>1, <3>2, <3>3, WritesNothing
  <2> QED  BY <1>7, <2>1, <2>2, WritesNothing
<1>13. CASE SetParent(c)
  <2>1. db' = db /\ g.pc = "parents"
    BY <1>13 DEF SetParent, At, g
  <2>2. CASE stack'[c] # << >>
    <3>1. Replaces(c) /\ \E x : ReadParent(db, g, k, x)
      BY <1>13, <2>2, ParentFrame DEF g, k
    <3>2. MakeOk(U, db, h, k, d)
      BY <1>2, <1>4, <1>5, <3>1, MakeRead
    <3>3. k.pc # "returned"
      BY <3>1 DEF ReadParent
    <3> QED  BY <1>3, <1>6, <2>1, <2>2, <3>1, <3>2, <3>3, WritesNothing
  <2> QED  BY <1>7, <2>1, <2>2, WritesNothing
<1>14. CASE ExecCommand(c)
  <2>1. Replaces(c) /\ Executed(g, k) /\ db' = Sent(db, g.pipe)
    BY <1>14, ExecFrame DEF g, k, Sent
  <2>2. stack'[c] # << >> /\ k.pc # "returned"
    BY <1>1, <1>14, <2>1, ContinueTop DEF ExecCommand, Executed
  <2>3. MakeOk(U, db', h, k, d) /\ Waits(U, db', h, f)
    <3> DEFINE u == db'
    <3>1. u = Sent(db, g.pipe)
      BY <2>1
    <3> HIDE DEF u
    <3>2. MakeOk(U, u, h, k, d) /\ Waits(U, u, h, f)
      BY <1>2, <1>3, <1>4, <1>5, <2>1, <3>1, MakeExecuted
    <3> QED  BY <3>2 DEF u
  <2>4. g.pipe \in Seq(GoodWrite) /\ g.pipe # << >> /\ Settles(U, db, h, g.pipe)
    BY <1>2, <1>4, <2>1 DEF Executed, GoodFields, MakeOk
  <2> QED  BY <1>6, <2>1, <2>2, <2>3, <2>4, WritesSent
<1>15. CASE ExecDone(c)
  <2>1. /\ db' = db /\ g.pc = "exec" /\ g.pipe = << >> /\ Len(stack'[c]) = 1
        /\ \A i \in 1 .. Len(stack'[c]) : stack'[c][i] = stack[c][i + 1]
    <3>1. db' = db /\ g.pc = "exec" /\ g.pipe = << >>
      BY <1>15, DoneFrame DEF g
    <3>2. \/ Len(stack[c]) = 1
          \/ /\ Len(stack'[c]) = Len(stack[c]) - 1
             /\ \A i \in 1 .. Len(stack'[c]) : stack'[c][i] = stack[c][i + 1]
      BY <1>15, DoneFrame
    <3>3. Len(stack[c]) # 1
      OBVIOUS
    <3>4. Len(stack'[c]) = 2 - 1
      BY <3>2, <3>3
    <3> QED  BY <3>1, <3>2, <3>3, <3>4
  <2>2. k = f /\ stack'[c] # << >>
    <3>1. 1 \in 1 .. Len(stack'[c])
      BY <2>1
    <3>2. stack'[c][1] = stack[c][1 + 1]
      BY <2>1, <3>1
    <3>3. Len(<< >>) = 0
      OBVIOUS
    <3> QED  BY <2>1, <3>2, <3>3 DEF k, f
  <2>3. SetOk(U, db, h, f)
    BY <1>3, <1>4, <2>1, MakeReturns DEF d
  <2>4. Orderly(U, db', h, stack'[c])
    BY <1>3, <2>1, <2>2, <2>3 DEF Orderly, CallOk, k
  <2> QED  BY <2>1, <2>4, WritesNothing
<1> QED  BY <1>8, <1>9, <1>10, <1>11, <1>12, <1>13, <1>14, <1>15, SetActions

-----------------------------------------------------------------------------
(* Del of a client at home *)

LEMMA ChildInner ==
  ASSUME NEW p \in Paths \ {Root}
  PROVE  Parent(p) \in Dirs /\ Inner(Parent(p), p)
<1>1. Len(p) - 1 \in 0 .. Len(p) /\ Parent(p) = Ancestor(p, Len(p) - 1) /\ Parent(p) \in Dirs
  BY ParentAncestor, ParentDir
<1>2. Under(p, Parent(p))
  BY <1>1, PathSeq, AncestorUnder
<1>3. Len(Parent(p)) = Len(p) - 1 /\ Len(p) \in Nat
  BY PathSeq, ParentSeq
<1>4. p # Parent(p)
  BY <1>3
<1> QED  BY <1>1, <1>2, <1>4 DEF Inner

LEMMA GoneKeys ==
  ASSUME NEW p \in Paths
  PROVE  \A i \in DOMAIN Gone(p) : Gone(p)[i].key = p \/ Gone(p)[i].key = AsFile(p)
<1> DEFINE a == DelKey(AsFile(p))
           b == DelKey(p)
<1>1. a.key = AsFile(p) /\ b.key = p
  BY DEF DelKey
<1> HIDE DEF a, b
<1>2. CASE IsDir(p)
  <2>1. DOMAIN <<a, b>> = {1, 2} /\ <<a, b>>[1] = a /\ <<a, b>>[2] = b
    OBVIOUS
  <2>2. Gone(p) = <<a, b>>
    BY <1>2 DEF Gone, a, b
  <2> QED  BY <1>1, <2>1, <2>2
<1>3. CASE ~ IsDir(p)
  <2>1. DOMAIN <<b>> = {1} /\ <<b>>[1] = b
    OBVIOUS
  <2>2. Gone(p) = <<b>>
    BY <1>3 DEF Gone, b
  <2> QED  BY <1>1, <2>1, <2>2
<1> QED  BY <1>2, <1>3

\* The index of the directory of p, written back without the name.
LEMMA RemovedValue ==
  ASSUME NEW U, NEW t, FitDb(U, t), NEW p \in Paths \ {Root}
  PROVE  /\ \A i \in DOMAIN RemoveChild(t, p) :
               RemoveChild(t, p)[i].key = Parent(p) /\ Fit(U, Parent(p), RemoveChild(t, p)[i].val)
         /\ Final(t, RemoveChild(t, p), Parent(p)).kids = OtherNames(t, p)
         /\ Final(t, RemoveChild(t, p), Parent(p)).kind = ValueAt(t, Parent(p)).kind
<1> DEFINE d == Parent(p)
           v == ValueAt(t, d)
           left == OtherNames(t, p)
           x == [v EXCEPT !.kids = left]
           w == [key |-> d, val |-> x]
<1>1. v \in GoodValue /\ d \in Dirs /\ d \in Paths /\ v = t[d] /\ Fit(U, d, v)
  BY ValueAtType, ParentDir DEF Dirs, FitDb, ValueAt
<1>2. left \subseteq v.kids /\ v.kids \in SUBSET Child
  BY <1>1, ValueFields DEF OtherNames, DirIndex
<1>3. CASE v.kind = "absent"
  <2>1. RemoveChild(t, p) = << >> /\ v.kids = {}
    BY <1>1, <1>3, ValueFields DEF RemoveChild
  <2>2. Final(t, << >>, d) = v
    BY FinalEmpty
  <2>3. left = {}
    BY <1>2, <2>1
  <2>4. DOMAIN << >> = {}
    OBVIOUS
  <2> HIDE DEF left, v
  <2> QED  BY <2>1, <2>2, <2>3, <2>4 DEF left, v
<1>4. CASE v.kind # "absent"
  <2>1. RemoveChild(t, p) = <<w>>
    BY <1>4 DEF RemoveChild, OtherNames, DirIndex
  <2> HIDE DEF left, v
  <2>2. x \in GoodValue /\ x.kids = left /\ x.kind = v.kind
    BY <1>1, <1>2, <1>4, ValueFields
  <2> HIDE DEF x
  <2>3. w \in GoodWrite /\ w.key = d /\ w.val = x
    BY <1>1, <2>2 DEF GoodWrite
  <2>4. Fit(U, d, x)
    <3>1. x.ext = v.ext
      BY <1>1, KidsOnly DEF x
    <3> QED  BY <1>1, <1>2, <2>2, <3>1 DEF Fit
  <2> HIDE DEF w
  <2>5. Final(t, <<w>>, d) = x
    <3>1. <<w>> = Append(<< >>, w) /\ << >> \in Seq(GoodWrite)
      OBVIOUS
    <3>2. Final(t, Append(<< >>, w), d) = w.val
      BY <2>3, <3>1, FinalAppend
    <3> QED  BY <2>3, <3>1, <3>2
  <2>6. DOMAIN <<w>> = {1} /\ <<w>>[1] = w
    OBVIOUS
  <2> QED  BY <2>1, <2>2, <2>3, <2>4, <2>5, <2>6 DEF left, v
<1> QED  BY <1>3, <1>4

\* The pipeline of a Del with the commands for one more key.
Longer(t, pipe, p) == pipe \o Gone(p) \o RemoveChild(t, p)

\* The longer pipeline does the same to all keys but p and its directory.
OnlyTakes(t, pipe, new, p) ==
    \A q : q # p /\ q # AsFile(p) /\ q # Parent(p) => Final(t, new, q) = Final(t, pipe, q)

LEMMA DelPipe ==
  ASSUME NEW U, OneNameEach(U), NEW h \in Dirs, NEW t, FitDb(U, t),
         NEW p \in U, Inner(h, p), NEW pipe \in Seq(GoodWrite), PipeFit(U, h, pipe),
         Final(t, pipe, Parent(p)) = ValueAt(t, Parent(p))
  PROVE  /\ PipeFit(U, h, Longer(t, pipe, p))
         /\ Final(t, Longer(t, pipe, p), p).kind = "absent"
         /\ Final(t, Longer(t, pipe, p), Parent(p)).kids = OtherNames(t, p)
         /\ Final(t, Longer(t, pipe, p), Parent(p)).kind = ValueAt(t, Parent(p)).kind
         /\ OnlyTakes(t, pipe, Longer(t, pipe, p), p)
<1> DEFINE gone == Gone(p)
           rc == RemoveChild(t, p)
           two == pipe \o gone
           new == Longer(t, pipe, p)
           d == Parent(p)
<1>1. /\ p \in Paths \ {Root} /\ d \in Dirs /\ Under(d, h) /\ Under(p, h) /\ Under(AsFile(p), h)
      /\ GoodDb(t)
  BY InnerPath DEF OneNameEach, FitDb, Inner
<1>2. /\ gone \in Seq(GoodWrite) /\ rc \in Seq(GoodWrite)
      /\ \A i \in DOMAIN gone : gone[i].val = Absent
      /\ \E i \in DOMAIN gone : gone[i].key = p
  BY <1>1, GoneWrites, RemoveChildType
<1>3. \A i \in DOMAIN gone : gone[i].key = p \/ gone[i].key = AsFile(p)
  BY <1>1, GoneKeys
<1>4. /\ \A i \in DOMAIN rc : rc[i].key = d /\ Fit(U, d, rc[i].val)
      /\ Final(t, rc, d).kids = OtherNames(t, p) /\ Final(t, rc, d).kind = ValueAt(t, d).kind
  BY <1>1, RemovedValue
<1>5. d # p /\ d # AsFile(p) /\ AsFile(p) \in Paths
  <2>1. Inner(d, p)
    BY <1>1, ChildInner
  <2>2. ~ IsDir(AsFile(p)) /\ IsDir(d)
    BY <1>1, PathSeq, RespelledKind DEF Dirs
  <2> QED  BY <1>1, <2>1, <2>2, ClosedAssumption DEF Inner, ClosedAssumption
<1> HIDE DEF gone, rc, d
<1>6. \A q : Final(t, two, q) = IF \E i \in DOMAIN gone : gone[i].key = q
                                THEN Absent ELSE Final(t, pipe, q)
  BY <1>2, FinalConcat, FinalDeleted
<1>7. two \in Seq(GoodWrite) /\ new = two \o rc
  BY <1>2 DEF gone, rc, Longer
<1> HIDE DEF new
<1>8. \A q : Final(t, new, q) = IF \E i \in DOMAIN rc : rc[i].key = q
                                THEN Final(t, rc, q) ELSE Final(t, two, q)
  <2>1. two \in Seq(GoodWrite) /\ new = two \o rc
    BY <1>7
  <2> HIDE DEF two
  <2>2. \A q : Final(t, two \o rc, q) = IF \E i \in DOMAIN rc : rc[i].key = q
                                       THEN Final(t, rc, q) ELSE Final(t, two, q)
    <3>1. rc \in Seq(GoodWrite) /\ two \in Seq(GoodWrite)
      BY <1>2, <2>1
    <3> QED  BY <3>1, FinalConcat, Zenon
  <2> QED  BY <2>1, <2>2
<1>9. PipeFit(U, h, two)
  <2>1. /\ DOMAIN two = 1 .. Len(pipe) + Len(gone) /\ Len(pipe) \in Nat /\ Len(gone) \in Nat
        /\ \A j \in 1 .. Len(pipe) + Len(gone) :
              two[j] = IF j <= Len(pipe) THEN pipe[j] ELSE gone[j - Len(pipe)]
        /\ DOMAIN pipe = 1 .. Len(pipe) /\ DOMAIN gone = 1 .. Len(gone)
    BY <1>2, <1>7, ConcatProperties
  <2>2. SUFFICES ASSUME NEW i \in DOMAIN two
                 PROVE  Under(two[i].key, h) /\ Fit(U, two[i].key, two[i].val)
    BY DEF PipeFit
  <2> HIDE DEF two
  <2>3. CASE i <= Len(pipe)
    <3>1. i \in DOMAIN pipe /\ two[i] = pipe[i]
      BY <2>1, <2>2, <2>3
    <3> QED  BY <3>1 DEF PipeFit
  <2>4. CASE ~ (i <= Len(pipe))
    <3>1. i - Len(pipe) \in DOMAIN gone /\ two[i] = gone[i - Len(pipe)]
      BY <2>1, <2>2, <2>4
    <3>2. (two[i].key = p \/ two[i].key = AsFile(p)) /\ two[i].val = Absent
      BY <1>2, <1>3, <3>1
    <3>3. Fit(U, two[i].key, Absent)
      BY PlainValues DEF Fit
    <3> QED  BY <1>1, <3>2, <3>3
  <2> QED  BY <2>3, <2>4
<1>10. PipeFit(U, h, new)
  <2> HIDE DEF two
  <2>1. /\ DOMAIN new = 1 .. Len(two) + Len(rc) /\ Len(two) \in Nat /\ Len(rc) \in Nat
        /\ \A j \in 1 .. Len(two) + Len(rc) :
              new[j] = IF j <= Len(two) THEN two[j] ELSE rc[j - Len(two)]
        /\ DOMAIN two = 1 .. Len(two) /\ DOMAIN rc = 1 .. Len(rc)
    BY <1>2, <1>7, ConcatProperties
  <2>2. SUFFICES ASSUME NEW i \in DOMAIN new
                 PROVE  Under(new[i].key, h) /\ Fit(U, new[i].key, new[i].val)
    BY DEF PipeFit
  <2>3. CASE i <= Len(two)
    <3>1. i \in DOMAIN two /\ new[i] = two[i]
      BY <2>1, <2>2, <2>3
    <3> QED  BY <1>9, <3>1 DEF PipeFit
  <2>4. CASE ~ (i <= Len(two))
    <3>1. i - Len(two) \in DOMAIN rc /\ new[i] = rc[i - Len(two)]
      BY <2>1, <2>2, <2>4
    <3> QED  BY <1>1, <1>4, <3>1 DEF d
  <2> QED  BY <2>3, <2>4
<1> HIDE DEF two
<1>11. Final(t, new, p).kind = "absent"
  <2>1. Final(t, new, p) = Absent
    BY <1>2, <1>4, <1>5, <1>6, <1>8
  <2> QED  BY <2>1, PlainValues
<1>12. Final(t, new, d).kids = OtherNames(t, p) /\ Final(t, new, d).kind = ValueAt(t, d).kind
  <2>1. CASE \E i \in DOMAIN rc : rc[i].key = d
    BY <1>4, <1>8, <2>1
  <2>2. CASE ~ \E i \in DOMAIN rc : rc[i].key = d
    <3>1. Final(t, rc, d) = ValueAt(t, d)
      BY <2>2, FinalNone
    <3>2. Final(t, new, d) = Final(t, pipe, d)
      BY <1>3, <1>5, <1>6, <1>8, <2>2
    <3> QED  BY <1>4, <3>1, <3>2 DEF d
  <2> QED  BY <2>1, <2>2
<1>13. ASSUME NEW q, q # p, q # AsFile(p), q # d
       PROVE  Final(t, new, q) = Final(t, pipe, q)
  BY <1>3, <1>4, <1>6, <1>8, <1>13
<1> QED  BY <1>10, <1>11, <1>12, <1>13 DEF d, new, OnlyTakes

\* Del has queued the commands for its next key.
QueuedKey(t, f, g) ==
    /\ f.pc = "remove" /\ g.keys = Tail(f.keys) /\ g.touched = f.touched \cup {f.path}
    /\ g.pipe = Longer(t, f.pipe, f.path)
    /\ \/ Tail(f.keys) = << >> /\ g.pc = "exec"
       \/ Tail(f.keys) # << >> /\ g.pc = "resolveParent" /\ g.path = Head(Tail(f.keys))

LEMMA HomeTaken ==
  ASSUME NEW U, OneNameEach(U), NEW h \in Dirs, NEW t, FitDb(U, t), NEW f \in GoodFields,
         f.keys # << >>, NEW g, g.pipe \in Seq(GoodWrite), QueuedKey(t, f, g), DelOk(U, t, h, f)
  PROVE  Takes(U, t, h, g) /\ Scattered(g.keys) /\ \A i \in DOMAIN g.keys : MayDel(U, h, g.keys[i])
<1> DEFINE p == f.path
           d == Parent(p)
<1>1. /\ g.keys = Tail(f.keys) /\ g.touched = f.touched \cup {p}
      /\ g.pipe = Longer(t, f.pipe, p)
      /\ Takes(U, t, h, f) /\ p = Head(f.keys)
      /\ Scattered(f.keys) /\ \A i \in DOMAIN f.keys : MayDel(U, h, f.keys[i])
  BY DEF QueuedKey, DelOk
<1>2. /\ f.pipe \in Seq(GoodWrite) /\ f.keys \in Seq(Paths \ {Root})
      /\ f.touched \subseteq Paths \ {Root} /\ p \in Paths /\ U \subseteq Paths
  BY DEF GoodFields, OneNameEach
<1>3. /\ \A i \in DOMAIN g.keys :
            i \in Nat /\ i + 1 \in DOMAIN f.keys /\ g.keys[i] = f.keys[i + 1] /\ i + 1 # 1
      /\ 1 \in DOMAIN f.keys /\ f.keys[1] = p
  BY <1>1, <1>2
<1>4. MayDel(U, h, p) /\ \A q \in f.touched : MayDel(U, h, q) /\ Parent(q) # d
  <2>1. \A q \in f.touched :
           MayDel(U, h, q) /\ \A i \in DOMAIN f.keys : Parent(f.keys[i]) # Parent(q)
    BY <1>1 DEF Takes
  <2> QED  BY <1>1, <1>3, <2>1
<1>5. /\ p \in U \ {Root} /\ Inner(h, p) /\ d \in U /\ d \in Dirs /\ Under(d, h) /\ Inner(d, p)
      /\ p # d /\ \A q \in U : ~ Inner(p, q)
  BY <1>2, <1>4, InnerPath, InUsed, ChildInner DEF MayDel, Inner
<1>6. d \notin f.touched
  BY <1>4, <1>5 DEF MayDel
<1>7. Final(t, f.pipe, d) = ValueAt(t, d) /\ PipeFit(U, h, f.pipe)
  BY <1>1, <1>4, <1>5, <1>6 DEF Takes
<1> HIDE DEF p, d
<1>8. /\ PipeFit(U, h, g.pipe) /\ Final(t, g.pipe, p).kind = "absent"
      /\ Final(t, g.pipe, d).kids = OtherNames(t, p)
      /\ Final(t, g.pipe, d).kind = ValueAt(t, d).kind
      /\ OnlyTakes(t, f.pipe, g.pipe, p)
  <2> DEFINE pipe == f.pipe
             new == Longer(t, pipe, p)
  <2>1. /\ p \in U /\ Inner(h, p) /\ pipe \in Seq(GoodWrite) /\ PipeFit(U, h, pipe)
        /\ Final(t, pipe, Parent(p)) = ValueAt(t, Parent(p))
    BY <1>2, <1>5, <1>7 DEF d
  <2> HIDE DEF pipe
  <2>2. /\ PipeFit(U, h, new) /\ Final(t, new, p).kind = "absent"
        /\ Final(t, new, Parent(p)).kids = OtherNames(t, p)
        /\ Final(t, new, Parent(p)).kind = ValueAt(t, Parent(p)).kind
        /\ OnlyTakes(t, pipe, new, p)
    BY <2>1, DelPipe
  <2>3. g.pipe = new
    BY <1>1 DEF pipe
  <2> QED  BY <2>2, <2>3 DEF pipe, d
<1>9. ASSUME NEW q \in U, q # p, q # d
      PROVE  Final(t, g.pipe, q) = Final(t, f.pipe, q)
  <2>1. q # AsFile(p)
    BY <1>5, <1>9, OtherSpelling
  <2> QED  BY <1>8, <1>9, <2>1 DEF OnlyTakes, d
<1>10. ASSUME NEW q \in g.touched
       PROVE  /\ MayDel(U, h, q)
              /\ \A i \in DOMAIN g.keys : Parent(g.keys[i]) # Parent(q)
              /\ Final(t, g.pipe, q).kind = "absent"
              /\ Final(t, g.pipe, Parent(q)).kids = OtherNames(t, q)
              /\ Final(t, g.pipe, Parent(q)).kind = ValueAt(t, Parent(q)).kind
  <2>1. CASE q = p
    <3>1. \A i \in DOMAIN g.keys : Parent(g.keys[i]) # d
      <4> TAKE i \in DOMAIN g.keys
      <4>1. Parent(f.keys[i + 1]) # Parent(f.keys[1])
        BY <1>1, <1>3 DEF Scattered
      <4> QED  BY <1>3, <4>1 DEF d
    <3> QED  BY <1>4, <1>8, <2>1, <3>1 DEF d
  <2>2. CASE q # p
    <3>1. /\ q \in f.touched /\ MayDel(U, h, q) /\ Parent(q) # d
          /\ \A i \in DOMAIN f.keys : Parent(f.keys[i]) # Parent(q)
          /\ Final(t, f.pipe, q).kind = "absent"
          /\ Final(t, f.pipe, Parent(q)).kids = OtherNames(t, q)
          /\ Final(t, f.pipe, Parent(q)).kind = ValueAt(t, Parent(q)).kind
      BY <1>1, <1>4, <2>2 DEF Takes
    <3>2. q \in U /\ q # d /\ Parent(q) \in U /\ Inner(Parent(q), q)
      BY <1>2, <1>6, <3>1, InUsed, ChildInner DEF MayDel
    <3>3. Parent(q) # p
      BY <1>5, <3>2
    <3> QED  BY <1>3, <1>9, <2>2, <3>1, <3>2, <3>3
  <2> QED  BY <2>1, <2>2
<1>11. ASSUME NEW q \in U, Under(q, h), q \notin g.touched, \A x \in g.touched : Parent(x) # q
       PROVE  Final(t, g.pipe, q) = ValueAt(t, q)
  <2>1. q # p /\ q # d /\ q \notin f.touched /\ \A x \in f.touched : Parent(x) # q
    BY <1>1, <1>11 DEF d
  <2> QED  BY <1>1, <1>9, <1>11, <2>1 DEF Takes
<1>12. Takes(U, t, h, g)
  BY <1>8, <1>10, <1>11 DEF Takes
<1>13. Scattered(g.keys)
  <2> SUFFICES ASSUME NEW i \in DOMAIN g.keys, NEW j \in DOMAIN g.keys, i # j
               PROVE  Parent(g.keys[i]) # Parent(g.keys[j])
    BY DEF Scattered
  <2>1. i + 1 # j + 1
    BY <1>3
  <2> QED  BY <1>1, <1>3, <2>1 DEF Scattered
<1> QED  BY <1>1, <1>3, <1>12, <1>13

\* All keys are queued: the pipeline leaves neither them nor their names.
LEMMA TakesTidy ==
  ASSUME NEW U, OneNameEach(U), NEW h \in Dirs, NEW t, FitDb(U, t), Tidy(t, h), NEW f,
         f.pipe \in Seq(GoodWrite), Takes(U, t, h, f)
  PROVE  Settles(U, t, h, f.pipe)
<1> DEFINE u == After(t, f.pipe)
           T == f.touched
<1>1. /\ PipeFit(U, h, f.pipe) /\ GoodDb(t) /\ U \subseteq Paths
      /\ \A x \in T : MayDel(U, h, x) /\ x \in U /\ Inner(h, x) /\ x \in Paths
  BY DEF Takes, MayDel, FitDb, OneNameEach
<1>2. /\ FitDb(U, u)
      /\ \A q \in Paths : ValueAt(u, q) = Final(t, f.pipe, q) /\ u[q] = Final(t, f.pipe, q)
  BY <1>1, AfterFit, AfterValue DEF ValueAt
<1>3. TidyBut(t, h, T)
  BY DEF Tidy, TidyBut
<1> HIDE DEF u
<1>4. ASSUME NEW x \in T, NEW q \in Paths, Under(q, x)
      PROVE  ~ Present(u, q)
  <2>1. CASE q = x
    <3>1. Final(t, f.pipe, x).kind = "absent"
      BY DEF Takes
    <3> QED  BY <1>1, <1>2, <2>1, <3>1 DEF Present
  <2>2. CASE q # x
    BY <1>1, <1>2, <1>4, <2>2, KeyValue DEF MayDel, Inner
  <2> QED  BY <2>1, <2>2
<1>5. ASSUME NEW x \in T
      PROVE  /\ DirIndex(u, Parent(x)) = OtherNames(t, x)
             /\ Present(u, Parent(x)) => Present(t, Parent(x))
  <2>1. /\ Final(t, f.pipe, Parent(x)).kids = OtherNames(t, x)
        /\ Final(t, f.pipe, Parent(x)).kind = ValueAt(t, Parent(x)).kind
    BY DEF Takes
  <2>2. Parent(x) \in Paths
    BY <1>1, InnerPath DEF Dirs
  <2>3. ValueAt(u, Parent(x)) = Final(t, f.pipe, Parent(x))
    BY <1>2, <2>2
  <2> QED  BY <2>1, <2>3 DEF DirIndex, Present
<1>6. ASSUME NEW q \in U, Under(q, h), \A x \in T : ~ Under(q, x) /\ Parent(x) # q
      PROVE  u[q] = t[q]
  <2>1. q \notin T
    <3> SUFFICES ASSUME q \in T
                 PROVE  FALSE
      OBVIOUS
    <3>1. q \in Paths /\ q # Root
      BY <1>1, InnerPath
    <3>2. Under(q, q)
      BY <3>1, UnderItself
    <3> QED  BY <1>6, <3>2
  <2>2. Final(t, f.pipe, q) = ValueAt(t, q) /\ q \in Paths
    BY <1>1, <1>6, <2>1 DEF Takes
  <2> QED  BY <1>2, <2>2 DEF ValueAt
<1>7. T \in SUBSET U
  BY <1>1
<1> HIDE DEF T
<1>8. Tidy(u, h)
  BY <1>1, <1>2, <1>3, <1>4, <1>5, <1>6, <1>7, RemovedTidy
<1> QED  BY <1>1, <1>8 DEF Settles, u

-----------------------------------------------------------------------------
(* The steps of Del, DelTree and Mkindex at home *)

\* The innermost frame is replaced.
LEMMA StepTop ==
  ASSUME TypeInv, NEW c \in Clients, Step(c)
  PROVE  /\ Busy(c) /\ Top(c) \in GoodFields /\ OnRoute(Top(c)) /\ GoodDb(db)
         /\ Top(c) = stack[c][1] /\ Top(c).path \in Paths \ {Root}
         /\ \A g : Continue(c, g) => stack'[c] # << >> /\ Replaces(c) /\ stack'[c][1] = g
         /\ Abort(c) => stack'[c] = << >>
         /\ stack'[c] # << >> => stack'[c][1] \in GoodFields
<1>1. Busy(c)
  BY BusyStep
<1>2. \A g : Continue(c, g) => stack'[c] # << >> /\ Replaces(c) /\ stack'[c][1] = g
  BY <1>1, ContinueTop DEF Replaces
<1>3. stack'[c] # << >> => stack'[c][1] \in GoodFields
  <2>1. TypeInv'
    BY StepType
  <2>2. stack'[c] \in Seq(GoodFrame)
    BY <2>1 DEF TypeInv, StackInv, GoodStack
  <2> QED  BY <2>2 DEF GoodFrame
<1> QED  BY <1>1, <1>2, <1>3, TopType, BusyTop, AbortTop DEF TypeInv

LEMMA NoTurn ==
  ASSUME TypeInv, LinkTargets = {}, NEW c \in Clients
  PROVE  ~ FollowLink(c)
BY NoLinks DEF FollowLink, FollowsParent, TypeInv

\* The frame of a call that a command has been executed of.
LEMMA SentFrame ==
  ASSUME TypeInv, NEW c \in Clients, Step(c), ExecCommand(c)
  PROVE  /\ stack'[c] # << >> /\ Replaces(c) /\ db' = Sent(db, Top(c).pipe)
         /\ Executed(Top(c), stack'[c][1]) /\ stack'[c][1].call = Top(c).call
         /\ stack'[c][1].at = Top(c).at /\ stack'[c][1].doomed = Top(c).doomed
<1> DEFINE f == Top(c)
           g == stack'[c][1]
<1>1. f.pc = "exec" /\ f.pipe # << >> /\ db' = Sent(db, f.pipe) /\ f \in GoodFields
  BY StepTop DEF ExecCommand, At, Sent
<1>2. stack'[c] # << >> /\ Replaces(c) /\ g = [f EXCEPT !.pipe = Tail(@)]
  BY StepTop DEF ExecCommand
<1> HIDE DEF g
<1>3. Executed(f, g) /\ g.call = f.call /\ g.at = f.at /\ g.doomed = f.doomed
  BY <1>1, <1>2 DEF GoodFields, Executed
<1> QED  BY <1>1, <1>2, <1>3 DEF g

\* An outermost call that returns.
LEMMA ReturnAlone ==
  ASSUME TypeInv, NEW c \in Clients, Step(c), Len(stack[c]) = 1, Return(c, Top(c))
  PROVE  stack'[c] # << >> /\ stack'[c][1].pc = "returned"
<1>1. ~ (Len(stack[c]) > 1)
  BY MoreThanOne
<1>2. /\ Len(stack'[c]) = 1 /\ stack'[c][1] = Done(Top(c).call, Top(c).touched)
  BY <1>1, StepTop, ReturnTop
<1>3. Len(<< >>) = 0
  OBVIOUS
<1> QED  BY <1>2, <1>3, DoneFields

LEMMA KeyFrame ==
  ASSUME TypeInv, NEW c \in Clients, Step(c), Top(c).call = "Del", DelQueue(c), stack'[c] # << >>
  PROVE  Replaces(c) /\ QueuedKey(db, Top(c), stack'[c][1]) /\ stack'[c][1].call = "Del"
<1> DEFINE f == Top(c)
           g == stack'[c][1]
           rest == Tail(f.keys)
           pipe == Longer(db, f.pipe, f.path)
           queued == [f EXCEPT !.keys = rest, !.pipe = pipe, !.touched = @ \cup {f.path}]
<1>1. f.pc = "remove" /\ f \in GoodFields /\ f.call = "Del"
  BY StepTop DEF DelQueue, At
<1>2. /\ Replaces(c)
      /\ \/ rest = << >> /\ g = [queued EXCEPT !.pc = "exec"]
         \/ rest # << >> /\ g = [queued EXCEPT !.pc = "resolveParent", !.path = Head(rest)]
  BY StepTop DEF DelQueue, Removed, Gone, Longer
<1> HIDE DEF g, rest, pipe
<1>3. /\ queued.keys = rest /\ queued.pipe = pipe /\ queued.touched = f.touched \cup {f.path}
      /\ queued.call = "Del"
      /\ DOMAIN queued = {"call", "pc", "pairs", "keys", "path", "target", "dir", "at", "touched",
                          "todo", "pipe", "doomed"}
  BY <1>1 DEF GoodFields
<1> HIDE DEF queued
<1>4. /\ g.keys = rest /\ g.touched = f.touched \cup {f.path} /\ g.pipe = pipe /\ g.call = "Del"
      /\ \/ rest = << >> /\ g.pc = "exec"
         \/ rest # << >> /\ g.pc = "resolveParent" /\ g.path = Head(rest)
  <2>1. CASE rest = << >> /\ g = [queued EXCEPT !.pc = "exec"]
    BY <1>3, <2>1
  <2>2. CASE rest # << >> /\ g = [queued EXCEPT !.pc = "resolveParent", !.path = Head(rest)]
    BY <1>3, <2>2
  <2> QED  BY <1>2, <2>1, <2>2
<1> QED  BY <1>1, <1>2, <1>4 DEF QueuedKey, g, rest, pipe

LEMMA HomeDel ==
  ASSUME TypeInv, NEW U, OneNameEach(U), FitDb(U, db), LinkTargets = {},
         NEW h \in Dirs, NEW c \in Clients, Step(c), Top(c).call = "Del",
         Len(stack[c]) = 1, DelOk(U, db, h, stack[c][1])
  PROVE  Writes(U, h) /\ Orderly(U, db', h, stack'[c])
<1> DEFINE f == Top(c)
           g == stack'[c][1]
<1>1. f \in GoodFields /\ OnRoute(f) /\ DelOk(U, db, h, f) /\ f.call = "Del"
  BY StepTop
<1>2. ASSUME stack'[c] # << >>, Replaces(c), g.call = "Del", g.pc # "returned", DelOk(U, db', h, g)
      PROVE  Orderly(U, db', h, stack'[c])
  BY <1>2 DEF Replaces, Orderly, CallOk
<1>3. stack'[c] # << >> => g \in GoodFields
  BY StepTop
<1> HIDE DEF f, g
<1>4. CASE DelQueue(c)
  <2>1. db' = db /\ f.pc = "remove" /\ f.keys # << >>
    BY <1>1, <1>4 DEF DelQueue, At, f, OnRoute
  <2>2. Tidy(db, h)
    BY <1>1, <2>1 DEF DelOk
  <2>3. CASE stack'[c] = << >>
    BY <2>1, <2>2, <2>3, WritesNothing DEF Orderly
  <2>4. CASE stack'[c] # << >>
    <3>1. Replaces(c) /\ QueuedKey(db, f, g) /\ g.call = "Del"
      BY <1>4, <2>4, KeyFrame DEF f, g
    <3>2. g.pipe \in Seq(GoodWrite)
      BY <1>3, <2>4 DEF GoodFields
    <3>3. /\ Takes(U, db, h, g) /\ Scattered(g.keys)
          /\ \A i \in DOMAIN g.keys : MayDel(U, h, g.keys[i])
      BY <1>1, <2>1, <3>1, <3>2, HomeTaken
    <3>4. g.pc = "exec" => Settles(U, db, h, g.pipe)
      BY <2>2, <3>2, <3>3, TakesTidy
    <3>5. /\ g.pc \in {"exec", "resolveParent"} /\ (g.pc = "resolveParent" => g.path = Head(g.keys))
      BY <3>1 DEF QueuedKey
    <3>6. DelOk(U, db, h, g) /\ g.pc # "returned"
      BY <2>2, <3>3, <3>4, <3>5 DEF DelOk
    <3> QED  BY <1>2, <2>1, <2>4, <3>1, <3>6, WritesNothing
  <2> QED  BY <2>3, <2>4
<1>5. CASE ExecCommand(c)
  <2>1. /\ stack'[c] # << >> /\ Replaces(c) /\ db' = Sent(db, f.pipe) /\ Executed(f, g)
        /\ g.call = "Del"
    BY <1>1, <1>5, SentFrame DEF f, g
  <2>2. f.pc = "exec" /\ f.pipe # << >> /\ g.pc = "exec" /\ g.pipe = Tail(f.pipe)
        /\ f.pipe \in Seq(GoodWrite) /\ Settles(U, db, h, f.pipe)
    BY <1>1, <2>1 DEF Executed, GoodFields, DelOk
  <2> DEFINE u == db'
  <2>3. u = Sent(db, f.pipe)
    BY <2>1
  <2> HIDE DEF u
  <2>4. Settles(U, u, h, Tail(f.pipe))
    BY <2>2, <2>3, SettlesStep
  <2>5. DelOk(U, db', h, g)
    BY <2>2, <2>4 DEF DelOk, u
  <2>6. g.pc # "returned"
    BY <2>2
  <2> QED  BY <1>2, <2>1, <2>2, <2>5, <2>6, WritesSent
<1>6. CASE ExecDone(c)
  <2>1. f.pc = "exec" /\ f.pipe = << >> /\ db' = db
    BY <1>6 DEF ExecDone, At, f
  <2>2. Return(c, f)
    BY <1>1, <1>6 DEF ExecDone, f
  <2>3. stack'[c] # << >> /\ g.pc = "returned"
    BY <2>2, ReturnAlone DEF f, g
  <2>4. Settles(U, db, h, << >>)
    BY <1>1, <2>1 DEF DelOk
  <2>5. Tidy(db, h)
    BY <2>4, SettledTidy
  <2> QED  BY <2>1, <2>3, <2>5, WritesNothing DEF Orderly, g
<1>7. CASE DelCheck(c)
  <2>1. db' = db /\ f.pc = "resolveParent"
    BY <1>7 DEF DelCheck, ResolvedParent, At, f
  <2>2. Tidy(db, h)
    BY <1>1, <2>1 DEF DelOk
  <2>3. CASE stack'[c] = << >>
    BY <2>1, <2>2, <2>3, WritesNothing DEF Orderly
  <2>4. CASE stack'[c] # << >>
    <3>1. Replaces(c) /\ g = [f EXCEPT !.pc = "remove"]
      BY <1>7, <2>4, StepTop DEF DelCheck, f, g
    <3>2. /\ g.pc = "remove" /\ g.call = "Del" /\ g.keys = f.keys /\ g.touched = f.touched
          /\ g.pipe = f.pipe /\ g.path = f.path
      BY <1>1, <3>1 DEF GoodFields
    <3>3. DelOk(U, db, h, g)
      BY <1>1, <2>1, <3>2 DEF DelOk, Takes
    <3> QED  BY <1>2, <2>1, <2>4, <3>1, <3>2, <3>3, WritesNothing
  <2> QED  BY <2>3, <2>4
<1> QED  BY <1>4, <1>5, <1>6, <1>7, DelActions, NoTurn

\* What the pattern of an exact prefix in U finds is spelled with the prefix.
LEMMA MatchesUnder ==
  ASSUME NEW U, OneNameEach(U), NEW p \in U \ {Root}, Exact(p), NEW q \in U, Matches(q, p)
  PROVE  Under(q, p)
<1> DEFINE m == Len(p)
           n == Len(q)
           a == Slash(p)
           b == Slash(q)
           x == Ancestor(q, m)
<1>1. p \in Paths \ {Root} /\ q \in Paths /\ p \in Seq(Child) /\ q \in Seq(Child)
  BY PathSeq DEF OneNameEach
<1>2. Under(b, a)
  BY <1>1 DEF Exact
<1>3. /\ a \in Seq(Child) /\ Len(a) = m /\ a[m] = DirChild(p[m]) /\ m \in Nat /\ m >= 1
      /\ p[m] \in Child /\ \A i \in 1 .. m - 1 : a[i] = p[i]
  BY <1>1, Respelled
<1>4. q # Root
  <2>1. m <= n /\ m # 0
    BY <1>1, <1>3, UnderMeans DEF Matches
  <2> QED  BY <1>3, <2>1 DEF Root
<1>5. /\ b \in Seq(Child) /\ Len(b) = n /\ b[n] = DirChild(q[n]) /\ n \in Nat /\ n >= 1
      /\ q[n] \in Child /\ \A i \in 1 .. n - 1 : b[i] = q[i]
  BY <1>1, <1>4, Respelled
<1> HIDE DEF a, b
<1>6. m <= n /\ \A i \in 1 .. m : b[i] = a[i]
  BY <1>2, <1>3, <1>5, UnderMeans
<1>7. \A i \in 1 .. m - 1 : q[i] = p[i]
  <2> TAKE i \in 1 .. m - 1
  <2>1. i \in 1 .. n - 1 /\ i \in 1 .. m
    BY <1>3, <1>5, <1>6
  <2> QED  BY <1>3, <1>5, <1>6, <2>1
<1>8. q[m].name = p[m].name
  <2>1. b[m] = a[m] /\ a[m].name = p[m].name
    BY <1>3, <1>6, ChildKinds
  <2>2. CASE m = n
    BY <1>5, <2>1, <2>2, ChildKinds
  <2>3. CASE m # n
    <3>1. m \in 1 .. n - 1
      BY <1>3, <1>5, <1>6, <2>3
    <3> QED  BY <1>5, <2>1, <3>1
  <2> QED  BY <2>2, <2>3
<1>9. m \in 1 .. n /\ m \in 0 .. n
  BY <1>3, <1>5, <1>6
<1>10. /\ x \in U /\ x \in Paths \ {Root} /\ Len(x) = m /\ Parent(x) = Ancestor(q, m - 1)
       /\ ChildName(x) = q[m] /\ Under(q, x)
  BY <1>1, <1>9, AncestorParent, AncestorUnder DEF OneNameEach
<1> HIDE DEF x
<1>11. Parent(x) = Parent(p)
  <2> DEFINE y == Ancestor(q, m - 1)
  <2>1. m - 1 \in 0 .. n
    BY <1>3, <1>5, <1>6
  <2>2. y \in Seq(Child) /\ Len(y) = m - 1 /\ \A i \in 1 .. m - 1 : y[i] = q[i]
    BY <1>1, <2>1, AncestorSeq, AncestorPath, PathSeq
  <2> HIDE DEF y
  <2>3. /\ Parent(p) \in Seq(Child) /\ Len(Parent(p)) = m - 1
        /\ \A i \in 1 .. m - 1 : Parent(p)[i] = p[i]
    BY <1>1, ParentSeq
  <2>4. y = Parent(p)
    BY <1>7, <2>2, <2>3, SeqEqual
  <2> QED  BY <1>10, <2>4 DEF y
<1>12. ChildName(p) = p[m]
  BY DEF ChildName, Last
<1>13. x = p
  BY <1>8, <1>10, <1>11, <1>12, SameName
<1> QED  BY <1>10, <1>13

\* Writes below p change nothing of the keys that are not there.
LEMMA ElsewhereTidy ==
  ASSUME NEW U, NEW h \in Dirs, NEW t, NEW p \in Paths, TidyBut(t, h, {p}), NEW u,
         \A q \in Paths : ~ Under(q, p) => u[q] = t[q]
  PROVE  TidyBut(u, h, {p})
<1> SUFFICES ASSUME NEW x \in Paths, Inner(h, x), ~ Under(x, p)
             PROVE  Agrees(u, x)
  BY DEF TidyBut
<1>1. Agrees(t, x)
  BY DEF TidyBut
<1>2. x # Root /\ Parent(x) \in Paths
  BY InnerPath DEF Dirs
<1>3. ~ Under(Parent(x), p)
  BY <1>2, UnderParent
<1>4. u[x] = t[x] /\ u[Parent(x)] = t[Parent(x)]
  BY <1>2, <1>3
<1> QED  BY <1>1, <1>4 DEF Agrees, Noted, Present, DirIndex, ValueAt

\* Nothing is left below p: its name is to go.
LEMMA UnlistTidy ==
  ASSUME NEW U, OneNameEach(U), NEW h \in Dirs, NEW t, FitDb(U, t), NEW p \in U, Inner(h, p),
         TidyBut(t, h, {p}), Below(t, p) = {}
  PROVE  Settles(U, t, h, RemoveChild(t, p))
<1> DEFINE rc == RemoveChild(t, p)
           u == After(t, rc)
           d == Parent(p)
           T == {p}
<1>1. /\ p \in Paths \ {Root} /\ d \in Dirs /\ d \in Paths /\ Under(d, h) /\ GoodDb(t)
      /\ ~ Under(d, p) /\ Under(p, p)
  BY InnerPath, UnderItself DEF OneNameEach, FitDb, Dirs
<1>2. /\ \A i \in DOMAIN rc : rc[i].key = d /\ Fit(U, d, rc[i].val)
      /\ Final(t, rc, d).kids = OtherNames(t, p) /\ Final(t, rc, d).kind = ValueAt(t, d).kind
  BY <1>1, RemovedValue
<1>3. rc \in Seq(GoodWrite)
  BY <1>1, RemoveChildType
<1> HIDE DEF rc
<1>4. PipeFit(U, h, rc)
  BY <1>1, <1>2 DEF PipeFit
<1>5. FitDb(U, u) /\ \A q \in Paths : ValueAt(u, q) = Final(t, rc, q) /\ u[q] = Final(t, rc, q)
  BY <1>1, <1>3, <1>4, AfterFit, AfterValue DEF ValueAt
<1> HIDE DEF u
<1>6. ASSUME NEW q \in Paths, q # d
      PROVE  u[q] = t[q]
  <2>1. Final(t, rc, q) = ValueAt(t, q)
    BY <1>2, <1>6, FinalNone
  <2> QED  BY <1>5, <2>1 DEF ValueAt
<1>7. ASSUME NEW q \in Paths, Under(q, p)
      PROVE  ~ Present(u, q)
  <2>1. ~ Present(t, q)
    BY <1>7 DEF Below, Keys
  <2>2. u[q] = t[q]
    BY <1>1, <1>6, <1>7
  <2> QED  BY <2>1, <2>2 DEF Present, ValueAt
<1>8. DirIndex(u, d) = OtherNames(t, p) /\ (Present(u, d) => Present(t, d))
  <2>1. ValueAt(u, d) = Final(t, rc, d)
    BY <1>1, <1>5
  <2> QED  BY <1>2, <2>1 DEF DirIndex, Present
<1>9. /\ \A x \in T : Inner(h, x) /\ \A q \in Paths : Under(q, x) => ~ Present(u, q)
      /\ \A x \in T : DirIndex(u, Parent(x)) = OtherNames(t, x)
                      /\ (Present(u, Parent(x)) => Present(t, Parent(x)))
  BY <1>7, <1>8
<1>10. \A q \in U : Under(q, h) /\ (\A x \in T : ~ Under(q, x) /\ Parent(x) # q) => u[q] = t[q]
  BY <1>6 DEF OneNameEach
<1>11. T \in SUBSET U /\ TidyBut(t, h, T)
  OBVIOUS
<1> HIDE DEF T
<1>12. Tidy(u, h)
  BY <1>5, <1>9, <1>10, <1>11, RemovedTidy
<1> QED  BY <1>4, <1>12 DEF Settles, u, rc

\* A key below h is deleted.
LEMMA WritesAbsent ==
  ASSUME NEW U, FitDb(U, db), NEW h, NEW q \in Paths, Under(q, h),
         db' = [db EXCEPT ![q] = Absent]
  PROVE  Writes(U, h)
<1>1. \A x \in Paths : db'[x] = IF x = q THEN Absent ELSE db[x]
  BY DEF FitDb, GoodDb
<1>2. \A x : Fit(U, x, Absent)
  BY PlainValues DEF Fit
<1> QED  BY <1>1, <1>2 DEF Writes, FitDb

\* What is left of the keys below p when q is deleted.
LEMMA BelowAbsent ==
  ASSUME NEW t, GoodDb(t), NEW p, NEW q \in Paths, NEW u, u = [t EXCEPT ![q] = Absent]
  PROVE  Below(u, p) \subseteq Below(t, p) /\ q \notin Below(u, p)
BY PlainValues, BelowAfter

LEMMA HomeTree ==
  ASSUME TypeInv, NEW U, OneNameEach(U), FitDb(U, db), LinkTargets = {},
         NEW h \in Dirs, NEW c \in Clients, Step(c), Top(c).call = "DelTree",
         Len(stack[c]) = 1, TreeOk(U, db, h, stack[c][1])
  PROVE  Writes(U, h) /\ Orderly(U, db', h, stack'[c])
<1> DEFINE f == Top(c)
           g == stack'[c][1]
           p == f.path
           Next1 == stack'[c] # << >> /\ Replaces(c) /\ g.call = "DelTree" /\ g.path = p
<1>1. /\ f \in GoodFields /\ OnRoute(f) /\ TreeOk(U, db, h, f) /\ f.call = "DelTree"
      /\ GoodDb(db) /\ p \in Paths \ {Root} /\ p \in U /\ Inner(h, p) /\ Exact(p)
  <2>1. /\ f \in GoodFields /\ OnRoute(f) /\ GoodDb(db) /\ p \in Paths \ {Root}
        /\ TreeOk(U, db, h, f)
    BY StepTop
  <2> HIDE DEF f
  <2>2. p \in U /\ Inner(h, p) /\ Exact(p)
    BY <2>1 DEF TreeOk
  <2> QED  BY <2>1, <2>2 DEF f
<1>2. ASSUME Next1, g.pc # "returned", TreeOk(U, db', h, g)
      PROVE  Orderly(U, db', h, stack'[c])
  BY <1>2 DEF Replaces, Orderly, CallOk
<1>3. \A k : Continue(c, k) => stack'[c] # << >> /\ Replaces(c) /\ g = k
  BY StepTop
<1>4. Under(p, h) /\ Under(p, p)
  BY <1>1, UnderItself DEF Inner
<1> HIDE DEF f, g
<1>5. CASE DelTreeLink(c)
  <2>1. f.pc = "link" /\ db' = db
    BY <1>5 DEF DelTreeLink, At, f
  <2>2. ValueAt(db, AsFile(p)).kind # "ptr"
    BY <1>1, ValueAtType DEF GoodValue
  <2>3. g = [f EXCEPT !.pc = "resolve"] /\ stack'[c] # << >> /\ Replaces(c)
    BY <1>3, <1>5, <2>2 DEF DelTreeLink, f
  <2>4. Next1 /\ g.pc = "resolve" /\ g.at = f.at
    BY <1>1, <2>3 DEF GoodFields
  <2>5. TreeOk(U, db, h, g)
    BY <1>1, <2>1, <2>4 DEF TreeOk
  <2> QED  BY <1>2, <2>1, <2>4, <2>5, WritesNothing
<1>6. CASE DelTreeScan(c)
  <2> DEFINE doomed == {q \in Keys(db) : Matches(q, p)} \ {p}
  <2>1. f.pc = "resolve" /\ db' = db
    BY <1>6 DEF DelTreeScan, Resolved, At, f
  <2>2. /\ g = [f EXCEPT !.pc = "exec", !.touched = {p}, !.pipe = <<DelKey(p)>>, !.doomed = doomed]
        /\ stack'[c] # << >> /\ Replaces(c)
    BY <1>3, <1>6 DEF DelTreeScan, f
  <2>3. Below(db, p) \subseteq doomed \cup {p}
    BY <1>1, UnderMatches DEF Exact, Below, Keys
  <2>4. \A q \in doomed : Under(q, p)
    <3> TAKE q \in doomed
    <3>1. q \in Paths /\ Present(db, q) /\ Matches(q, p)
      BY DEF Keys
    <3>2. q \in U
      BY <3>1, KeyValue
    <3> QED  BY <1>1, <3>1, <3>2, MatchesUnder
  <2> HIDE DEF doomed
  <2>5. Next1 /\ g.pc = "exec" /\ g.at = f.at /\ g.pipe = <<DelKey(p)>> /\ g.doomed = doomed
    BY <1>1, <2>2 DEF GoodFields
  <2>6. Tidy(db, h) /\ f.at = 1
    BY <1>1, <2>1 DEF TreeOk
  <2>7. TidyBut(db, h, {p})
    BY <2>6 DEF Tidy, TidyBut
  <2>8. TreeOk(U, db, h, g)
    BY <1>1, <2>3, <2>4, <2>5, <2>6, <2>7 DEF TreeOk
  <2> QED  BY <1>2, <2>1, <2>5, <2>8, WritesNothing
<1>7. CASE DelTreeUnlist(c)
  <2> DEFINE pipe == RemoveChild(db, p)
  <2>1. f.pc = "unlist" /\ db' = db /\ f.doomed = {}
    BY <1>1, <1>7 DEF DelTreeUnlist, At, f, OnRoute
  <2>2. Parent(p) \in Dirs /\ Parent(p) \in Paths
    BY <1>1, ParentDir DEF Dirs
  <2>3. ~ NoIndex(db, Parent(p))
    BY <2>2, KeyValue
  <2>4. g = [f EXCEPT !.pc = "exec", !.at = 2, !.pipe = pipe] /\ stack'[c] # << >> /\ Replaces(c)
    BY <1>3, <1>7, <2>3 DEF DelTreeUnlist, f
  <2>5. TidyBut(db, h, {p}) /\ Below(db, p) = {}
    BY <1>1, <2>1 DEF TreeOk
  <2>6. Settles(U, db, h, pipe)
    BY <1>1, <2>5, UnlistTidy
  <2> HIDE DEF pipe
  <2>7. Next1 /\ g.pc = "exec" /\ g.at = 2 /\ g.pipe = pipe /\ g.doomed = {}
    BY <1>1, <2>1, <2>4 DEF GoodFields
  <2>8. TreeOk(U, db, h, g)
    BY <1>1, <2>6, <2>7 DEF TreeOk
  <2> QED  BY <1>2, <2>1, <2>7, <2>8, WritesNothing
<1>8. CASE ExecCommand(c)
  <2>1. /\ stack'[c] # << >> /\ Replaces(c) /\ db' = Sent(db, f.pipe) /\ Executed(f, g)
        /\ g.call = "DelTree" /\ g.at = f.at /\ g.doomed = f.doomed
    BY <1>1, <1>8, SentFrame DEF f, g
  <2>2. /\ f.pc = "exec" /\ f.pipe # << >> /\ g.pc = "exec" /\ g.pipe = Tail(f.pipe) /\ g.path = p
        /\ f.pipe \in Seq(GoodWrite)
    BY <1>1, <2>1 DEF Executed, GoodFields
  <2> DEFINE u == db'
  <2>3. u = Sent(db, f.pipe)
    BY <2>1
  <2>4. CASE f.at = 1
    <3>1. /\ TidyBut(db, h, {p}) /\ \A q \in f.doomed : Under(q, p)
          /\ f.pipe = <<DelKey(p)>> /\ Below(db, p) \subseteq f.doomed \cup {p}
      BY <1>1, <2>2, <2>4 DEF TreeOk
    <3>2. Head(f.pipe).key = p /\ Head(f.pipe).val = Absent /\ Tail(f.pipe) = << >>
      BY <3>1 DEF DelKey
    <3>3. u = [db EXCEPT ![p] = Absent]
      BY <2>3, <3>2 DEF Sent
    <3>4. Writes(U, h)
      BY <1>1, <1>4, <3>3, WritesAbsent
    <3> HIDE DEF u
    <3>5. Below(u, p) \subseteq Below(db, p) /\ p \notin Below(u, p)
      <4>1. PICK x \in Paths : x = p
        BY <1>1
      <4>2. u = [db EXCEPT ![x] = Absent] /\ GoodDb(db)
        BY <1>1, <3>3, <4>1
      <4>3. Below(u, p) \subseteq Below(db, p) /\ x \notin Below(u, p)
        BY <4>2, BelowAbsent
      <4> QED  BY <4>1, <4>3
    <3>6. TidyBut(u, h, {p})
      <4>1. \A x \in Paths : ~ Under(x, p) => u[x] = db[x]
        BY <1>1, <1>4, <3>3 DEF GoodDb
      <4> QED  BY <1>1, <3>1, <4>1, ElsewhereTidy
    <3>7. TreeOk(U, u, h, g)
      BY <1>1, <2>1, <2>2, <2>4, <3>1, <3>2, <3>5, <3>6 DEF TreeOk
    <3> QED  BY <1>2, <2>1, <2>2, <3>4, <3>7 DEF u
  <2>5. CASE f.at # 1
    <3>1. Settles(U, db, h, f.pipe) /\ f.doomed = {}
      BY <1>1, <2>2, <2>5 DEF TreeOk
    <3>2. Writes(U, h)
      BY <2>1, <2>2, <3>1, WritesSent
    <3> HIDE DEF u
    <3>3. Settles(U, u, h, Tail(f.pipe))
      BY <2>2, <2>3, <3>1, SettlesStep
    <3>4. TreeOk(U, u, h, g)
      BY <1>1, <2>1, <2>2, <2>5, <3>1, <3>3 DEF TreeOk
    <3> QED  BY <1>2, <2>1, <2>2, <3>2, <3>4 DEF u
  <2> QED  BY <2>4, <2>5
<1>9. CASE ExecDoomed(c)
  <2>1. PICK q \in f.doomed : /\ db' = [db EXCEPT ![q] = Absent]
                              /\ Continue(c, [f EXCEPT !.doomed = @ \ {q}])
    BY <1>9 DEF ExecDoomed, f
  <2>2. f.pc = "exec" /\ f.pipe = << >> /\ q \in Paths
    BY <1>1, <1>9 DEF ExecDoomed, At, GoodFields, f
  <2>3. stack'[c] # << >> /\ Replaces(c) /\ g = [f EXCEPT !.doomed = @ \ {q}]
    BY <1>3, <2>1
  <2>4. Next1 /\ g.pc = "exec" /\ g.at = f.at /\ g.pipe = << >> /\ g.doomed = f.doomed \ {q}
    BY <1>1, <2>2, <2>3 DEF GoodFields
  <2>5. f.at = 1
    BY <1>1, <2>1, <2>2 DEF TreeOk
  <2>6. /\ TidyBut(db, h, {p}) /\ (\A x \in f.doomed : Under(x, p))
        /\ Below(db, p) \subseteq f.doomed
    <3>1. << >> # <<DelKey(p)>>
      OBVIOUS
    <3> QED  BY <1>1, <2>2, <2>5, <3>1 DEF TreeOk
  <2>7. Under(q, p) /\ Under(q, h)
    BY <1>1, <2>1, <2>2, <2>6, InnerUnder DEF Inner
  <2>8. Writes(U, h)
    BY <2>1, <2>2, <2>7, WritesAbsent
  <2> DEFINE u == db'
  <2>9. u = [db EXCEPT ![q] = Absent]
    BY <2>1
  <2> HIDE DEF u
  <2>10. Below(u, p) \subseteq Below(db, p) /\ q \notin Below(u, p)
    BY <1>1, <2>2, <2>9, BelowAbsent
  <2>11. TidyBut(u, h, {p})
    <3>1. \A x \in Paths : ~ Under(x, p) => u[x] = db[x]
      BY <1>1, <2>7, <2>9 DEF GoodDb
    <3> QED  BY <1>1, <2>6, <3>1, ElsewhereTidy
  <2>12. TreeOk(U, u, h, g)
    BY <1>1, <2>4, <2>5, <2>6, <2>10, <2>11 DEF TreeOk
  <2> QED  BY <1>2, <2>4, <2>8, <2>12 DEF u
<1>10. CASE ExecDone(c)
  <2>1. f.pc = "exec" /\ f.pipe = << >> /\ f.doomed = {} /\ db' = db
    BY <1>10 DEF ExecDone, At, f
  <2>2. CASE f.at = 1
    <3>1. g = [f EXCEPT !.pc = "unlist"] /\ stack'[c] # << >> /\ Replaces(c)
      BY <1>1, <1>3, <1>10, <2>2 DEF ExecDone, f
    <3>2. Next1 /\ g.pc = "unlist" /\ g.at = 1
      BY <1>1, <2>2, <3>1 DEF GoodFields
    <3>3. TidyBut(db, h, {p}) /\ Below(db, p) = {}
      <4>1. << >> # <<DelKey(p)>>
        OBVIOUS
      <4> QED  BY <1>1, <2>1, <2>2, <4>1 DEF TreeOk
    <3>4. TreeOk(U, db, h, g)
      BY <1>1, <3>2, <3>3 DEF TreeOk
    <3> QED  BY <1>2, <2>1, <3>2, <3>4, WritesNothing
  <2>3. CASE f.at # 1
    <3>1. Return(c, f)
      BY <1>1, <1>10, <2>3 DEF ExecDone, f
    <3>2. stack'[c] # << >> /\ g.pc = "returned"
      BY <3>1, ReturnAlone DEF f, g
    <3>3. Settles(U, db, h, << >>)
      BY <1>1, <2>1, <2>3 DEF TreeOk
    <3>4. Tidy(db, h)
      BY <3>3, SettledTidy
    <3> QED  BY <2>1, <3>2, <3>4, WritesNothing DEF Orderly, g
  <2> QED  BY <2>2, <2>3
<1> QED  BY <1>5, <1>6, <1>7, <1>8, <1>9, <1>10, DelTreeActions, NoTurn

-----------------------------------------------------------------------------
(* Mkindex of a client at home *)

LEMMA MkindexActions ==
  ASSUME TypeInv, NEW c \in Clients, Step(c), Top(c).call = "Mkindex"
  PROVE  FollowLink(c) \/ MkindexPrepare(c) \/ MkindexNext(c) \/ ExecCommand(c) \/ ExecDone(c)
<1>1. Busy(c) => OnRoute(Top(c))
  BY TopType
<1>2. ~ EnsureListed(c) /\ ~ EnsureMissing(c) /\ ~ SetParent(c)
      /\ ~ ExtIndexTarget(c) /\ ~ DelQueue(c) /\ ~ DelTreeLink(c) /\ ~ DelTreeUnlist(c)
  BY <1>1 DEF EnsureListed, EnsureMissing, SetParent, ExtIndexTarget, DelQueue, DelTreeLink,
              DelTreeUnlist, At, OnRoute
<1>3. ~ SetPrepare(c) /\ ~ SetQueue(c) /\ ~ DelCheck(c) /\ ~ DelTreeScan(c)
      /\ ~ DelExtQueue(c) /\ ~ ExtIndexPrepare(c) /\ ~ ExtIndexQueue(c)
  BY DEF SetPrepare, SetQueue, DelTreeScan, DelCheck, DelExtQueue, ExtIndexPrepare,
         ExtIndexQueue, Resolved, ResolvedParent, Ensured
<1>4. ~ ExecDoomed(c)
  BY <1>1 DEF ExecDoomed, At, OnRoute
<1> QED  BY <1>2, <1>3, <1>4 DEF Step

\* The name of an empty directory is put into the index of its parent.
LEMMA AddedTidy ==
  ASSUME NEW U, OneNameEach(U), NEW h \in Dirs, NEW t, FitDb(U, t), Tidy(t, h),
         NEW p \in U, Inner(h, p), IsDir(p), DirIndex(t, p) = {}, Hung(t, h, Parent(p)),
         ~ Noted(t, p)
  PROVE  Settles(U, t, h, AddChild(t, p)) /\ Noted(After(t, AddChild(t, p)), p)
<1> DEFINE d == Parent(p)
           w == Named(t, d, {p})
           pipe == <<w>>
           u == After(t, pipe)
           T == {p}
<1>1. /\ p \in Paths \ {Root} /\ d \in Dirs /\ d \in Paths /\ Under(d, h) /\ GoodDb(t)
      /\ d \in U /\ d # p
  <2>1. p \in Paths /\ p # Root
    BY InnerPath DEF OneNameEach
  <2>2. d # p
    BY <2>1, ChildInner DEF Inner
  <2> QED  BY <2>1, <2>2, InnerPath, InUsed DEF FitDb, Dirs
<1>2. NamesIn(T, d) = {ChildName(p)}
  BY DEF NamesIn
<1>3. /\ w.key = d /\ w \in GoodWrite /\ w.val = WithNames(t, d, {ChildName(p)})
      /\ w.val.kids = DirIndex(t, d) \cup {ChildName(p)}
  <2> HIDE DEF T
  <2>1. T \in SUBSET (Paths \ {Root}) /\ w = Named(t, d, T)
    BY <1>1 DEF T
  <2> HIDE DEF w, d
  <2>2. /\ Named(t, d, T).key = d /\ Named(t, d, T) \in GoodWrite
        /\ Named(t, d, T).val = WithNames(t, d, NamesIn(T, d))
        /\ Named(t, d, T).val.kids = DirIndex(t, d) \cup NamesIn(T, d)
    BY <1>1, <2>1, NamedValue
  <2> QED  BY <1>2, <2>1, <2>2
<1>4. AddChild(t, p) = pipe
  <2>1. Named(t, d, {p}) = [key |-> d, val |-> WithNames(t, d, {ChildName(p)})]
    BY <1>2 DEF Named, NamesIn
  <2> QED  BY <2>1 DEF AddChild, Noted
<1>5. Fit(U, d, w.val)
  <2>1. ChildName(p) \in Child /\ Append(d, ChildName(p)) = p
    BY <1>1, PathSeq, ChildNameType, AppendName
  <2>2. {ChildName(p)} \in SUBSET Child /\ \A k \in {ChildName(p)} : Append(d, k) \in U
    BY <2>1
  <2> QED  BY <1>1, <1>3, <2>2, IndexFit
<1> HIDE DEF w
<1>6. pipe \in Seq(GoodWrite) /\ DOMAIN pipe = {1} /\ pipe[1] = w
  BY <1>3
<1> HIDE DEF pipe
<1>7. PipeFit(U, h, pipe)
  BY <1>1, <1>3, <1>5, <1>6 DEF PipeFit
<1>8. FitDb(U, u) /\ \A q \in Paths : ValueAt(u, q) = Final(t, pipe, q) /\ u[q] = Final(t, pipe, q)
  BY <1>1, <1>6, <1>7, AfterFit, AfterValue DEF ValueAt
<1> HIDE DEF u
<1>9. Final(t, pipe, d) = w.val
  <2>1. LastWrite(pipe, d, 1)
    BY <1>3, <1>6 DEF LastWrite
  <2> QED  BY <1>6, <2>1, FinalLast
<1>10. ASSUME NEW q \in Paths, q # d
       PROVE  u[q] = t[q]
  <2>1. Final(t, pipe, q) = ValueAt(t, q)
    BY <1>3, <1>6, <1>10, FinalNone
  <2> QED  BY <1>8, <2>1 DEF ValueAt
<1>11. DirIndex(u, d) = DirIndex(t, d) \cup NamesIn(T, d)
  <2>1. ValueAt(u, d) = w.val
    BY <1>1, <1>8, <1>9
  <2> QED  BY <1>2, <1>3, <2>1 DEF DirIndex
<1>12. DirIndex(u, p) = {}
  <2>1. u[p] = t[p]
    BY <1>1, <1>10
  <2> QED  BY <1>1, <2>1 DEF DirIndex, ValueAt
<1>13. \A x \in T :
          /\ Inner(h, x) /\ Hung(t, h, Parent(x)) /\ Parent(x) \notin T
          /\ IsDir(x) => DirIndex(t, x) = {} /\ DirIndex(u, x) = {}
          /\ ~ IsDir(x) => Present(u, x)
          /\ DirIndex(u, Parent(x)) = DirIndex(t, Parent(x)) \cup NamesIn(T, Parent(x))
  BY <1>1, <1>11, <1>12
<1>14. \A q \in Paths : Under(q, h) /\ q \notin T /\ (\A x \in T : Parent(x) # q) => u[q] = t[q]
  BY <1>10
<1>15. T \in SUBSET Paths /\ p \in T
  BY <1>1
<1> HIDE DEF T
<1>16. Tidy(u, h) /\ Noted(u, p)
  BY <1>8, <1>13, <1>14, <1>15, NamedTidy
<1> QED  BY <1>4, <1>7, <1>16 DEF Settles, u

\* The next directory of the path of Mkindex.
LEMMA MkindexHere ==
  ASSUME NEW U, OneNameEach(U), NEW h \in Dirs, NEW t, NEW f \in GoodFields, MkOk(U, t, h, f),
         f.at <= Len(f.path)
  PROVE  /\ Slash(Ancestor(f.path, f.at)) = Ancestor(f.path, f.at)
         /\ Ancestor(f.path, f.at) \in U /\ Ancestor(f.path, f.at) \in Dirs
         /\ Ancestor(f.path, f.at) \in Paths \ {Root}
         /\ Parent(Ancestor(f.path, f.at)) = Ancestor(f.path, f.at - 1)
         /\ f.at \in 1 .. Len(f.path)
<1> DEFINE p == f.path
           n == f.at
           a == Ancestor(p, n)
<1>1. p \in Paths /\ p \in U /\ Inner(h, p) /\ IsDir(p) /\ Len(p) \in Nat /\ p # Root
  BY InnerPath, PathSeq DEF MkOk, GoodFields
<1>2. n \in 1 .. Len(p) /\ n \in 0 .. Len(p)
  BY <1>1 DEF GoodFields
<1>3. a \in Paths \ {Root} /\ Parent(a) = Ancestor(p, n - 1) /\ a \in U
  BY <1>1, <1>2, AncestorParent DEF OneNameEach
<1>4. a \in Dirs
  <2>1. CASE n = Len(p)
    <3>1. Ancestor(p, Len(p)) = p
      BY <1>1, ParentAncestor
    <3> QED  BY <1>1, <2>1, <3>1 DEF Dirs
  <2>2. CASE n # Len(p)
    BY <1>1, <1>2, <2>2, AncestorDir
  <2> QED  BY <2>1, <2>2
<1> HIDE DEF a
<1>5. Slash(a) = a
  <2>1. a \in Seq(Child) /\ a # Root
    BY <1>3, PathSeq
  <2>2. a[Len(a)].dir
    BY <1>3, <1>4 DEF Dirs, IsDir
  <2> QED  BY <2>1, <2>2, SlashDir
<1> QED  BY <1>2, <1>3, <1>4, <1>5 DEF a

\* Mkindex goes on, or has queued the name of the directory that it is at.
NextIndex(t, f, g) ==
    LET a == Ancestor(f.path, f.at)
    IN  /\ g.at = f.at + 1 /\ g.path = f.path
        /\ \/ DirIndex(t, a) # {} /\ g.pc = "mkindex"
           \/ DirIndex(t, a) = {} /\ g.pc = "exec" /\ g.pipe = AddChild(t, a)

LEMMA IndexFrame ==
  ASSUME TypeInv, NEW U, OneNameEach(U), FitDb(U, db), LinkTargets = {}, NEW h \in Dirs,
         NEW c \in Clients, Step(c), Top(c).call = "Mkindex", MkOk(U, db, h, Top(c)),
         Top(c).at <= Len(Top(c).path),
         MkindexNext(c)
  PROVE  /\ stack'[c] # << >> /\ Replaces(c) /\ db' = db
         /\ NextIndex(db, Top(c), stack'[c][1]) /\ stack'[c][1].call = "Mkindex"
<1> DEFINE f == Top(c)
           a == Ancestor(f.path, f.at)
           pipe == AddChild(db, a)
           on == [f EXCEPT !.at = @ + 1]
           add == [f EXCEPT !.pc = "exec", !.at = @ + 1, !.pipe = pipe]
           g == stack'[c][1]
<1>1. /\ f \in GoodFields /\ f.at \in Nat
      /\ \A k : Continue(c, k) => stack'[c] # << >> /\ Replaces(c) /\ g = k
  BY StepTop DEF GoodFields
<1>2. /\ Slash(a) = a /\ a \in Dirs /\ a \in Paths \ {Root}
      /\ Parent(a) \in Dirs /\ Parent(a) \in Paths
  BY <1>1, MkindexHere, ParentDir DEF Dirs
<1>3. ~ NoIndex(db, a) /\ ~ NoIndex(db, Parent(a))
  BY <1>2, KeyValue
<1>4. /\ f.pc = "mkindex" /\ db' = db /\ ~ (f.at > Len(f.path))
      /\ \/ DirIndex(db, a) # {} /\ Continue(c, on)
         \/ DirIndex(db, a) = {} /\ Continue(c, add)
  <2>1. f.path \in Seq(Child) /\ Len(f.path) \in Nat
    BY <1>1, PathSeq DEF GoodFields
  <2>2. ~ (f.at > Len(f.path))
    BY <1>1, <2>1
  <2> QED  BY <1>2, <1>3, <2>2 DEF MkindexNext, At
<1>5. /\ on.at = f.at + 1 /\ on.path = f.path /\ on.pc = f.pc /\ on.call = f.call
      /\ add.at = f.at + 1 /\ add.path = f.path /\ add.pc = "exec" /\ add.call = f.call
      /\ add.pipe = pipe
  <2> HIDE DEF pipe
  <2> QED  BY <1>1 DEF GoodFields
<1>6. CASE DirIndex(db, a) # {} /\ Continue(c, on)
  <2>1. stack'[c] # << >> /\ Replaces(c) /\ g = on
    BY <1>1, <1>6
  <2> HIDE DEF g, on
  <2>2. NextIndex(db, f, g) /\ g.call = "Mkindex"
    BY <1>4, <1>5, <1>6, <2>1 DEF NextIndex
  <2> QED  BY <1>4, <2>1, <2>2 DEF g
<1>7. CASE DirIndex(db, a) = {} /\ Continue(c, add)
  <2>1. stack'[c] # << >> /\ Replaces(c) /\ g = add
    BY <1>1, <1>7
  <2> HIDE DEF g, add
  <2>2. NextIndex(db, f, g) /\ g.call = "Mkindex"
    BY <1>4, <1>5, <1>7, <2>1 DEF NextIndex
  <2> QED  BY <1>4, <2>1, <2>2 DEF g
<1> QED  BY <1>4, <1>6, <1>7

LEMMA HomeIndex ==
  ASSUME NEW U, OneNameEach(U), NEW h \in Dirs, NEW t, FitDb(U, t), ListedUp(t, h),
         NEW f \in GoodFields, f.at <= Len(f.path), f.pc = "mkindex", MkOk(U, t, h, f),
         NEW g, NextIndex(t, f, g)
  PROVE  MkOk(U, t, h, g)
<1> DEFINE a == Ancestor(f.path, f.at)
           pipe == AddChild(t, a)
<1>1. /\ Inner(h, f.path) /\ f.path \in U /\ IsDir(f.path) /\ f.path \in Paths /\ GoodDb(t)
      /\ Tidy(t, h) /\ Hung(t, h, Ancestor(f.path, f.at - 1)) /\ f.at \in Nat
  BY DEF MkOk, FitDb, GoodFields
<1>2. /\ a \in U /\ a \in Dirs /\ a \in Paths \ {Root} /\ Parent(a) = Ancestor(f.path, f.at - 1)
      /\ f.at \in 1 .. Len(f.path) /\ IsDir(a)
  BY MkindexHere DEF Dirs
<1>3. /\ g.at - 1 = f.at /\ g.path = f.path /\ g.pc \in {"mkindex", "exec"}
      /\ g.at - 1 \in 0 .. Len(f.path)
  BY <1>1, <1>2 DEF NextIndex
<1>4. CASE g.pc = "mkindex"
  <2>1. DirIndex(t, a) # {}
    BY <1>4 DEF NextIndex
  <2>2. Present(t, a)
    BY <1>2, <2>1, KeyValue
  <2>3. Hung(t, h, a)
    BY <1>1, <1>2, <2>2 DEF Hung, Tidy, TidyBut, Agrees
  <2> QED  BY <1>1, <1>3, <1>4, <2>3 DEF MkOk
<1>5. CASE g.pc = "exec"
  <2>1. DirIndex(t, a) = {} /\ g.pipe = pipe
    BY <1>5 DEF NextIndex
  <2>2. Settles(U, t, h, pipe) /\ Noted(After(t, pipe), a)
    <3>1. CASE Noted(t, a)
      <4>1. pipe = << >>
        BY <3>1 DEF AddChild, Noted
      <4>2. After(t, << >>) = t
        BY <1>1, AfterNone
      <4>3. Settles(U, t, h, << >>)
        BY <1>1, <4>2 DEF Settles, PipeFit
      <4> QED  BY <3>1, <4>1, <4>2, <4>3
    <3>2. CASE ~ Noted(t, a)
      <4>1. Inner(h, a)
        BY <1>1, <1>2, <3>2, MissingInner DEF Inner
      <4>2. Hung(t, h, Parent(a))
        BY <1>1, <1>2
      <4> HIDE DEF a
      <4> QED  BY <1>1, <1>2, <2>1, <3>2, <4>1, <4>2, AddedTidy
    <3> QED  BY <3>1, <3>2
  <2> HIDE DEF pipe, a
  <2>3. Hung(After(t, pipe), h, a)
    BY <2>2 DEF Hung
  <2>4. a = Ancestor(g.path, g.at - 1)
    BY <1>3 DEF a
  <2> QED  BY <1>1, <1>3, <1>5, <2>1, <2>2, <2>3, <2>4 DEF MkOk
<1> QED  BY <1>3, <1>4, <1>5

LEMMA HomeMkindex ==
  ASSUME TypeInv, NEW U, OneNameEach(U), FitDb(U, db), LinkTargets = {},
         NEW h \in Dirs, ListedUp(db, h), NEW c \in Clients, Step(c), Top(c).call = "Mkindex",
         Len(stack[c]) = 1, MkOk(U, db, h, stack[c][1])
  PROVE  Writes(U, h) /\ Orderly(U, db', h, stack'[c])
<1> DEFINE f == Top(c)
           g == stack'[c][1]
<1>1. f \in GoodFields /\ OnRoute(f) /\ MkOk(U, db, h, f) /\ f.call = "Mkindex"
  BY StepTop
<1>2. ASSUME stack'[c] # << >>, Replaces(c), g.call = "Mkindex", g.pc # "returned",
             MkOk(U, db', h, g)
      PROVE  Orderly(U, db', h, stack'[c])
  BY <1>2 DEF Replaces, Orderly, CallOk
<1>3. \A k : Continue(c, k) => stack'[c] # << >> /\ Replaces(c) /\ g = k
  BY StepTop
<1> HIDE DEF f, g
<1>4. CASE MkindexPrepare(c)
  <2>1. /\ f.pc = "resolve" /\ db' = db /\ g = [f EXCEPT !.pc = "mkindex"]
        /\ stack'[c] # << >> /\ Replaces(c)
    BY <1>3, <1>4 DEF MkindexPrepare, Resolved, At, f
  <2>2. g.pc = "mkindex" /\ g.call = f.call /\ g.path = f.path /\ g.at = f.at
    BY <1>1, <2>1 DEF GoodFields
  <2>3. MkOk(U, db, h, g)
    BY <1>1, <2>1, <2>2 DEF MkOk
  <2> QED  BY <1>1, <1>2, <2>1, <2>2, <2>3, WritesNothing
<1>5. CASE MkindexNext(c) /\ ~ (f.at > Len(f.path))
  <2>1. f.at <= Len(f.path) /\ f.pc = "mkindex"
    <3>1. f.at \in Nat /\ Len(f.path) \in Nat
      BY <1>1, PathSeq DEF GoodFields
    <3> QED  BY <1>5, <3>1 DEF MkindexNext, At, f
  <2>2. /\ stack'[c] # << >> /\ Replaces(c) /\ db' = db /\ NextIndex(db, f, g) /\ g.call = "Mkindex"
    BY <1>1, <1>5, <2>1, IndexFrame DEF f, g
  <2>3. MkOk(U, db, h, g)
    BY <1>1, <2>1, <2>2, HomeIndex
  <2>4. g.pc # "returned"
    BY <2>2 DEF NextIndex
  <2> QED  BY <1>2, <2>2, <2>3, <2>4, WritesNothing
<1>6. CASE MkindexNext(c) /\ f.at > Len(f.path)
  <2>1. Return(c, f) /\ db' = db /\ f.pc = "mkindex"
    BY <1>6 DEF MkindexNext, At, f
  <2>2. stack'[c] # << >> /\ g.pc = "returned"
    BY <2>1, ReturnAlone DEF f, g
  <2>3. Tidy(db, h)
    BY <1>1, <2>1 DEF MkOk
  <2> QED  BY <2>1, <2>2, <2>3, WritesNothing DEF Orderly, g
<1>7. CASE ExecCommand(c)
  <2>1. /\ stack'[c] # << >> /\ Replaces(c) /\ db' = Sent(db, f.pipe) /\ Executed(f, g)
        /\ g.call = "Mkindex" /\ g.at = f.at
    BY <1>1, <1>7, SentFrame DEF f, g
  <2>2. f.pc = "exec" /\ f.pipe # << >> /\ g.pc = "exec" /\ g.pipe = Tail(f.pipe) /\ g.path = f.path
        /\ f.pipe \in Seq(GoodWrite) /\ Settles(U, db, h, f.pipe)
    BY <1>1, <2>1 DEF Executed, GoodFields, MkOk
  <2> DEFINE u == db'
  <2>3. u = Sent(db, f.pipe)
    BY <2>1
  <2> HIDE DEF u
  <2>4. Settles(U, u, h, Tail(f.pipe)) /\ After(u, Tail(f.pipe)) = After(db, f.pipe)
    BY <2>2, <2>3, SettlesStep
  <2>5. MkOk(U, db', h, g)
    BY <1>1, <2>1, <2>2, <2>4 DEF MkOk, u
  <2>6. g.pc # "returned"
    BY <2>2
  <2> QED  BY <1>2, <2>1, <2>2, <2>5, <2>6, WritesSent
<1>8. CASE ExecDone(c)
  <2>1. /\ f.pc = "exec" /\ f.pipe = << >> /\ db' = db /\ g = [f EXCEPT !.pc = "mkindex"]
        /\ stack'[c] # << >> /\ Replaces(c)
    BY <1>1, <1>3, <1>8 DEF ExecDone, At, f
  <2>2. g.pc = "mkindex" /\ g.call = f.call /\ g.path = f.path /\ g.at = f.at
    BY <1>1, <2>1 DEF GoodFields
  <2>3. Settles(U, db, h, << >>) /\ Hung(After(db, << >>), h, Ancestor(f.path, f.at - 1))
    BY <1>1, <2>1 DEF MkOk
  <2>4. Tidy(db, h)
    BY <2>3, SettledTidy
  <2>5. After(db, << >>) = db
    BY AfterNone DEF FitDb
  <2>6. MkOk(U, db, h, g)
    BY <1>1, <2>2, <2>3, <2>4, <2>5 DEF MkOk
  <2> QED  BY <1>1, <1>2, <2>1, <2>2, <2>6, WritesNothing
<1> QED  BY <1>4, <1>5, <1>6, <1>7, <1>8, MkindexActions, NoTurn

-----------------------------------------------------------------------------
(* A client at home begins a call *)

LEMMA UnderRoot ==
  ASSUME NEW p \in Paths
  PROVE  Under(p, Root)
<1>1. 0 \in 0 .. Len(p)
  BY PathSeq
<1>2. Ancestor(p, 0) = Root
  BY <1>1, AncestorSeq
<1> QED  BY <1>1, <1>2, AncestorUnder

LEMMA EnterFrame ==
  ASSUME TypeInv, NEW c \in Clients, NEW f, Enter(c, f)
  PROVE  /\ db' = db /\ stack'[c] # << >> /\ stack'[c][1] = f /\ Len(stack'[c]) = 1
         /\ stack[c] = << >> \/ stack[c][1].pc = "returned"
<1>1. stack'[c] = <<f>> /\ db' = db
  BY DEF Enter, TypeInv, StackInv
<1>2. stack[c] = << >> \/ stack[c][1].pc = "returned"
  BY DEF Enter, Busy
<1>3. <<f>> # << >> /\ Len(<<f>>) = 1 /\ <<f>>[1] = f
  OBVIOUS
<1> QED  BY <1>1, <1>2, <1>3

LEMMA SetStarts ==
  ASSUME NEW U, NEW h, NEW t, Tidy(t, h), NEW batch \in Seq(Given), batch # << >>,
         \A i \in DOMAIN batch : MayPut(U, h, batch[i].key)
  PROVE  CallOk(U, t, h, SetFrame(batch)) /\ SetFrame(batch).pc # "returned"
<1> DEFINE f == SetFrame(batch)
<1>1. f.call = "Set" /\ f.pc = "resolve" /\ f.pairs = batch /\ f.path = Head(batch).key
  BY SetFrameType
<1>2. f.touched = {} /\ f.pipe = << >>
  BY BlankType DEF SetFrame, GoodFields
<1> HIDE DEF f
<1>3. Gathers(U, t, h, f)
  BY <1>1, <1>2, WritesEmpty DEF Gathers
<1> QED  BY <1>1, <1>3 DEF CallOk, SetOk, f

LEMMA DelStarts ==
  ASSUME NEW U, NEW h, NEW t, Tidy(t, h), NEW keys \in Seq(Paths \ {Root}), keys # << >>,
         Scattered(keys), \A i \in DOMAIN keys : MayDel(U, h, keys[i])
  PROVE  CallOk(U, t, h, DelFrame(keys)) /\ DelFrame(keys).pc # "returned"
<1> DEFINE f == DelFrame(keys)
<1>1. /\ f.call = "Del" /\ f.pc = "resolveParent" /\ f.keys = keys /\ f.touched = {}
      /\ f.pipe = << >>
  BY DelFrameType
<1>2. f.path = Head(keys)
  BY BlankType DEF DelFrame, GoodFields
<1> HIDE DEF f
<1>3. \A q : Final(t, << >>, q) = ValueAt(t, q)
  BY FinalEmpty
<1>4. PipeFit(U, h, << >>)
  BY DEF PipeFit
<1>5. Takes(U, t, h, f)
  BY <1>1, <1>3, <1>4 DEF Takes
<1> QED  BY <1>1, <1>2, <1>5 DEF CallOk, DelOk, f

\* FLUSHDB leaves no key and no index.
LEMMA ClearedTidy ==
  ASSUME NEW U, NEW h, NEW t, t = [p \in Paths |-> Absent]
  PROVE  Tidy(t, h) /\ \A p \in Paths : Fit(U, p, t[p])
<1>1. Absent.kind = "absent" /\ Absent.kids = {}
  BY PlainValues
<1>2. \A p : ValueAt(t, p) = Absent
  BY DEF ValueAt
<1>3. \A p : ~ Present(t, p) /\ DirIndex(t, p) = {}
  BY <1>1, <1>2 DEF Present, DirIndex
<1>4. \A p : Agrees(t, p)
  BY <1>3 DEF Agrees, Noted
<1>5. \A p \in Paths : Fit(U, p, t[p])
  <2>1. \A p : Fit(U, p, Absent)
    BY <1>1 DEF Fit
  <2> QED  BY <2>1
<1> QED  BY <1>4, <1>5 DEF Tidy, TidyBut

LEMMA HomeBegins ==
  ASSUME TypeInv, NEW Home \in [Clients -> Dirs], NEW U, OneNameEach(U), AtHome(Home, U),
         FitDb(U, db), NEW c \in Clients, Begin(c), Orderly(U, db, Home[c], stack[c])
  PROVE  Writes(U, Home[c]) /\ Orderly(U, db', Home[c], stack'[c])
<1> DEFINE h == Home[c]
<1>1. h \in Dirs
  OBVIOUS
<1>2. stack[c] = << >> \/ stack[c][1].pc = "returned" => Tidy(db, h)
  BY DEF Orderly
<1>3. ASSUME NEW f, Enter(c, f), f.pc # "returned", Tidy(db, h) => CallOk(U, db, h, f)
      PROVE  Writes(U, h) /\ Orderly(U, db', h, stack'[c])
  <2>1. /\ db' = db /\ stack'[c] # << >> /\ stack'[c][1] = f /\ Len(stack'[c]) = 1
        /\ stack[c] = << >> \/ stack[c][1].pc = "returned"
    BY <1>3, EnterFrame
  <2>2. CallOk(U, db, h, f)
    BY <1>2, <1>3, <2>1
  <2>3. Orderly(U, db', h, stack'[c])
    BY <1>3, <2>1, <2>2 DEF Orderly
  <2> QED  BY <2>1, <2>3, WritesNothing
<1>4. CASE SetBegin(c)
  <2>1. PICK batch \in Batches[c] : Enter(c, SetFrame(batch))
    BY <1>4 DEF SetBegin
  <2>2. batch \in Seq(Given) /\ batch # << >>
    BY BatchType
  <2>3. \A i \in DOMAIN batch : MayPut(U, h, batch[i].key)
    BY DEF AtHome
  <2> HIDE DEF h
  <2>4. Tidy(db, h) => CallOk(U, db, h, SetFrame(batch))
    BY <2>2, <2>3, SetStarts
  <2>5. SetFrame(batch).pc # "returned"
    BY <2>2, SetFrameType
  <2> QED  BY <1>3, <2>1, <2>4, <2>5 DEF h
<1>5. CASE DelBegin(c)
  <2>1. PICK keys \in DelCalls[c] : Enter(c, DelFrame(keys))
    BY <1>5 DEF DelBegin
  <2>2. keys \in Seq(Paths \ {Root}) /\ keys # << >>
    BY RedisAssumption DEF RedisAssumption
  <2>3. Scattered(keys) /\ \A i \in DOMAIN keys : MayDel(U, h, keys[i])
    BY DEF AtHome
  <2> HIDE DEF h
  <2>4. Tidy(db, h) => CallOk(U, db, h, DelFrame(keys))
    BY <2>2, <2>3, DelStarts
  <2>5. DelFrame(keys).pc # "returned"
    BY <2>2, DelFrameType
  <2> QED  BY <1>3, <2>1, <2>4, <2>5 DEF h
<1>6. CASE DelTreeBegin(c)
  <2>1. PICK p \in DelTreeCalls[c] :
            Enter(c, [Blank EXCEPT !.call = "DelTree", !.pc = "link", !.path = p])
    BY <1>6 DEF DelTreeBegin
  <2> DEFINE f == [Blank EXCEPT !.call = "DelTree", !.pc = "link", !.path = p]
  <2>2. f.call = "DelTree" /\ f.pc = "link" /\ f.path = p /\ f.at = 1
    BY BlankType DEF GoodFields
  <2>3. Enter(c, f)
    BY <2>1
  <2>4. Inner(h, p) /\ p \in U /\ Exact(p)
    BY DEF AtHome
  <2> HIDE DEF f, h
  <2>5. Tidy(db, h) => CallOk(U, db, h, f)
    BY <2>2, <2>4 DEF CallOk, TreeOk
  <2> QED  BY <1>3, <2>2, <2>3, <2>5 DEF h
<1>7. CASE MkindexBegin(c)
  <2>1. PICK d \in MkindexCalls :
            Enter(c, [Blank EXCEPT !.call = "Mkindex", !.pc = "resolve", !.path = d])
    BY <1>7 DEF MkindexBegin
  <2> DEFINE f == [Blank EXCEPT !.call = "Mkindex", !.pc = "resolve", !.path = d]
  <2>2. f.call = "Mkindex" /\ f.pc = "resolve" /\ f.path = d /\ f.at = 1
    BY BlankType DEF GoodFields
  <2>3. Enter(c, f)
    BY <2>1
  <2>4. Inner(h, d) /\ d \in U /\ IsDir(d) /\ d \in Paths
    BY RedisAssumption DEF AtHome, RedisAssumption, Dirs
  <2>5. f.at - 1 = 0 /\ 0 \in 0 .. Len(d)
    BY <2>2, <2>4, PathSeq
  <2>6. Ancestor(d, 0) = Root
    BY <2>4, <2>5, AncestorSeq
  <2>7. Hung(db, h, Root)
    BY <1>1, RootOut
  <2> HIDE DEF f, h
  <2>8. Tidy(db, h) => CallOk(U, db, h, f)
    BY <2>2, <2>4, <2>5, <2>6, <2>7 DEF CallOk, MkOk
  <2> QED  BY <1>3, <2>2, <2>3, <2>8 DEF h
<1>8. ~ ExtIndexBegin(c) /\ ~ DelExtBegin(c)
  BY DEF ExtIndexBegin, DelExtBegin, AtHome
<1>9. CASE Clear(c)
  <2> DEFINE u == db'
  <2>1. u = [p \in Paths |-> Absent] /\ stack'[c] = << >>
    BY <1>9 DEF Clear, Abort, TypeInv, StackInv
  <2>2. h = Root
    BY <1>9 DEF Clear, AtHome
  <2> HIDE DEF u, h
  <2>3. Tidy(u, h) /\ \A p \in Paths : Fit(U, p, u[p])
    BY <2>1, ClearedTidy
  <2>4. Writes(U, h)
    BY <2>2, <2>3, UnderRoot DEF Writes, u
  <2> QED  BY <2>1, <2>3, <2>4 DEF Orderly, u, h
<1> QED  BY <1>4, <1>5, <1>6, <1>7, <1>8, <1>9 DEF Begin

-----------------------------------------------------------------------------
(* Coherence *)

LEMMA HomeSteps ==
  ASSUME TypeInv, NEW U, OneNameEach(U), FitDb(U, db), LinkTargets = {},
         NEW h \in Dirs, ListedUp(db, h), NEW c \in Clients, Step(c), Orderly(U, db, h, stack[c])
  PROVE  Writes(U, h) /\ Orderly(U, db', h, stack'[c])
<1>1. Top(c) = stack[c][1] /\ stack[c] # << >> /\ stack[c][1].pc # "returned"
  <2>1. Busy(c) /\ Top(c) = stack[c][1]
    BY StepTop
  <2>2. stack[c] # << >> /\ Top(c).pc # "returned"
    BY <2>1 DEF Busy, Top
  <2> QED  BY <2>1, <2>2
<1>2. /\ stack[c] # << >> /\ stack[c][1].pc # "returned"
      /\ \/ Len(stack[c]) = 1 /\ CallOk(U, db, h, stack[c][1])
         \/ /\ Len(stack[c]) = 2 /\ stack[c][1].call = "Set" /\ stack[c][2].call = "Set"
            /\ Waits(U, db, h, stack[c][2])
            /\ MakeOk(U, db, h, stack[c][1], Ancestor(stack[c][2].dir, stack[c][2].at - 1))
  BY <1>1 DEF Orderly
<1>3. CASE Len(stack[c]) = 1 /\ CallOk(U, db, h, stack[c][1])
  <2>1. CASE Top(c).call = "Set" /\ SetOk(U, db, h, stack[c][1])
    BY <1>3, <2>1, HomeSet
  <2>2. CASE Top(c).call = "Del" /\ DelOk(U, db, h, stack[c][1])
    BY <1>3, <2>2, HomeDel
  <2>3. CASE Top(c).call = "DelTree" /\ TreeOk(U, db, h, stack[c][1])
    BY <1>3, <2>3, HomeTree
  <2>4. CASE Top(c).call = "Mkindex" /\ MkOk(U, db, h, stack[c][1])
    BY <1>3, <2>4, HomeMkindex
  <2> QED  BY <1>1, <1>3, <2>1, <2>2, <2>3, <2>4 DEF CallOk
<1>4. CASE /\ Len(stack[c]) = 2 /\ stack[c][1].call = "Set" /\ stack[c][2].call = "Set"
           /\ Waits(U, db, h, stack[c][2])
           /\ MakeOk(U, db, h, stack[c][1], Ancestor(stack[c][2].dir, stack[c][2].at - 1))
  <2>1. Top(c).call = "Set"
    BY <1>1, <1>4
  <2> QED  BY <1>4, <2>1, HomeMake
<1> QED  BY <1>2, <1>3, <1>4

\* No client writes above its home, nor another does: the home stays listed.
LEMMA HomeListed ==
  ASSUME NEW Home \in [Clients -> Dirs], NEW U, AtHome(Home, U), StoredTidy(Home, U),
         GoodDb(db), HomeInv(Home, U), NEW c \in Clients
  PROVE  ListedUp(db, Home[c])
<1> DEFINE h == Home[c]
<1>1. h \in Dirs /\ h \in Paths /\ h \in Seq(Child) /\ Len(h) \in Nat
  BY PathSeq DEF Dirs
<1>2. ASSUME NEW n \in 1 .. Len(h)
      PROVE  h[n] \in DirIndex(db, Ancestor(h, n - 1))
  <2> DEFINE a == Ancestor(h, n - 1)
  <2>1. /\ n - 1 \in 0 .. Len(h) /\ a \in Paths /\ Len(a) = n - 1 /\ Under(h, a)
        /\ a \in Seq(Child)
    <3>1. n - 1 \in 0 .. Len(h)
      BY <1>1
    <3> QED  BY <1>1, <3>1, AncestorPath, AncestorSeq, AncestorUnder, PathSeq
  <2> HIDE DEF a, h
  <2>2. ASSUME NEW e \in Clients, Under(a, Home[e])
        PROVE  FALSE
    <3> DEFINE k == Home[e]
    <3>1. k \in Dirs /\ k \in Seq(Child)
      BY PathSeq DEF Dirs
    <3> HIDE DEF k
    <3>2. Under(a, k)
      BY <2>2 DEF k
    <3>3. CASE e = c
      <4>1. Len(h) <= Len(a)
        BY <1>1, <2>1, <3>2, <3>3, UnderMeans DEF k, h
      <4> QED  BY <1>1, <2>1, <4>1
    <3>4. CASE e # c
      <4>1. Under(h, k)
        BY <1>1, <2>1, <3>1, <3>2, UnderTransitive
      <4>2. ~ Under(h, k)
        BY <3>4 DEF AtHome, h, k
      <4> QED  BY <4>1, <4>2
    <3> QED  BY <3>3, <3>4
  <2>3. db[a] = Stored[a]
    BY <2>1, <2>2 DEF HomeInv
  <2>4. h[n] \in DirIndex(Stored, a)
    <3>1. ListedUp(Stored, h)
      BY DEF StoredTidy, h
    <3> QED  BY <3>1 DEF ListedUp, a
  <2> QED  BY <2>1, <2>3, <2>4 DEF DirIndex, ValueAt, a
<1> QED  BY <1>2 DEF ListedUp

LEMMA HomeStep ==
  ASSUME NEW Home \in [Clients -> Dirs], NEW U \in SUBSET Paths, OneNameEach(U),
         AtHome(Home, U), StoredTidy(Home, U), Failing = {}, TypeInv, HomeInv(Home, U),
         [Next]_vars
  PROVE  HomeInv(Home, U)'
<1>1. GoodDb(db) /\ FitDb(U, db) /\ LinkTargets = {} /\ Failing = {}
  BY DEF TypeInv, HomeInv, FitDb, AtHome
<1>2. CASE UNCHANGED vars
  BY <1>2 DEF vars, HomeInv
<1>3. CASE Next
  <2>1. PICK c \in Clients : Begin(c) \/ Step(c) \/ Fault(c)
    BY <1>3 DEF Next
  <2> DEFINE h == Home[c]
  <2>2. ~ Fault(c)
    BY <1>1 DEF Fault, ExecFails, Crash
  <2>3. Orderly(U, db, h, stack[c]) /\ ListedUp(db, h) /\ h \in Dirs
    BY <1>1, HomeListed DEF HomeInv
  <2> HIDE DEF h
  <2>4. Writes(U, h) /\ Orderly(U, db', h, stack'[c])
    <3>1. CASE Begin(c)
      BY <1>1, <2>3, <3>1, HomeBegins DEF h
    <3>2. CASE Step(c)
      BY <1>1, <2>3, <3>2, HomeSteps
    <3> QED  BY <2>1, <2>2, <3>1, <3>2
  <2>5. \A p \in Paths : Fit(U, p, db'[p])
    BY <2>4 DEF Writes
  <2>6. ASSUME NEW p \in Paths, \A e \in Clients : ~ Under(p, Home[e])
        PROVE  db'[p] = Stored[p]
    BY <2>4, <2>6 DEF Writes, HomeInv, h
  <2>7. ASSUME NEW e \in Clients
        PROVE  Orderly(U, db', Home[e], stack'[e])
    <3>1. CASE e = c
      BY <2>4, <3>1 DEF h
    <3>2. CASE e # c
      <4> DEFINE k == Home[e]
      <4>1. k \in Dirs /\ ~ Under(h, k) /\ ~ Under(k, h) /\ Orderly(U, db, k, stack[e])
        BY <3>2 DEF AtHome, HomeInv, h
      <4>2. stack'[e] = stack[e] /\ stack[e] \in GoodStack
        BY <2>1, <3>2, OtherStack DEF TypeInv, StackInv
      <4> HIDE DEF k
      <4> DEFINE u == db'
      <4>3. \A q \in Paths : ~ Under(q, h) => u[q] = db[q]
        BY <2>4 DEF Writes
      <4> HIDE DEF u
      <4>4. Near(db, u, k)
        <5> SUFFICES ASSUME NEW q \in Paths, Under(q, k)
                     PROVE  u[q] = db[q]
          BY DEF Near
        <5>1. ~ Under(q, h)
          BY <2>3, <4>1, HomesApart
        <5> QED  BY <4>3, <5>1
      <4>5. Orderly(U, u, k, stack[e])
        BY <4>1, <4>2, <4>4, NearOrderly
      <4> QED  BY <4>2, <4>5 DEF u, k
    <3> QED  BY <3>1, <3>2
  <2> QED  BY <2>5, <2>6, <2>7 DEF HomeInv
<1> QED  BY <1>2, <1>3

LEMMA HomeInit ==
  ASSUME NEW Home \in [Clients -> Dirs], NEW U \in SUBSET Paths, OneNameEach(U),
         AtHome(Home, U), StoredTidy(Home, U), Init
  PROVE  HomeInv(Home, U)
<1>1. db = Stored /\ \A c \in Clients : stack[c] = << >>
  BY DEF Init
<1>2. \A p \in Paths : Fit(U, p, db[p])
  BY <1>1 DEF StoredTidy
<1>3. ASSUME NEW c \in Clients
      PROVE  Tidy(db, Home[c])
  <2> SUFFICES ASSUME NEW p \in Paths, Inner(Home[c], p)
               PROVE  Agrees(Stored, p)
    BY <1>1 DEF Tidy, TidyBut
  <2>1. p \in Paths \ {Root} /\ Parent(p) \in Dirs /\ p \in Seq(Child)
    BY InnerPath, PathSeq
  <2>2. /\ Len(p) \in Nat /\ Len(p) >= 1 /\ Parent(p) = Ancestor(p, Len(p) - 1)
        /\ ChildName(p) = p[Len(p)]
    BY <2>1, ParentAncestor
  <2>3. Present(Stored, p) => Noted(Stored, p)
    <3> SUFFICES ASSUME Present(Stored, p)
                 PROVE  Noted(Stored, p)
      OBVIOUS
    <3>1. ListedUp(Stored, p)
      BY DEF StoredTidy, Keys
    <3> QED  BY <2>2, <3>1 DEF ListedUp, Noted
  <2>4. Noted(Stored, p) /\ ~ IsDir(p) => Present(Stored, p)
    <3> SUFFICES ASSUME Noted(Stored, p), ~ IsDir(p)
                 PROVE  Present(Stored, p)
      OBVIOUS
    <3> DEFINE d == Parent(p)
               k == ChildName(p)
    <3>1. d \in Dirs /\ k \in DirIndex(Stored, d) /\ ~ k.dir
      BY <2>1 DEF Noted, IsDir, ChildName, Last
    <3>2. Append(d, k) = p
      BY <2>1, AppendName
    <3> HIDE DEF d, k
    <3> QED  BY <3>1, <3>2 DEF StoredTidy
  <2> QED  BY <2>3, <2>4 DEF Agrees
<1> QED  BY <1>1, <1>2, <1>3 DEF HomeInv, Orderly

\* Between calls what is listed and what is there are the same: below the homes
\* by the clients' order, elsewhere as it was stored.
LEMMA HomeCoherent ==
  ASSUME NEW Home \in [Clients -> Dirs], NEW U \in SUBSET Paths, OneNameEach(U),
         AtHome(Home, U), StoredTidy(Home, U), TypeInv, HomeInv(Home, U)
  PROVE  Coherent
<1> SUFFICES ASSUME Quiet
             PROVE  /\ \A p \in Keys(db) : ListedUp(db, p)
                    /\ \A d \in Dirs : \A k \in DirIndex(db, d) :
                          ~ k.dir => Present(db, Append(d, k))
  BY DEF Coherent
<1>1. GoodDb(db) /\ FitDb(U, db)
  BY DEF TypeInv, HomeInv, FitDb
<1>2. ASSUME NEW c \in Clients
      PROVE  Tidy(db, Home[c]) /\ ListedUp(db, Home[c]) /\ Home[c] \in Dirs
  <2>1. stack[c] = << >> \/ stack[c][1].pc = "returned"
    BY DEF Quiet, Busy
  <2>2. Orderly(U, db, Home[c], stack[c])
    BY DEF HomeInv
  <2>3. Tidy(db, Home[c])
    BY <2>1, <2>2 DEF Orderly
  <2> QED  BY <1>1, <2>3, HomeListed
<1>3. ASSUME NEW p \in Paths, \A c \in Clients : ~ Under(p, Home[c])
      PROVE  ValueAt(db, p) = ValueAt(Stored, p)
  BY <1>3 DEF HomeInv, ValueAt
<1>4. ASSUME NEW p \in Keys(db)
      PROVE  ListedUp(db, p)
  <2>1. p \in Paths /\ Present(db, p)
    BY DEF Keys
  <2>2. CASE \E c \in Clients : Inner(Home[c], p)
    <3>1. PICK c \in Clients : Inner(Home[c], p)
      BY <2>2
    <3> DEFINE h == Home[c]
    <3>2. Tidy(db, h) /\ ListedUp(db, h) /\ h \in Dirs /\ Inner(h, p) /\ Under(p, h)
      BY <1>2, <3>1 DEF Inner
    <3> HIDE DEF h
    <3>3. Hung(db, h, p)
      BY <2>1, <3>2 DEF Tidy, TidyBut, Agrees, Hung
    <3> SUFFICES ASSUME NEW n \in 1 .. Len(p)
                 PROVE  p[n] \in DirIndex(db, Ancestor(p, n - 1))
      BY DEF ListedUp
    <3>4. /\ ChildName(Ancestor(p, n)) = p[n] /\ Parent(Ancestor(p, n)) = Ancestor(p, n - 1)
          /\ n \in 0 .. Len(p)
      BY <2>1, AncestorParent
    <3>5. Noted(db, Ancestor(p, n))
      <4> SUFFICES ASSUME ~ Noted(db, Ancestor(p, n))
                   PROVE  FALSE
        OBVIOUS
      <4>1. Inner(h, Ancestor(p, n))
        BY <2>1, <3>2, MissingInner
      <4>2. Hung(db, h, Ancestor(p, n))
        BY <1>1, <2>1, <3>2, <3>3, <3>4, HungUp
      <4> QED  BY <4>1, <4>2 DEF Hung
    <3> QED  BY <3>4, <3>5 DEF Noted
  <2>3. CASE \E c \in Clients : p = Home[c]
    BY <1>2, <2>3
  <2>4. CASE \A c \in Clients : ~ Under(p, Home[c])
    <3>1. Present(Stored, p)
      BY <1>3, <2>1, <2>4 DEF Present
    <3>2. ListedUp(Stored, p)
      BY <2>1, <3>1 DEF StoredTidy, Keys
    <3> SUFFICES ASSUME NEW n \in 1 .. Len(p)
                 PROVE  p[n] \in DirIndex(db, Ancestor(p, n - 1))
      BY DEF ListedUp
    <3> DEFINE a == Ancestor(p, n - 1)
    <3>3. a \in Paths /\ Under(p, a) /\ a \in Seq(Child) /\ p \in Seq(Child)
      <4>1. n - 1 \in 0 .. Len(p)
        BY <2>1, PathSeq
      <4> QED  BY <2>1, <4>1, AncestorPath, AncestorUnder, PathSeq
    <3>4. p[n] \in DirIndex(Stored, a)
      BY <3>2 DEF ListedUp
    <3> HIDE DEF a
    <3>5. \A c \in Clients : ~ Under(a, Home[c])
      <4> SUFFICES ASSUME NEW c \in Clients, Under(a, Home[c])
                   PROVE  FALSE
        OBVIOUS
      <4> DEFINE h == Home[c]
      <4>1. h \in Seq(Child) /\ Under(a, h)
        BY PathSeq DEF Dirs
      <4> HIDE DEF h
      <4>2. Under(p, h)
        BY <3>3, <4>1, UnderTransitive
      <4> QED  BY <2>4, <4>2 DEF h
    <3>6. DirIndex(db, a) = DirIndex(Stored, a)
      BY <1>3, <3>3, <3>5 DEF DirIndex
    <3> QED  BY <3>4, <3>6 DEF a
  <2> QED  BY <2>2, <2>3, <2>4 DEF Inner
<1>5. ASSUME NEW d \in Dirs, NEW k \in DirIndex(db, d), ~ k.dir
      PROVE  Present(db, Append(d, k))
  <2> DEFINE p == Append(d, k)
  <2>1. /\ k \in Child /\ p \in U /\ p # Root /\ Parent(p) = d /\ ChildName(p) = k /\ p \in Paths
    BY <1>1, NotedUsed DEF OneNameEach
  <2>2. ~ IsDir(p)
    <3>1. d \in Seq(Child)
      BY PathSeq DEF Dirs
    <3> QED  BY <1>5, <2>1, <3>1, AppendParent
  <2> HIDE DEF p
  <2>3. CASE \E c \in Clients : Under(p, Home[c])
    <3>1. PICK c \in Clients : Under(p, Home[c])
      BY <2>3
    <3>2. Inner(Home[c], p)
      BY <1>2, <2>2, <3>1 DEF Inner, Dirs
    <3>3. Noted(db, p)
      BY <2>1 DEF Noted
    <3>4. Agrees(db, p)
      BY <1>2, <2>1, <3>2 DEF Tidy, TidyBut
    <3> QED  BY <2>2, <3>3, <3>4 DEF Agrees, p
  <2>4. CASE \A c \in Clients : ~ Under(p, Home[c])
    <3>1. \A c \in Clients : ~ Under(d, Home[c])
      <4> SUFFICES ASSUME NEW c \in Clients, Under(d, Home[c])
                   PROVE  FALSE
        OBVIOUS
      <4> DEFINE h == Home[c]
      <4>1. h \in Paths /\ Under(Parent(p), h)
        BY <2>1 DEF Dirs
      <4> HIDE DEF h
      <4>2. Under(p, h)
        BY <2>1, <4>1, UnderParent
      <4> QED  BY <2>4, <4>2 DEF h
    <3>2. DirIndex(db, d) = DirIndex(Stored, d)
      BY <1>3, <3>1 DEF DirIndex, Dirs
    <3>3. Present(Stored, p)
      BY <1>5, <3>2 DEF StoredTidy, p
    <3> QED  BY <1>3, <2>1, <2>4, <3>3 DEF Present, p
  <2> QED  BY <2>3, <2>4
<1> QED  BY <1>4, <1>5

\* A directory lists, with those of the directory it overlays, the files that
\* Get finds.
LEMMA CoherentListed ==
  ASSUME NEW U, FitDb(U, db), LinkTargets = {}, Coherent
  PROVE  ListMatchesGet
<1> SUFFICES ASSUME Quiet, NEW p \in Paths \ Dirs
             PROVE  ChildName(p) \in List(db, Parent(p)) <=> Get(db, p).kind # "absent"
  BY DEF ListMatchesGet
<1> DEFINE d == Parent(p)
           k == Last(p)
           v == ValueAt(db, d)
<1>1. /\ p \in Seq(Child) /\ p # Root /\ p \in Paths \ {Root} /\ ~ IsDir(p) /\ d \in Dirs
      /\ d \in Seq(Child)
  <2>1. p \in Seq(Child) /\ ~ IsDir(p)
    BY PathSeq DEF Dirs
  <2>2. p # Root
    BY <2>1 DEF IsDir
  <2>3. d \in Dirs
    BY <2>2, ParentDir
  <2> QED  BY <2>1, <2>2, <2>3, PathSeq DEF Dirs
<1>2. k \in Child /\ ~ k.dir /\ Append(d, k) = p
  <2>1. p[Len(p)] \in Child /\ ~ p[Len(p)].dir
    BY <1>1 DEF IsDir, Root
  <2> QED  BY <1>1, <2>1, AppendName DEF ChildName, Last
<1>3. Slash(d) = d /\ IsDir(d)
  <2>1. d # Root => d[Len(d)].dir
    BY <1>1 DEF Dirs, IsDir
  <2> HIDE DEF d
  <2>2. d # Root => Slash(d) = d
    BY <1>1, <2>1, SlashDir
  <2> QED  BY <1>1, <2>2 DEF Slash, Dirs
<1>4. ResolvePath(db, d) = d
  <2>1. ~ Follows(db, d)
    BY NoLinks DEF FitDb
  <2> QED  BY <2>1 DEF ResolvePath
<1> HIDE DEF d, k
<1>5. ASSUME NEW e \in Dirs
      PROVE  k \in DirIndex(db, e) <=> ValueAt(db, Append(e, k)).kind # "absent"
  <2>1. k \in DirIndex(db, e) => Present(db, Append(e, k))
    BY <1>2 DEF Coherent
  <2>2. ASSUME Present(db, Append(e, k))
        PROVE  k \in DirIndex(db, e)
    <3> DEFINE q == Append(e, k)
    <3>1. e \in Seq(Child)
      BY PathSeq DEF Dirs
    <3>2. q \in Keys(db)
      BY <2>2 DEF Keys, Present, ValueAt, Absent, Plain
    <3>3. /\ q \in Seq(Child) /\ q # Root /\ Len(q) \in Nat /\ Len(q) >= 1
          /\ Ancestor(q, Len(q) - 1) = e /\ q[Len(q)] = k
      BY <1>2, <3>1, AppendParent DEF ChildName, Last, Parent, Root
    <3>4. ListedUp(db, q)
      BY <3>2 DEF Coherent
    <3> HIDE DEF q
    <3> QED  BY <3>3, <3>4 DEF ListedUp
  <2> QED  BY <2>1, <2>2 DEF Present
<1>6. Get(db, p) = IF ValueAt(db, p).kind = "absent" /\ v.kind = "extindex"
                   THEN ValueAt(db, Append(v.ext, k)) ELSE ValueAt(db, p)
  BY <1>1, <1>2, <1>3, <1>4 DEF Get, d, k
<1>7. List(db, d) = IF v.kind = "extindex" THEN DirIndex(db, d) \cup DirIndex(db, v.ext)
                    ELSE DirIndex(db, d)
  BY <1>3, <1>4 DEF List, ListOwn
<1>8. v.kind = "extindex" => v.ext \in Dirs
  BY <1>1 DEF FitDb, Fit, Dirs, ValueAt
<1> HIDE DEF v
<1>9. k \in List(db, d) <=> Get(db, p).kind # "absent"
  BY <1>1, <1>2, <1>5, <1>6, <1>7, <1>8
<1> QED  BY <1>9 DEF ChildName, d, k

\* Clients that work in directories of their own, give the same name to no file
\* and directory, and whose connections do not fail, leave the tree that List
\* walks and the set of the keys the same whenever no call runs: every Set has
\* named what it stores, up to the root, and every Del and DelTree has taken the
\* names out, whatever calls of the others run between the requests of a call
\* (redis/kvspace.go: Set, Del, DelTree, Mkindex, Clear, redis/redis.go).
THEOREM HomesCoherent ==
  ASSUME NEW Home \in [Clients -> Dirs], NEW U \in SUBSET Paths, OneNameEach(U),
         AtHome(Home, U), StoredTidy(Home, U)
  PROVE  Spec => []UnbrokenCoherent
<1> DEFINE Inv == Failing = {} => HomeInv(Home, U)
<1>1. Init => Inv
  BY HomeInit
<1>2. TypeInv /\ Inv /\ [Next]_vars => Inv'
  BY HomeStep
<1>3. TypeInv /\ Inv => UnbrokenCoherent
  BY HomeCoherent DEF UnbrokenCoherent
<1> HIDE DEF Inv
<1> QED  BY <1>1, <1>2, <1>3, TypeInvariant, PTL DEF Spec

\* For the same clients List names between calls exactly the files that Get
\* finds, in a directory that overlays another as well (redis/kvspace.go: List,
\* Get).
THEOREM HomesListed ==
  ASSUME NEW Home \in [Clients -> Dirs], NEW U \in SUBSET Paths, OneNameEach(U),
         AtHome(Home, U), StoredTidy(Home, U), Failing = {}
  PROVE  Spec => []ListMatchesGet
<1>1. Init => HomeInv(Home, U)
  BY HomeInit
<1>2. TypeInv /\ HomeInv(Home, U) /\ [Next]_vars => HomeInv(Home, U)'
  BY HomeStep
<1>3. TypeInv /\ HomeInv(Home, U) => ListMatchesGet
  <2> SUFFICES ASSUME TypeInv, HomeInv(Home, U)
               PROVE  ListMatchesGet
    OBVIOUS
  <2>1. FitDb(U, db) /\ LinkTargets = {}
    BY DEF TypeInv, HomeInv, FitDb, AtHome
  <2> QED  BY <2>1, HomeCoherent, CoherentListed
<1> QED  BY <1>1, <1>2, <1>3, TypeInvariant, PTL DEF Spec
=============================================================================
