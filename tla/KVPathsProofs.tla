---------------------------- MODULE KVPathsProofs ---------------------------
(***************************************************************************)
(* Lemmas about the path algebra, for all names and paths: the ancestors   *)
(* of a path are paths, and directories where they have to be; what lies   *)
(* below what; where a path is moved to from one directory to another and  *)
(* back; and the least and the greatest of some depths.                    *)
(***************************************************************************)
EXTENDS KVPaths, TLAPS, FiniteSetTheorems, SequenceTheorems, WellFoundedInduction

-----------------------------------------------------------------------------
(* Ancestors and parents *)

LEMMA AncestorPath ==
  ASSUME NEW p \in Paths, NEW n \in 0 .. Len(p)
  PROVE  Ancestor(p, n) \in Paths
BY PathsAssumption DEF PathsAssumption

LEMMA PathSeq ==
  ASSUME NEW p \in Paths
  PROVE  /\ p \in Seq(Child)
         /\ Len(p) \in Nat
         /\ p # Root => Len(p) \in 1 .. Len(p)
         /\ \A i \in 1 .. Len(p) : p[i] \in Child
<1>1. p \in Seq(Child)
  BY PathsAssumption DEF PathsAssumption
<1>2. Len(p) \in Nat /\ (p # Root => Len(p) # 0)
  BY <1>1 DEF Root
<1> QED  BY <1>1, <1>2

LEMMA AncestorSeq ==
  ASSUME NEW p \in Paths, NEW n \in 0 .. Len(p)
  PROVE  /\ Len(Ancestor(p, n)) = n
         /\ \A i \in 1 .. n : Ancestor(p, n)[i] = p[i]
         /\ n = 0 => Ancestor(p, n) = Root
BY PathSeq DEF Ancestor, Root

\* Every ancestor of a directory is a directory, and so is every proper one
\* of a file.
LEMMA AncestorDir ==
  ASSUME NEW p \in Paths, NEW n \in 0 .. Len(p), p \in Dirs \/ n < Len(p)
  PROVE  Ancestor(p, n) \in Dirs
<1> DEFINE a == Ancestor(p, n)
<1>1. a \in Paths
  BY AncestorPath
<1>2. CASE n = 0
  BY <1>1, <1>2, AncestorSeq DEF Dirs, IsDir
<1>3. CASE n # 0
  <2>1. n \in 1 .. Len(p) /\ Len(a) = n /\ a[n] = p[n]
    BY <1>3, AncestorSeq, PathSeq
  <2>2. p[n].dir
    <3>1. CASE n < Len(p)
      <4>1. n \in 1 .. Len(p) - 1
        BY <2>1, <3>1, PathSeq
      <4> QED  BY <4>1, PathsAssumption DEF PathsAssumption
    <3>2. CASE n = Len(p) /\ p \in Dirs
      <4>1. p # Root
        BY <2>1, <3>2 DEF Root
      <4> QED  BY <3>2, <4>1 DEF Dirs, IsDir
    <3> QED  BY <2>1, <3>1, <3>2, PathSeq
  <2> QED  BY <1>1, <2>1, <2>2 DEF Dirs, IsDir
<1> QED  BY <1>2, <1>3

LEMMA ParentDir ==
  ASSUME NEW p \in Paths
  PROVE  Parent(p) \in Dirs
<1>1. CASE p = Root
  BY <1>1, PathsAssumption DEF Parent, Dirs, IsDir, PathsAssumption
<1>2. CASE p # Root
  <2>1. Len(p) - 1 \in 0 .. Len(p) /\ Len(p) - 1 < Len(p)
    BY <1>2, PathSeq
  <2> QED  BY <1>2, <2>1, AncestorDir DEF Parent
<1> QED  BY <1>1, <1>2

LEMMA ChildNameType ==
  ASSUME NEW p \in Paths, p # Root
  PROVE  ChildName(p) \in Child
BY PathSeq DEF ChildName, Last

LEMMA AncestorAncestor ==
  ASSUME NEW p \in Paths, NEW m \in 0 .. Len(p), NEW n \in 0 .. m
  PROVE  Ancestor(Ancestor(p, m), n) = Ancestor(p, n)
<1> DEFINE a == Ancestor(p, m)
           x == Ancestor(a, n)
           y == Ancestor(p, n)
<1>1. Len(p) \in Nat /\ n \in 0 .. Len(p) /\ a \in Paths /\ Len(a) = m /\ m \in Nat /\ n \in Nat
  BY PathSeq, AncestorPath, AncestorSeq
<1>2. \A i \in 1 .. m : a[i] = p[i]
  BY AncestorSeq
<1> HIDE DEF a
<1>3. x \in Paths /\ Len(x) = n /\ \A i \in 1 .. n : x[i] = a[i]
  BY <1>1, AncestorPath, AncestorSeq
<1>4. y \in Paths /\ Len(y) = n /\ \A i \in 1 .. n : y[i] = p[i]
  BY <1>1, AncestorPath, AncestorSeq
<1> HIDE DEF x, y
<1>5. \A i \in 1 .. n : x[i] = y[i]
  BY <1>1, <1>2, <1>3, <1>4
<1>6. x = y
  BY <1>3, <1>4, <1>5, PathSeq, SeqEqual
<1> QED  BY <1>6 DEF x, y, a

-----------------------------------------------------------------------------
(* What lies below what *)

LEMMA UnderMeans ==
  ASSUME NEW p \in Seq(Child), NEW q \in Seq(Child)
  PROVE  Under(q, p) <=> Len(p) <= Len(q) /\ \A i \in 1 .. Len(p) : q[i] = p[i]
<1>1. Len(p) \in Nat /\ Len(q) \in Nat
  OBVIOUS
<1>2. SubSeq(p, 1, Len(p)) = p
  BY <1>1, SubSeqFull
<1>3. ASSUME Len(p) <= Len(q)
      PROVE  SubSeq(q, 1, Len(p)) = p <=> \A i \in 1 .. Len(p) : q[i] = p[i]
  <2> DEFINE a == SubSeq(q, 1, Len(p))
  <2>1. a \in Seq(Child) /\ Len(a) = Len(p) /\ \A i \in 1 .. Len(p) : a[i] = q[i]
    BY <1>1, <1>3
  <2> HIDE DEF a
  <2>2. (\A i \in 1 .. Len(p) : q[i] = p[i]) => a = p
    BY <1>1, <2>1, SeqEqual
  <2>3. a = p => \A i \in 1 .. Len(p) : q[i] = p[i]
    BY <2>1
  <2> QED  BY <2>2, <2>3 DEF a
<1> QED  BY <1>2, <1>3 DEF Under, IsPrefix

LEMMA UnderItself ==
  ASSUME NEW p \in Paths, p # Root
  PROVE  Under(p, p) /\ ~ Under(Parent(p), p)
<1>1. Len(p) \in Nat /\ Len(p) # 0
  BY PathSeq DEF Root
<1>2. Parent(p) \in Paths /\ Len(Parent(p)) = Len(p) - 1
  <2>1. Len(p) - 1 \in 0 .. Len(p)
    BY <1>1
  <2> QED  BY <2>1, AncestorSeq, AncestorPath DEF Parent
<1> QED  BY <1>1, <1>2, PathSeq, UnderMeans

LEMMA AncestorUnder ==
  ASSUME NEW p \in Paths, NEW n \in 0 .. Len(p)
  PROVE  Under(p, Ancestor(p, n))
BY PathSeq, AncestorSeq, AncestorPath, UnderMeans

LEMMA UnderTransitive ==
  ASSUME NEW p \in Seq(Child), NEW q \in Seq(Child), NEW r \in Seq(Child),
         Under(p, q), Under(q, r)
  PROVE  Under(p, r)
<1>1. /\ Len(r) \in Nat /\ Len(q) \in Nat /\ Len(p) \in Nat
      /\ Len(q) <= Len(p) /\ \A i \in 1 .. Len(q) : p[i] = q[i]
      /\ Len(r) <= Len(q) /\ \A i \in 1 .. Len(r) : q[i] = r[i]
  BY UnderMeans
<1>2. Len(r) <= Len(p) /\ \A i \in 1 .. Len(r) : p[i] = r[i]
  BY <1>1
<1> QED  BY <1>2, UnderMeans

\* Of two directories above one path the longer is below the shorter.
LEMMA UnderBoth ==
  ASSUME NEW p \in Seq(Child), NEW q \in Seq(Child), NEW r \in Seq(Child),
         Under(p, q), Under(p, r), Len(r) <= Len(q)
  PROVE  Under(q, r)
<1>1. /\ Len(r) \in Nat /\ Len(q) \in Nat /\ Len(p) \in Nat
      /\ Len(q) <= Len(p) /\ \A i \in 1 .. Len(q) : p[i] = q[i]
      /\ \A i \in 1 .. Len(r) : p[i] = r[i]
  BY UnderMeans
<1>2. \A i \in 1 .. Len(r) : q[i] = r[i]
  BY <1>1
<1> QED  BY <1>1, <1>2, UnderMeans

LEMMA UnderAncestor ==
  ASSUME NEW t \in Paths, NEW o \in Paths, Under(t, o)
  PROVE  Len(o) \in 0 .. Len(t) /\ o = Ancestor(t, Len(o))
<1>1. Len(o) <= Len(t) /\ SubSeq(o, 1, Len(o)) = SubSeq(t, 1, Len(o))
  BY PathSeq DEF Under, IsPrefix
<1>2. SubSeq(o, 1, Len(o)) = o
  BY PathSeq
<1> QED  BY <1>1, <1>2, PathSeq DEF Ancestor

LEMMA ParentSeq ==
  ASSUME NEW p \in Seq(Child) \ {Root}
  PROVE  /\ Parent(p) \in Seq(Child) /\ Len(Parent(p)) = Len(p) - 1
         /\ \A i \in 1 .. Len(p) - 1 : Parent(p)[i] = p[i]
<1>1. Len(p) \in Nat /\ Len(p) # 0 /\ Parent(p) = SubSeq(p, 1, Len(p) - 1)
  BY DEF Root, Parent, Ancestor
<1>2. Len(p) - 1 \in Nat /\ Len(p) - 1 <= Len(p)
  BY <1>1
<1>3. ASSUME NEW n \in Nat, n <= Len(p)
      PROVE  /\ SubSeq(p, 1, n) \in Seq(Child) /\ Len(SubSeq(p, 1, n)) = n
             /\ \A i \in 1 .. n : SubSeq(p, 1, n)[i] = p[i]
  BY <1>1, <1>3
<1> QED  BY <1>1, <1>2, <1>3

\* A path is its parent and its name.
LEMMA ParentAndName ==
  ASSUME NEW p \in Seq(Child) \ {Root}, NEW q \in Seq(Child) \ {Root},
         Parent(p) = Parent(q), ChildName(p) = ChildName(q)
  PROVE  p = q
<1>1. Len(p) \in Nat \ {0} /\ Len(q) \in Nat \ {0} /\ p[Len(p)] = q[Len(q)]
  BY DEF Root, ChildName, Last
<1>2. /\ Len(Parent(p)) = Len(p) - 1 /\ \A i \in 1 .. Len(p) - 1 : Parent(p)[i] = p[i]
      /\ Len(Parent(q)) = Len(q) - 1 /\ \A i \in 1 .. Len(q) - 1 : Parent(q)[i] = q[i]
  BY ParentSeq
<1>3. Len(p) = Len(q) /\ \A i \in 1 .. Len(p) : p[i] = q[i]
  BY <1>1, <1>2
<1> QED  BY <1>3, SeqEqual

-----------------------------------------------------------------------------
(* The same path below another directory *)

LEMMA Moved ==
  ASSUME NEW p \in Seq(Child), NEW l \in Seq(Child), NEW e \in Seq(Child), Under(p, l)
  PROVE  /\ e \o Relative(p, l) \in Seq(Child)
         /\ Len(e \o Relative(p, l)) = Len(e) + Len(p) - Len(l)
         /\ \A i \in 1 .. Len(e) : (e \o Relative(p, l))[i] = e[i]
         /\ \A i \in Len(e) + 1 .. Len(e) + Len(p) - Len(l) :
               (e \o Relative(p, l))[i] = p[i - Len(e) + Len(l)]
<1> DEFINE r == SubSeq(p, Len(l) + 1, Len(p))
<1>1. Len(p) \in Nat /\ Len(l) \in Nat /\ Len(e) \in Nat /\ Len(l) <= Len(p)
  BY UnderMeans
<1>2. /\ r \in Seq(Child) /\ Len(r) = Len(p) - Len(l)
      /\ \A i \in 1 .. Len(p) - Len(l) : r[i] = p[Len(l) + i]
  BY <1>1
<1> HIDE DEF r
<1>3. /\ e \o r \in Seq(Child) /\ Len(e \o r) = Len(e) + Len(r)
      /\ \A i \in 1 .. Len(e) : (e \o r)[i] = e[i]
      /\ \A i \in 1 .. Len(r) : (e \o r)[Len(e) + i] = r[i]
  <2>1. \A i \in 1 .. Len(e) + Len(r) : (e \o r)[i] = IF i <= Len(e) THEN e[i] ELSE r[i - Len(e)]
    BY <1>1, <1>2, ConcatProperties
  <2>2. e \o r \in Seq(Child) /\ Len(e \o r) = Len(e) + Len(r)
    BY <1>1, <1>2, ConcatProperties
  <2>3. ASSUME NEW i \in 1 .. Len(r)
        PROVE  (e \o r)[Len(e) + i] = r[i]
    <3>1. /\ Len(e) + i \in 1 .. Len(e) + Len(r) /\ ~ (Len(e) + i <= Len(e))
          /\ Len(e) + i - Len(e) = i
      BY <1>1, <1>2
    <3> QED  BY <2>1, <3>1
  <2>4. ASSUME NEW i \in 1 .. Len(e)
        PROVE  (e \o r)[i] = e[i]
    BY <1>1, <1>2, <2>1
  <2> QED  BY <2>2, <2>3, <2>4
<1>4. ASSUME NEW i \in Len(e) + 1 .. Len(e) + Len(p) - Len(l)
      PROVE  (e \o r)[i] = p[i - Len(e) + Len(l)]
  <2> DEFINE j == i - Len(e)
  <2>1. j \in 1 .. Len(p) - Len(l) /\ Len(e) + j = i /\ Len(l) + j = i - Len(e) + Len(l)
    BY <1>1
  <2> HIDE DEF j
  <2> QED  BY <1>2, <1>3, <2>1
<1> QED  BY <1>1, <1>2, <1>3, <1>4 DEF r, Relative

\* Moved there it is below that directory, and moves back.
LEMMA MovedBack ==
  ASSUME NEW p \in Seq(Child), NEW l \in Seq(Child), NEW e \in Seq(Child), Under(p, l)
  PROVE  /\ Under(e \o Relative(p, l), e)
         /\ l \o Relative(e \o Relative(p, l), e) = p
         /\ p # l <=> e \o Relative(p, l) # e
<1> DEFINE q == e \o Relative(p, l)
           b == l \o Relative(q, e)
<1>1. /\ Len(p) \in Nat /\ Len(l) \in Nat /\ Len(e) \in Nat /\ Len(l) <= Len(p)
      /\ \A i \in 1 .. Len(l) : p[i] = l[i]
  BY UnderMeans
<1>2. /\ q \in Seq(Child) /\ Len(q) = Len(e) + Len(p) - Len(l)
      /\ \A i \in 1 .. Len(e) : q[i] = e[i]
      /\ \A i \in Len(e) + 1 .. Len(e) + Len(p) - Len(l) : q[i] = p[i - Len(e) + Len(l)]
  BY Moved
<1> HIDE DEF q
<1>3. Under(q, e)
  BY <1>1, <1>2, UnderMeans
<1>4. /\ b \in Seq(Child) /\ Len(b) = Len(l) + Len(q) - Len(e)
      /\ \A i \in 1 .. Len(l) : b[i] = l[i]
      /\ \A i \in Len(l) + 1 .. Len(l) + Len(q) - Len(e) : b[i] = q[i - Len(l) + Len(e)]
  BY <1>2, <1>3, Moved
<1> HIDE DEF b
<1>5. Len(b) = Len(p)
  BY <1>1, <1>2, <1>4
<1>6. ASSUME NEW i \in 1 .. Len(p)
      PROVE  b[i] = p[i]
  <2>1. CASE i <= Len(l)
    BY <1>1, <1>4, <2>1
  <2>2. CASE i > Len(l)
    <3> DEFINE j == i - Len(l) + Len(e)
    <3>1. /\ i \in Len(l) + 1 .. Len(l) + Len(q) - Len(e)
          /\ j \in Len(e) + 1 .. Len(e) + Len(p) - Len(l)
          /\ j - Len(e) + Len(l) = i
      BY <1>1, <1>2, <2>2
    <3>2. b[i] = q[j]
      BY <1>4, <3>1
    <3> HIDE DEF j
    <3>3. q[j] = p[j - Len(e) + Len(l)]
      BY <1>2, <3>1
    <3> QED  BY <3>1, <3>2, <3>3
  <2> QED  BY <1>1, <2>1, <2>2
<1>7. b = p
  BY <1>4, <1>5, <1>6, SeqEqual
<1>8. p = l => q = e
  <2> SUFFICES ASSUME p = l PROVE q = e
    OBVIOUS
  <2>1. Len(q) = Len(e)
    BY <1>1, <1>2
  <2> QED  BY <1>2, <2>1, SeqEqual
<1>9. q = e => p = l
  <2> SUFFICES ASSUME q = e PROVE p = l
    OBVIOUS
  <2>1. Len(p) = Len(l)
    BY <1>1, <1>2
  <2> QED  BY <1>1, <2>1, SeqEqual
<1> QED  BY <1>3, <1>7, <1>8, <1>9 DEF q, b

-----------------------------------------------------------------------------
(* The least and the greatest *)

LEMMA MinNat ==
  ASSUME NEW S \in SUBSET Nat, S # {}
  PROVE  Min(S) \in S /\ \A n \in S : Min(S) <= n
<1> DEFINE upTo(n) == {m \in S : m <= n}
           T == {upTo(n) : n \in S}
<1>1. ASSUME NEW n \in S
      PROVE  upTo(n) \in FiniteSubsetsOf(Nat)
  <2>1. IsFiniteSet(0 .. n)
    BY FS_Interval
  <2>2. \A m \in upTo(n) : m \in 0 .. n
    <3> SUFFICES ASSUME NEW m \in S, m <= n
                 PROVE  m \in 0 .. n
      OBVIOUS
    <3> QED  OBVIOUS
  <2>3. upTo(n) \subseteq 0 .. n /\ upTo(n) \subseteq Nat
    BY <2>2
  <2> QED  BY <2>1, <2>3, FS_Subset DEF FiniteSubsetsOf
<1>2. T \subseteq FiniteSubsetsOf(Nat) /\ T # {}
  BY <1>1
<1>3. \E x \in T : \A y \in T : ~ (<<y, x>> \in StrictSubsetOrdering(Nat))
  BY <1>2, FS_StrictSubsetOrderingWellFounded, WFMin
<1>4. PICK n \in S : \A m \in S : ~ (<<upTo(m), upTo(n)>> \in StrictSubsetOrdering(Nat))
  BY <1>3
<1>5. ASSUME NEW m \in S, m < n
      PROVE  FALSE
  <2>1. \A k \in S : k <= m => k <= n
    BY <1>5
  <2>3. upTo(m) \subseteq upTo(n) /\ n \in upTo(n) /\ n \notin upTo(m)
    <3>1. n <= n /\ ~ (n <= m)
      BY <1>5
    <3> QED  BY <2>1, <3>1
  <2>2. upTo(m) \in SUBSET Nat /\ upTo(n) \in SUBSET Nat
    OBVIOUS
  <2> QED  BY <1>4, <2>3, <2>2 DEF StrictSubsetOrdering
<1>6. \A m \in S : n <= m
  BY <1>5
<1> QED  BY <1>6 DEF Min

LEMMA MaxNat ==
  ASSUME NEW m \in Nat, NEW S \in SUBSET (0 .. m), S # {}
  PROVE  Max(S) \in S /\ \A n \in S : n <= Max(S)
<1> DEFINE T == {m - n : n \in S}
<1>1. T \in SUBSET Nat /\ T # {}
  <2>1. \A n \in S : n \in Nat /\ n <= m /\ m - n \in Nat
    OBVIOUS
  <2> QED  BY <2>1
<1>2. Min(T) \in T /\ \A n \in T : Min(T) <= n
  BY <1>1, MinNat
<1>3. PICK k \in S : Min(T) = m - k
  BY <1>2
<1>4. \A n \in S : m - k <= m - n
  BY <1>2, <1>3
<1>5. \A n \in S : k >= n
  BY <1>4
<1> QED  BY <1>5 DEF Max
=============================================================================
