------------------------- MODULE ArtChildrenProofs -------------------------
(***************************************************************************)
(* Proofs about the node of ArtChildren, for any capacities and any number *)
(* of bytes: in whatever layout it is, it is a map from bytes to children  *)
(* (ImplementsByteMap); the layout is the smallest that holds them, and    *)
(* eachChild visits them in order (WellFormed).                            *)
(*                                                                         *)
(* Whole(n) says what keeps a node of each layout together; one lemma per  *)
(* operation and layout shows that it keeps Whole and changes what the     *)
(* node holds at one byte only, or, when it moves to another layout, at    *)
(* none.                                                                   *)
(***************************************************************************)
EXTENDS ArtChildren, FiniteSetTheorems, TLAPS

-----------------------------------------------------------------------------
(* The least of some naturals, and sequences with an element more or less *)

LEMMA LeastNat ==
  ASSUME NEW S \in SUBSET Nat, S # {}
  PROVE  \E n \in S : \A m \in S : n <= m
<1> DEFINE upTo(n) == {m \in S : m <= n}
           T == {upTo(n) : n \in S}
<1>1. ASSUME NEW n \in S
      PROVE  upTo(n) \in FiniteSubsetsOf(Nat)
  <2>1. IsFiniteSet(0 .. n)
    BY FS_Interval
  <2>2. \A m \in upTo(n) : m \in 0 .. n
    <3> SUFFICES ASSUME NEW m \in S, m <= n
                 PROVE  m \in 0 .. n
      OBVIOUS
    <3> QED  OBVIOUS
  <2>3. upTo(n) \subseteq 0 .. n /\ upTo(n) \subseteq Nat
    BY <2>2
  <2> QED  BY <2>1, <2>3, FS_Subset DEF FiniteSubsetsOf
<1>2. T \subseteq FiniteSubsetsOf(Nat) /\ T # {}
  BY <1>1
<1>3. \E x \in T : \A y \in T : ~ (<<y, x>> \in StrictSubsetOrdering(Nat))
  BY <1>2, FS_StrictSubsetOrderingWellFounded, WFMin
<1>4. PICK n \in S : \A m \in S : ~ (<<upTo(m), upTo(n)>> \in StrictSubsetOrdering(Nat))
  BY <1>3
<1>5. ASSUME NEW m \in S, m < n
      PROVE  FALSE
  <2>1. \A k \in S : k <= m => k <= n
    BY <1>5
  <2>2. upTo(m) \subseteq upTo(n) /\ n \in upTo(n) /\ n \notin upTo(m)
    <3>1. n <= n /\ ~ (n <= m)
      BY <1>5
    <3> QED  BY <2>1, <3>1
  <2>3. upTo(m) \in SUBSET Nat /\ upTo(n) \in SUBSET Nat
    OBVIOUS
  <2> QED  BY <1>4, <2>2, <2>3 DEF StrictSubsetOrdering
<1> QED  BY <1>5

LEMMA Joined ==
  ASSUME NEW S, NEW s \in Seq(S), NEW t \in Seq(S)
  PROVE  /\ s \o t \in Seq(S) /\ Len(s \o t) = Len(s) + Len(t)
         /\ \A i \in 1 .. Len(s) : (s \o t)[i] = s[i]
         /\ \A i \in 1 .. Len(t) : (s \o t)[Len(s) + i] = t[i]
OBVIOUS

LEMMA Inserted ==
  ASSUME NEW S, NEW s \in Seq(S), NEW e \in S, NEW p \in 1 .. Len(s) + 1
  PROVE  /\ InsertAt(s, p, e) \in Seq(S)
         /\ Len(InsertAt(s, p, e)) = Len(s) + 1
         /\ \A i \in 1 .. Len(s) : i < p => InsertAt(s, p, e)[i] = s[i]
         /\ InsertAt(s, p, e)[p] = e
         /\ \A i \in 1 .. Len(s) : i >= p => InsertAt(s, p, e)[i + 1] = s[i]
<1> DEFINE front == SubSeq(s, 1, p - 1)
           back == SubSeq(s, p, Len(s))
           most == front \o <<e>>
<1>1. front \in Seq(S) /\ Len(front) = p - 1 /\ \A i \in 1 .. p - 1 : front[i] = s[i]
  OBVIOUS
<1>2. /\ back \in Seq(S) /\ Len(back) = Len(s) + 1 - p
      /\ \A i \in 1 .. Len(s) + 1 - p : back[i] = s[p + i - 1]
  OBVIOUS
<1> HIDE DEF front, back
<1>3. /\ most \in Seq(S) /\ Len(most) = p /\ most[p] = e
      /\ \A i \in 1 .. p - 1 : most[i] = s[i]
  <2>1. front \in Seq(S) /\ Len(front) = p - 1
    BY <1>1
  <2>2. /\ most \in Seq(S) /\ Len(most) = p /\ most[p] = e
        /\ \A i \in 1 .. p - 1 : most[i] = front[i]
    BY <2>1
  <2> QED  BY <1>1, <2>2
<1> HIDE DEF most
<1>4. InsertAt(s, p, e) = most \o back
  BY DEF InsertAt, front, back, most
<1>5. /\ most \o back \in Seq(S) /\ Len(most \o back) = Len(s) + 1
      /\ \A i \in 1 .. p : (most \o back)[i] = most[i]
      /\ \A j \in 1 .. Len(s) + 1 - p : (most \o back)[p + j] = back[j]
  BY <1>2, <1>3, Joined
<1>6. ASSUME NEW i \in 1 .. Len(s), i >= p
      PROVE  (most \o back)[i + 1] = s[i]
  <2>1. i + 1 - p \in 1 .. Len(s) + 1 - p /\ p + (i + 1 - p) = i + 1
    BY <1>6
  <2>2. back[i + 1 - p] = s[p + (i + 1 - p) - 1]
    BY <1>2, <2>1
  <2>3. (most \o back)[i + 1] = back[i + 1 - p]
    BY <1>5, <2>1
  <2> QED  BY <2>1, <2>2, <2>3
<1> QED  BY <1>3, <1>4, <1>5, <1>6

LEMMA Removed ==
  ASSUME NEW S, NEW s \in Seq(S), NEW p \in 1 .. Len(s)
  PROVE  /\ RemoveAt(s, p) \in Seq(S)
         /\ Len(RemoveAt(s, p)) = Len(s) - 1
         /\ \A i \in 1 .. Len(s) : i < p => RemoveAt(s, p)[i] = s[i]
         /\ \A i \in 1 .. Len(s) : i > p => RemoveAt(s, p)[i - 1] = s[i]
<1> DEFINE front == SubSeq(s, 1, p - 1)
           back == SubSeq(s, p + 1, Len(s))
<1>1. front \in Seq(S) /\ Len(front) = p - 1 /\ \A i \in 1 .. p - 1 : front[i] = s[i]
  OBVIOUS
<1>2. /\ back \in Seq(S) /\ Len(back) = Len(s) - p
      /\ \A i \in 1 .. Len(s) - p : back[i] = s[p + i]
  OBVIOUS
<1> HIDE DEF front, back
<1>3. RemoveAt(s, p) = front \o back
  BY DEF RemoveAt, front, back
<1>4. /\ front \o back \in Seq(S) /\ Len(front \o back) = Len(s) - 1
      /\ \A i \in 1 .. p - 1 : (front \o back)[i] = front[i]
      /\ \A j \in 1 .. Len(s) - p : (front \o back)[p - 1 + j] = back[j]
  <2> DEFINE w == front \o back
  <2>1. front \in Seq(S) /\ back \in Seq(S)
    BY <1>1, <1>2
  <2>2. /\ w \in Seq(S) /\ Len(w) = Len(front) + Len(back)
        /\ \A i \in 1 .. Len(front) : w[i] = front[i]
        /\ \A j \in 1 .. Len(back) : w[Len(front) + j] = back[j]
    BY <2>1
  <2>3. Len(front) = p - 1 /\ Len(back) = Len(s) - p
    BY <1>1, <1>2
  <2> HIDE DEF w
  <2>4. /\ w \in Seq(S) /\ Len(w) = Len(s) - 1
        /\ \A i \in 1 .. p - 1 : w[i] = front[i]
        /\ \A j \in 1 .. Len(s) - p : w[p - 1 + j] = back[j]
    BY <2>2, <2>3
  <2> QED  BY <2>4 DEF w
<1>5. ASSUME NEW i \in 1 .. Len(s), i > p
      PROVE  (front \o back)[i - 1] = s[i]
  <2>1. i - p \in 1 .. Len(s) - p /\ p + (i - p) = i /\ p - 1 + (i - p) = i - 1
    BY <1>5
  <2>2. back[i - p] = s[p + (i - p)]
    BY <1>2, <2>1
  <2>3. (front \o back)[i - 1] = back[i - p]
    BY <1>4, <2>1
  <2> QED  BY <2>1, <2>2, <2>3
<1> QED  BY <1>1, <1>3, <1>4, <1>5

-----------------------------------------------------------------------------
(* What keeps a node together *)

USE ChildrenAssumption

Increasing(keys) == \A i, j \in 1 .. Len(keys) : i < j => keys[i] < keys[j]

\* A node4 or node16: its keys in order, each with a child beside it.
Sorted(n) ==
    /\ \E layout \in {"node4", "node16"}, keys \in Seq(Bytes), children \in Seq(Children) :
          /\ Len(keys) = Len(children)
          /\ n = SortedNode(layout, keys, children)
    /\ Increasing(n.keys)

\* A node48: a byte's slot is its own, and the slots without a byte are free.
Slotted(n) ==
    /\ n \in [layout : {"node48"}, count : Nat, index : [Bytes -> 0 .. Cap48],
              children : [1 .. Cap48 -> Children \cup {Nil}]]
    /\ \A k, l \in Bytes : n.index[k] # 0 /\ n.index[k] = n.index[l] => k = l
    /\ \A slot \in 1 .. Cap48 :
          n.children[slot] # Nil <=> \E k \in Bytes : n.index[k] = slot

Direct(n) ==
    n \in [layout : {"node256"}, count : Nat, children : [Bytes -> Children \cup {Nil}]]

Whole(n) ==
    /\ Sorted(n) \/ Slotted(n) \/ Direct(n)
    /\ n.count = Cardinality(Taken(n))

\* What the node is as a map.
Contents(n) == [k \in Bytes |-> ChildAt(n, k)]

\* The layout for so many children.
LayoutFor(count) ==
    CASE count <= Cap4 -> "node4"
      [] count \in Cap4 + 1 .. Cap16 -> "node16"
      [] count \in Cap16 + 1 .. Cap48 -> "node48"
      [] count > Cap48 -> "node256"

LEMMA CapFacts ==
  /\ Cap4 \in Nat /\ Cap16 \in Nat /\ Cap48 \in Nat /\ MaxByte \in Nat
  /\ 1 < Cap4 /\ Cap4 < Cap16 /\ Cap16 < Cap48 /\ Cap48 <= MaxByte
  /\ Bytes \subseteq Nat
  /\ IsFiniteSet(Bytes)
<1>1. IsFiniteSet(0 .. MaxByte)
  BY CapAssumption, FS_Interval DEF CapAssumption
<1> QED  BY <1>1, CapAssumption DEF CapAssumption, Bytes

\* The children counted.
LEMMA TakenFinite ==
  ASSUME NEW n
  PROVE  /\ IsFiniteSet(Taken(n)) /\ Cardinality(Taken(n)) \in Nat
         /\ Taken(n) = {k \in Bytes : Contents(n)[k] # Nil}
<1>1. Taken(n) \subseteq Bytes
  BY DEF Taken
<1>2. IsFiniteSet(Taken(n))
  BY <1>1, CapFacts, FS_Subset
<1> QED  BY <1>2, FS_CardinalityType DEF Taken, Contents

\* One child more, or one less.
LEMMA OneMore ==
  ASSUME NEW n, NEW m, NEW key \in Bytes, NEW child, child # Nil,
         ChildAt(n, key) = Nil, Contents(m) = [Contents(n) EXCEPT ![key] = child]
  PROVE  Cardinality(Taken(m)) = Cardinality(Taken(n)) + 1
<1>1. \A k \in Bytes : ChildAt(m, k) = IF k = key THEN child ELSE ChildAt(n, k)
  BY DEF Contents
<1>2. Taken(m) = Taken(n) \cup {key} /\ key \notin Taken(n)
  BY <1>1 DEF Taken
<1> QED  BY <1>2, TakenFinite, FS_AddElement

LEMMA AsMany ==
  ASSUME NEW n, NEW m, NEW key \in Bytes, NEW child, child # Nil,
         ChildAt(n, key) # Nil, Contents(m) = [Contents(n) EXCEPT ![key] = child]
  PROVE  Cardinality(Taken(m)) = Cardinality(Taken(n))
<1>1. \A k \in Bytes : ChildAt(m, k) = IF k = key THEN child ELSE ChildAt(n, k)
  BY DEF Contents
<1>2. Taken(m) = Taken(n)
  BY <1>1 DEF Taken
<1> QED  BY <1>2

LEMMA OneLess ==
  ASSUME NEW n, NEW m, NEW key \in Bytes,
         ChildAt(n, key) # Nil, Contents(m) = [Contents(n) EXCEPT ![key] = Nil]
  PROVE  Cardinality(Taken(m)) = Cardinality(Taken(n)) - 1
<1>1. \A k \in Bytes : ChildAt(m, k) = IF k = key THEN Nil ELSE ChildAt(n, k)
  BY DEF Contents
<1>2. Taken(m) = Taken(n) \ {key} /\ key \in Taken(n)
  BY <1>1 DEF Taken
<1> QED  BY <1>2, TakenFinite, FS_RemoveElement

-----------------------------------------------------------------------------
(* Nodes with sorted keys *)

LEMMA SortedFacts ==
  ASSUME NEW n, Sorted(n)
  PROVE  /\ n.layout \in {"node4", "node16"} /\ IsSortedLayout(n)
         /\ n.keys \in Seq(Bytes) /\ n.children \in Seq(Children)
         /\ n.count \in Nat /\ Len(n.keys) = n.count /\ Len(n.children) = n.count
         /\ n = SortedNode(n.layout, n.keys, n.children)
         /\ \A i \in 1 .. n.count : n.keys[i] \in Bytes /\ n.children[i] \in Children
         /\ \A i, j \in 1 .. n.count : i < j => n.keys[i] < n.keys[j]
BY DEF Sorted, SortedNode, IsSortedLayout, Increasing

LEMMA SortedRead ==
  ASSUME NEW n, Sorted(n), NEW key \in Bytes
  PROVE  /\ \A i \in 1 .. n.count : n.keys[i] = key =>
               /\ HasPlace(n, key) /\ PlaceOf(n, key) = i
               /\ ChildAt(n, key) = n.children[i] /\ ChildAt(n, key) # Nil
         /\ (\A i \in 1 .. n.count : n.keys[i] # key) => ChildAt(n, key) = Nil
         /\ ChildAt(n, key) # Nil =>
               PlaceOf(n, key) \in 1 .. n.count /\ n.keys[PlaceOf(n, key)] = key
<1>1. ASSUME NEW i \in 1 .. n.count, n.keys[i] = key
      PROVE  /\ HasPlace(n, key) /\ PlaceOf(n, key) = i
             /\ ChildAt(n, key) = n.children[i] /\ ChildAt(n, key) # Nil
  <2>1. HasPlace(n, key)
    BY <1>1 DEF HasPlace
  <2>2. ASSUME NEW j \in 1 .. n.count, n.keys[j] = key
        PROVE  j = i
    <3>1. ~ (i < j) /\ ~ (j < i)
      BY <1>1, <2>2, SortedFacts, CapFacts
    <3> QED  BY <3>1, SortedFacts
  <2>3. PlaceOf(n, key) = i
    BY <1>1, <2>2 DEF PlaceOf
  <2>4. ChildAt(n, key) = n.children[i]
    BY <2>1, <2>3, SortedFacts DEF ChildAt
  <2> QED  BY <2>1, <2>3, <2>4, SortedFacts DEF ChildrenAssumption
<1>2. ASSUME \A i \in 1 .. n.count : n.keys[i] # key
      PROVE  ChildAt(n, key) = Nil
  BY <1>2, SortedFacts DEF ChildAt, HasPlace
<1> QED  BY <1>1, <1>2

\* A sorted node built of keys in order and as many children.
LEMMA SortedBuilt ==
  ASSUME NEW layout \in {"node4", "node16"}, NEW keys \in Seq(Bytes),
         NEW children \in Seq(Children), Len(keys) = Len(children), Increasing(keys)
  PROVE  LET n == SortedNode(layout, keys, children)
         IN  /\ Sorted(n) /\ n.layout = layout /\ n.count = Len(keys)
             /\ n.keys = keys /\ n.children = children
BY DEF Sorted, SortedNode

\* PlaceFor parts the smaller keys from the greater.
LEMMA PlaceForKey ==
  ASSUME NEW n, Sorted(n), NEW key \in Bytes, ChildAt(n, key) = Nil
  PROVE  /\ PlaceFor(n, key) \in 1 .. n.count + 1
         /\ \A i \in 1 .. n.count : i < PlaceFor(n, key) <=> n.keys[i] < key
         /\ \A i \in 1 .. n.count : n.keys[i] # key
<1> DEFINE lower == {i \in 1 .. n.count : n.keys[i] <= key}
           above == (1 .. n.count + 1) \ lower
<1>1. n.count \in Nat /\ key \in Nat /\ \A i \in 1 .. n.count : n.keys[i] \in Nat
  BY SortedFacts, CapFacts
<1>2. above \in SUBSET Nat /\ n.count + 1 \in above
  BY <1>1
<1>3. PICK p \in above : \A i \in above : p <= i
  BY <1>2, LeastNat
<1>4. p \in 1 .. n.count + 1
  BY <1>3
<1>5. lower = 1 .. p - 1
  <2>1. ASSUME NEW i \in 1 .. p - 1
        PROVE  i \in lower
    BY <1>1, <1>3, <1>4, <2>1
  <2>2. ASSUME NEW i \in lower, ~ (i < p)
        PROVE  FALSE
    <3>1. i \in 1 .. n.count /\ p \in 1 .. n.count /\ i # p /\ n.keys[i] <= key
      BY <1>1, <1>3, <1>4, <2>2
    <3>2. n.keys[p] < n.keys[i]
      BY <3>1, <2>2, <1>1, SortedFacts
    <3>3. n.keys[p] <= key
      BY <3>1, <3>2, <1>1
    <3> QED  BY <3>1, <3>3, <1>3
  <2> QED  BY <1>1, <1>4, <2>1, <2>2
<1>6. PlaceFor(n, key) = p
  <2>1. Cardinality(1 .. p - 1) = p - 1
    BY <1>4, <1>1, FS_Interval
  <2>2. PlaceFor(n, key) = Cardinality(lower) + 1
    BY DEF PlaceFor
  <2>3. p - 1 + 1 = p
    BY <1>1, <1>4
  <2> QED  BY <1>5, <2>1, <2>2, <2>3
<1>7. \A i \in 1 .. n.count : n.keys[i] # key
  BY SortedRead
<1>8. \A i \in 1 .. n.count : i < p <=> n.keys[i] < key
  BY <1>1, <1>4, <1>5, <1>7
<1> QED  BY <1>4, <1>6, <1>7, <1>8

\* Contents, byte by byte.
LEMMA SameButOne ==
  ASSUME NEW n, NEW m, NEW key \in Bytes, NEW child, ChildAt(m, key) = child,
         \A k \in Bytes \ {key} : ChildAt(m, k) = ChildAt(n, k)
  PROVE  Contents(m) = [Contents(n) EXCEPT ![key] = child]
BY DEF Contents

LEMMA SortedAdd ==
  ASSUME NEW n, Sorted(n), NEW key \in Bytes, ChildAt(n, key) = Nil,
         NEW child \in Children
  PROVE  LET m == AddToRoom(n, key, child)
         IN  /\ Sorted(m) /\ m.layout = n.layout /\ m.count = n.count + 1
             /\ Contents(m) = [Contents(n) EXCEPT ![key] = child]
<1> DEFINE p == PlaceFor(n, key)
           keys == InsertAt(n.keys, p, key)
           children == InsertAt(n.children, p, child)
           m == SortedNode(n.layout, keys, children)
<1>1. /\ p \in 1 .. n.count + 1 /\ n.count \in Nat
      /\ \A i \in 1 .. n.count : i < p <=> n.keys[i] < key
      /\ \A i \in 1 .. n.count : n.keys[i] # key
  BY PlaceForKey, SortedFacts
<1> HIDE DEF p
<1>2. AddToRoom(n, key, child) = m
  BY SortedFacts DEF AddToRoom, p
<1>3. /\ keys \in Seq(Bytes) /\ Len(keys) = n.count + 1 /\ keys[p] = key
      /\ \A i \in 1 .. n.count : i < p => keys[i] = n.keys[i]
      /\ \A i \in 1 .. n.count : i >= p => keys[i + 1] = n.keys[i]
  <2> DEFINE old == n.keys
  <2>1. old \in Seq(Bytes) /\ Len(old) = n.count
    BY SortedFacts
  <2> HIDE DEF old
  <2>2. p \in 1 .. Len(old) + 1
    BY <2>1, <1>1
  <2>3. /\ InsertAt(old, p, key) \in Seq(Bytes)
        /\ Len(InsertAt(old, p, key)) = Len(old) + 1
        /\ InsertAt(old, p, key)[p] = key
        /\ \A i \in 1 .. Len(old) : i < p => InsertAt(old, p, key)[i] = old[i]
        /\ \A i \in 1 .. Len(old) : i >= p => InsertAt(old, p, key)[i + 1] = old[i]
    BY <2>1, <2>2, Inserted
  <2>4. InsertAt(old, p, key) = keys
    BY DEF old
  <2> HIDE DEF keys
  <2>5. /\ keys \in Seq(Bytes) /\ Len(keys) = n.count + 1 /\ keys[p] = key
        /\ \A i \in 1 .. n.count : i < p => keys[i] = old[i]
        /\ \A i \in 1 .. n.count : i >= p => keys[i + 1] = old[i]
    BY <2>1, <2>3, <2>4
  <2> QED  BY <2>5 DEF old
<1>4. /\ children \in Seq(Children) /\ Len(children) = n.count + 1 /\ children[p] = child
      /\ \A i \in 1 .. n.count : i < p => children[i] = n.children[i]
      /\ \A i \in 1 .. n.count : i >= p => children[i + 1] = n.children[i]
  <2>1. n.children \in Seq(Children) /\ Len(n.children) = n.count
    BY SortedFacts
  <2>2. p \in 1 .. Len(n.children) + 1
    BY <2>1, <1>1
  <2>3. /\ children \in Seq(Children) /\ Len(children) = Len(n.children) + 1
        /\ children[p] = child
        /\ \A i \in 1 .. Len(n.children) : i < p => children[i] = n.children[i]
        /\ \A i \in 1 .. Len(n.children) : i >= p => children[i + 1] = n.children[i]
    <3> DEFINE old == n.children
    <3> HIDE DEF old
    <3>1. old \in Seq(Children) /\ p \in 1 .. Len(old) + 1
      BY <2>1, <2>2 DEF old
    <3>2. /\ InsertAt(old, p, child) \in Seq(Children)
          /\ Len(InsertAt(old, p, child)) = Len(old) + 1
          /\ InsertAt(old, p, child)[p] = child
          /\ \A i \in 1 .. Len(old) : i < p => InsertAt(old, p, child)[i] = old[i]
          /\ \A i \in 1 .. Len(old) : i >= p => InsertAt(old, p, child)[i + 1] = old[i]
      BY <3>1, Inserted
    <3> QED  BY <3>2 DEF old
  <2> HIDE DEF children
  <2> QED  BY <2>1, <2>3
<1> HIDE DEF keys, children
<1>5. Increasing(keys)
  <2> SUFFICES ASSUME NEW i \in 1 .. n.count + 1, NEW j \in 1 .. n.count + 1, i < j
               PROVE  keys[i] < keys[j]
    BY <1>3 DEF Increasing
  <2>1. key \in Nat /\ \A l \in 1 .. n.count : n.keys[l] \in Nat
    BY SortedFacts, CapFacts
  <2>2. CASE j < p
    <3>1. i \in 1 .. n.count /\ j \in 1 .. n.count /\ i < p
      BY <2>2, <1>1
    <3> QED  BY <3>1, <2>2, <1>3, SortedFacts
  <2>3. CASE j = p
    <3>1. i \in 1 .. n.count /\ i < p
      BY <2>3, <1>1
    <3>2. n.keys[i] < key
      BY <3>1, <1>1
    <3> QED  BY <3>1, <3>2, <2>3, <1>3
  <2>4. CASE j > p
    <3>1. j - 1 \in 1 .. n.count /\ j - 1 >= p /\ j - 1 + 1 = j
      BY <2>4, <1>1
    <3>2. keys[j] = n.keys[j - 1] /\ key < n.keys[j - 1]
      <4>1. keys[j - 1 + 1] = n.keys[j - 1]
        BY <3>1, <1>3
      <4>2. ~ (n.keys[j - 1] < key) /\ n.keys[j - 1] # key
        BY <3>1, <1>1
      <4> QED  BY <3>1, <4>1, <4>2, <2>1
    <3>3. CASE i < p
      <4>1. i \in 1 .. n.count /\ i < j - 1
        BY <3>3, <3>1, <1>1
      <4> QED  BY <4>1, <3>1, <3>2, <3>3, <1>3, SortedFacts
    <3>4. CASE i = p
      BY <3>4, <3>2, <1>3
    <3>5. CASE i > p
      <4>1. i - 1 \in 1 .. n.count /\ i - 1 >= p /\ i - 1 + 1 = i /\ i - 1 < j - 1
        BY <3>5, <1>1
      <4>2. keys[i - 1 + 1] = n.keys[i - 1]
        BY <4>1, <1>3
      <4> QED  BY <4>1, <4>2, <3>1, <3>2, SortedFacts
    <3> QED  BY <3>3, <3>4, <3>5, <1>1
  <2> QED  BY <2>2, <2>3, <2>4, <1>1
<1>6. /\ Sorted(m) /\ m.layout = n.layout /\ m.count = n.count + 1
      /\ m.keys = keys /\ m.children = children
  <2>1. n.layout \in {"node4", "node16"} /\ Len(keys) = Len(children)
    BY <1>3, <1>4, SortedFacts
  <2>2. /\ Sorted(m) /\ m.layout = n.layout /\ m.count = Len(keys)
        /\ m.keys = keys /\ m.children = children
    BY <2>1, <1>3, <1>4, <1>5, SortedBuilt
  <2> QED  BY <2>2, <1>3
<1> HIDE DEF m
<1>7. ChildAt(m, key) = child
  <2>1. p \in 1 .. m.count /\ m.keys[p] = key
    BY <1>1, <1>3, <1>6
  <2> QED  BY <2>1, <1>4, <1>6, SortedRead
<1>8. ASSUME NEW k \in Bytes \ {key}
      PROVE  ChildAt(m, k) = ChildAt(n, k)
  <2>1. ASSUME NEW i \in 1 .. n.count, n.keys[i] = k
        PROVE  ChildAt(m, k) = ChildAt(n, k)
    <3>1. ChildAt(n, k) = n.children[i]
      BY <2>1, SortedRead
    <3>2. CASE i < p
      <4>1. i \in 1 .. m.count /\ m.keys[i] = k /\ m.children[i] = n.children[i]
        BY <3>2, <2>1, <1>1, <1>3, <1>4, <1>6
      <4> QED  BY <4>1, <3>1, <1>6, SortedRead
    <3>3. CASE i >= p
      <4>1. i + 1 \in 1 .. m.count /\ m.keys[i + 1] = k /\ m.children[i + 1] = n.children[i]
        BY <3>3, <2>1, <1>1, <1>3, <1>4, <1>6
      <4> QED  BY <4>1, <3>1, <1>6, SortedRead
    <3> QED  BY <3>2, <3>3, <1>1
  <2>2. ASSUME \A i \in 1 .. n.count : n.keys[i] # k
        PROVE  ChildAt(m, k) = ChildAt(n, k)
    <3>1. ChildAt(n, k) = Nil
      BY <2>2, SortedRead
    <3>2. ASSUME NEW j \in 1 .. m.count
          PROVE  m.keys[j] # k
      <4>1. j \in 1 .. n.count + 1
        BY <1>6
      <4>2. CASE j < p
        <5>1. j \in 1 .. n.count
          BY <4>1, <4>2, <1>1
        <5> QED  BY <5>1, <4>2, <1>3, <1>6, <2>2
      <4>3. CASE j = p
        BY <4>3, <1>3, <1>6
      <4>4. CASE j > p
        <5>1. j - 1 \in 1 .. n.count /\ j - 1 >= p /\ j - 1 + 1 = j
          BY <4>1, <4>4, <1>1
        <5>2. keys[j - 1 + 1] = n.keys[j - 1]
          BY <5>1, <1>3
        <5> QED  BY <5>1, <5>2, <1>6, <2>2
      <4> QED  BY <4>1, <4>2, <4>3, <4>4, <1>1
    <3> QED  BY <3>1, <3>2, <1>6, SortedRead
  <2> QED  BY <2>1, <2>2
<1>9. Contents(m) = [Contents(n) EXCEPT ![key] = child]
  BY <1>7, <1>8, SameButOne
<1> QED  BY <1>2, <1>6, <1>9

LEMMA SortedReplace ==
  ASSUME NEW n, Sorted(n), NEW key \in Bytes, ChildAt(n, key) # Nil,
         NEW child \in Children
  PROVE  LET m == ReplaceChild(n, key, child)
         IN  /\ Sorted(m) /\ m.layout = n.layout /\ m.count = n.count
             /\ Contents(m) = [Contents(n) EXCEPT ![key] = child]
<1> DEFINE p == PlaceOf(n, key)
           children == [n.children EXCEPT ![p] = child]
           m == SortedNode(n.layout, n.keys, children)
<1>1. p \in 1 .. n.count /\ n.keys[p] = key
  BY SortedRead
<1> HIDE DEF p
<1>2. ReplaceChild(n, key, child) = m
  <2>1. ReplaceChild(n, key, child) = [n EXCEPT !.children[p] = child]
    BY SortedFacts DEF ReplaceChild, p
  <2>2. n = [layout |-> n.layout, count |-> Len(n.keys), keys |-> n.keys,
             children |-> n.children]
    BY SortedFacts DEF SortedNode
  <2> QED  BY <2>1, <2>2 DEF SortedNode
<1>3. children \in Seq(Children) /\ Len(children) = n.count
  BY <1>1, SortedFacts
<1>4. \A i \in 1 .. n.count : children[i] = IF i = p THEN child ELSE n.children[i]
  BY <1>1, SortedFacts
<1> HIDE DEF children
<1>5. /\ Sorted(m) /\ m.layout = n.layout /\ m.count = n.count
      /\ m.keys = n.keys /\ m.children = children
  <2>1. Increasing(n.keys)
    BY DEF Sorted
  <2> QED  BY <2>1, <1>3, SortedBuilt, SortedFacts
<1> HIDE DEF m
<1>6. ChildAt(m, key) = child
  BY <1>1, <1>4, <1>5, SortedRead
<1>7. ASSUME NEW k \in Bytes \ {key}
      PROVE  ChildAt(m, k) = ChildAt(n, k)
  <2>1. ASSUME NEW i \in 1 .. n.count, n.keys[i] = k
        PROVE  ChildAt(m, k) = ChildAt(n, k)
    <3>1. ChildAt(n, k) = n.children[i]
      BY <2>1, SortedRead
    <3>2. ChildAt(m, k) = m.children[i]
      BY <2>1, <1>5, SortedRead
    <3> QED  BY <3>1, <3>2, <2>1, <1>1, <1>4, <1>5
  <2>2. ASSUME \A i \in 1 .. n.count : n.keys[i] # k
        PROVE  ChildAt(m, k) = ChildAt(n, k)
    <3>1. ChildAt(n, k) = Nil
      BY <2>2, SortedRead
    <3>2. ChildAt(m, k) = Nil
      BY <2>2, <1>5, SortedRead
    <3> QED  BY <3>1, <3>2
  <2> QED  BY <2>1, <2>2
<1>8. Contents(m) = [Contents(n) EXCEPT ![key] = child]
  BY <1>6, <1>7, SameButOne
<1> QED  BY <1>2, <1>5, <1>8

LEMMA SortedCut ==
  ASSUME NEW n, Sorted(n), NEW key \in Bytes, ChildAt(n, key) # Nil
  PROVE  LET m == CutChild(n, key)
         IN  /\ Sorted(m) /\ m.layout = n.layout /\ m.count = n.count - 1
             /\ Contents(m) = [Contents(n) EXCEPT ![key] = Nil]
<1> DEFINE p == PlaceOf(n, key)
           keys == RemoveAt(n.keys, p)
           children == RemoveAt(n.children, p)
           m == SortedNode(n.layout, keys, children)
<1>1. p \in 1 .. n.count /\ n.keys[p] = key /\ n.count \in Nat
  BY SortedRead, SortedFacts
<1> HIDE DEF p
<1>2. CutChild(n, key) = m
  BY SortedFacts DEF CutChild, p
<1>3. /\ keys \in Seq(Bytes) /\ Len(keys) = n.count - 1
      /\ \A i \in 1 .. n.count : i < p => keys[i] = n.keys[i]
      /\ \A i \in 1 .. n.count : i > p => keys[i - 1] = n.keys[i]
  <2>1. n.keys \in Seq(Bytes) /\ Len(n.keys) = n.count
    BY SortedFacts
  <2>2. p \in 1 .. Len(n.keys)
    BY <2>1, <1>1
  <2> QED  BY <2>1, <2>2, Removed
<1>4. /\ children \in Seq(Children) /\ Len(children) = n.count - 1
      /\ \A i \in 1 .. n.count : i < p => children[i] = n.children[i]
      /\ \A i \in 1 .. n.count : i > p => children[i - 1] = n.children[i]
  <2>1. n.children \in Seq(Children) /\ Len(n.children) = n.count
    BY SortedFacts
  <2>2. p \in 1 .. Len(n.children)
    BY <2>1, <1>1
  <2> QED  BY <2>1, <2>2, Removed
<1> HIDE DEF keys, children
\* Where the child at a place was before.
<1> DEFINE Was(i) == IF i < p THEN i ELSE i + 1
<1>5. \A i \in 1 .. n.count - 1 :
         Was(i) \in 1 .. n.count /\ Was(i) # p /\ keys[i] = n.keys[Was(i)]
  <2> SUFFICES ASSUME NEW i \in 1 .. n.count - 1
               PROVE  Was(i) \in 1 .. n.count /\ Was(i) # p /\ keys[i] = n.keys[Was(i)]
    OBVIOUS
  <2>1. CASE i < p
    BY <2>1, <1>1, <1>3
  <2>2. CASE ~ (i < p)
    <3>1. i + 1 \in 1 .. n.count /\ i + 1 > p /\ i + 1 - 1 = i
      BY <2>2, <1>1
    <3>2. keys[i + 1 - 1] = n.keys[i + 1]
      BY <3>1, <1>3
    <3> QED  BY <2>2, <3>1, <3>2, <1>1
  <2> QED  BY <2>1, <2>2
<1>6. Increasing(keys)
  <2> SUFFICES ASSUME NEW i \in 1 .. n.count - 1, NEW j \in 1 .. n.count - 1, i < j
               PROVE  keys[i] < keys[j]
    BY <1>3 DEF Increasing
  <2>1. Was(i) < Was(j)
    BY <1>1
  <2> QED  BY <2>1, <1>5, SortedFacts
<1> HIDE DEF Was
<1>7. /\ Sorted(m) /\ m.layout = n.layout /\ m.count = n.count - 1
      /\ m.keys = keys /\ m.children = children
  BY <1>3, <1>4, <1>6, SortedBuilt, SortedFacts
<1> HIDE DEF m
<1>8. ASSUME NEW k \in Bytes, NEW i \in 1 .. n.count, n.keys[i] = k, i # p
      PROVE  ChildAt(m, k) = ChildAt(n, k)
  <2>1. ChildAt(n, k) = n.children[i]
    BY <1>8, SortedRead
  <2>2. CASE i < p
    <3>1. i \in 1 .. m.count /\ m.keys[i] = k /\ m.children[i] = n.children[i]
      BY <2>2, <1>8, <1>1, <1>3, <1>4, <1>7
    <3> QED  BY <3>1, <2>1, <1>7, SortedRead
  <2>3. CASE i > p
    <3>1. i - 1 \in 1 .. m.count /\ m.keys[i - 1] = k /\ m.children[i - 1] = n.children[i]
      BY <2>3, <1>8, <1>1, <1>3, <1>4, <1>7
    <3> QED  BY <3>1, <2>1, <1>7, SortedRead
  <2> QED  BY <2>2, <2>3, <1>1, <1>8
<1>9. ASSUME NEW k \in Bytes, \A i \in 1 .. n.count : n.keys[i] = k => i = p
      PROVE  ChildAt(m, k) = Nil
  <2>1. \A i \in 1 .. m.count : m.keys[i] # k
    BY <1>5, <1>7, <1>9
  <2> QED  BY <2>1, <1>7, SortedRead
<1>10. ChildAt(m, key) = Nil
  <2>1. \A i \in 1 .. n.count : n.keys[i] = key => i = p
    BY SortedRead DEF p
  <2> QED  BY <2>1, <1>9
<1>11. ASSUME NEW k \in Bytes \ {key}
       PROVE  ChildAt(m, k) = ChildAt(n, k)
  <2>1. CASE \E i \in 1 .. n.count : n.keys[i] = k
    <3>1. PICK i \in 1 .. n.count : n.keys[i] = k
      BY <2>1
    <3>2. i # p
      BY <3>1, <1>1
    <3> QED  BY <3>1, <3>2, <1>8
  <2>2. CASE ~ \E i \in 1 .. n.count : n.keys[i] = k
    <3>1. ChildAt(n, k) = Nil
      BY <2>2, SortedRead
    <3> QED  BY <3>1, <2>2, <1>9
  <2> QED  BY <2>1, <2>2
<1>12. Contents(m) = [Contents(n) EXCEPT ![key] = Nil]
  BY <1>10, <1>11, SameButOne
<1> QED  BY <1>2, <1>7, <1>12

-----------------------------------------------------------------------------
(* Nodes with slots *)

LEMMA SlottedFacts ==
  ASSUME NEW n, Slotted(n)
  PROVE  /\ n.layout = "node48" /\ ~ IsSortedLayout(n)
         /\ n = Node48(n.count, n.index, n.children)
         /\ n.count \in Nat /\ n.index \in [Bytes -> 0 .. Cap48]
         /\ n.children \in [1 .. Cap48 -> Children \cup {Nil}]
         /\ \A k \in Bytes :
               /\ ChildAt(n, k) = IF n.index[k] = 0 THEN Nil ELSE n.children[n.index[k]]
               /\ ChildAt(n, k) # Nil <=> n.index[k] # 0
               /\ n.index[k] # 0 => n.index[k] \in 1 .. Cap48
<1>1. /\ n.layout = "node48" /\ ~ IsSortedLayout(n)
      /\ n = Node48(n.count, n.index, n.children)
      /\ n.count \in Nat /\ n.index \in [Bytes -> 0 .. Cap48]
      /\ n.children \in [1 .. Cap48 -> Children \cup {Nil}]
  BY DEF Slotted, Node48, IsSortedLayout
<1>2. ASSUME NEW k \in Bytes
      PROVE  /\ ChildAt(n, k) = IF n.index[k] = 0 THEN Nil ELSE n.children[n.index[k]]
             /\ ChildAt(n, k) # Nil <=> n.index[k] # 0
             /\ n.index[k] # 0 => n.index[k] \in 1 .. Cap48
  <2>1. n.index[k] # 0 => n.index[k] \in 1 .. Cap48
    BY <1>1, CapFacts
  <2>2. ChildAt(n, k) = IF n.index[k] = 0 THEN Nil ELSE n.children[n.index[k]]
    BY <1>1 DEF ChildAt
  <2>3. n.index[k] # 0 => n.children[n.index[k]] # Nil
    BY <2>1 DEF Slotted
  <2> QED  BY <2>1, <2>2, <2>3
<1> QED  BY <1>1, <1>2

\* A node48 with room has a free slot, and FirstFree is one.
LEMMA FreeSlot ==
  ASSUME NEW n, Slotted(n), Cardinality(Taken(n)) < Cap48
  PROVE  FirstFree(n) \in 1 .. Cap48 /\ n.children[FirstFree(n)] = Nil
<1> DEFINE used == [k \in Taken(n) |-> n.index[k]]
           free == {slot \in 1 .. Cap48 : n.children[slot] = Nil}
<1>1. free # {}
  <2> SUFFICES ASSUME free = {} PROVE FALSE
    OBVIOUS
  <2>1. \A slot \in 1 .. Cap48 : \E k \in Taken(n) : n.index[k] = slot
    <3> SUFFICES ASSUME NEW slot \in 1 .. Cap48
                 PROVE  \E k \in Taken(n) : n.index[k] = slot
      OBVIOUS
    <3>1. PICK k \in Bytes : n.index[k] = slot
      BY DEF Slotted
    <3>2. n.index[k] # 0
      BY <3>1, CapFacts
    <3> QED  BY <3>1, <3>2, SlottedFacts DEF Taken
  <2>2. used \in Surjection(Taken(n), 1 .. Cap48)
    <3>1. used \in [Taken(n) -> 1 .. Cap48]
      BY SlottedFacts DEF Taken
    <3> QED  BY <3>1, <2>1 DEF Surjection
  <2>3. Cardinality(1 .. Cap48) <= Cardinality(Taken(n))
    BY <2>2, TakenFinite, FS_Surjection
  <2>4. Cardinality(1 .. Cap48) = Cap48
    <3>1. 1 \in Int /\ Cap48 \in Int /\ ~ (1 > Cap48) /\ Cap48 - 1 + 1 = Cap48
      BY CapFacts
    <3> QED  BY <3>1, FS_Interval
  <2> QED  BY <2>3, <2>4, TakenFinite, CapFacts
<1>2. free \in SUBSET Nat
  BY CapFacts
<1>3. PICK slot \in free : \A s \in free : slot <= s
  BY <1>1, <1>2, LeastNat
<1>4. /\ slot \in 1 .. Cap48 /\ n.children[slot] = Nil
      /\ \A s \in 1 .. slot - 1 : n.children[s] # Nil
  BY <1>3, CapFacts
<1> QED  BY <1>4 DEF FirstFree

LEMMA SlottedAdd ==
  ASSUME NEW n, Slotted(n), Cardinality(Taken(n)) < Cap48, NEW key \in Bytes,
         ChildAt(n, key) = Nil, NEW child \in Children
  PROVE  LET m == AddToRoom(n, key, child)
         IN  /\ Slotted(m) /\ m.layout = n.layout /\ m.count = n.count + 1
             /\ Contents(m) = [Contents(n) EXCEPT ![key] = child]
<1> DEFINE f == FirstFree(n)
           index == [n.index EXCEPT ![key] = f]
           children == [n.children EXCEPT ![f] = child]
           m == Node48(n.count + 1, index, children)
<1>1. f \in 1 .. Cap48 /\ n.children[f] = Nil /\ f # 0
  BY FreeSlot, CapFacts
<1>2. AddToRoom(n, key, child) = m
  BY SlottedFacts DEF AddToRoom
<1> HIDE DEF f
<1>3. /\ n.index[key] = 0 /\ n.index \in [Bytes -> 0 .. Cap48] /\ n.count \in Nat
      /\ n.children \in [1 .. Cap48 -> Children \cup {Nil}] /\ child # Nil
      /\ \A k \in Bytes : n.index[k] # f
      /\ \A k, l \in Bytes : n.index[k] # 0 /\ n.index[k] = n.index[l] => k = l
      /\ \A slot \in 1 .. Cap48 :
            n.children[slot] # Nil <=> \E k \in Bytes : n.index[k] = slot
  BY <1>1, SlottedFacts DEF Slotted, ChildrenAssumption
<1>4. /\ index \in [Bytes -> 0 .. Cap48]
      /\ \A k \in Bytes : index[k] = IF k = key THEN f ELSE n.index[k]
      /\ children \in [1 .. Cap48 -> Children \cup {Nil}]
      /\ \A s \in 1 .. Cap48 : children[s] = IF s = f THEN child ELSE n.children[s]
  <2>1. f \in 0 .. Cap48
    BY <1>1, CapFacts
  <2> QED  BY <2>1, <1>1, <1>3
<1> HIDE DEF index, children
<1>5. /\ m.layout = "node48" /\ m.count = n.count + 1
      /\ m.index = index /\ m.children = children
      /\ m \in [layout : {"node48"}, count : Nat, index : [Bytes -> 0 .. Cap48],
                children : [1 .. Cap48 -> Children \cup {Nil}]]
  BY <1>3, <1>4 DEF Node48
<1> HIDE DEF m
<1>6. Slotted(m)
  <2>1. \A k, l \in Bytes : m.index[k] # 0 /\ m.index[k] = m.index[l] => k = l
    BY <1>3, <1>4, <1>5
  <2>2. ASSUME NEW slot \in 1 .. Cap48
        PROVE  m.children[slot] # Nil <=> \E k \in Bytes : m.index[k] = slot
    <3>1. CASE slot = f
      BY <3>1, <1>3, <1>4, <1>5
    <3>2. CASE slot # f
      <4>1. slot # 0
        BY CapFacts
      <4>2. \A k \in Bytes : m.index[k] = slot <=> n.index[k] = slot
        BY <3>2, <4>1, <1>3, <1>4, <1>5
      <4> QED  BY <3>2, <4>2, <1>3, <1>4, <1>5
    <3> QED  BY <3>1, <3>2
  <2> QED  BY <2>1, <2>2, <1>5 DEF Slotted
<1>7. ChildAt(m, key) = child
  <2>1. m.index[key] = f /\ m.children[f] = child
    BY <1>1, <1>4, <1>5
  <2> QED  BY <2>1, <1>1, <1>6, SlottedFacts
<1>8. ASSUME NEW k \in Bytes \ {key}
      PROVE  ChildAt(m, k) = ChildAt(n, k)
  <2>1. m.index[k] = n.index[k]
    BY <1>4, <1>5
  <2>2. n.index[k] # 0 => m.children[n.index[k]] = n.children[n.index[k]]
    BY <1>3, <1>4, <1>5, SlottedFacts
  <2> QED  BY <2>1, <2>2, <1>6, SlottedFacts
<1>9. Contents(m) = [Contents(n) EXCEPT ![key] = child]
  BY <1>7, <1>8, SameButOne
<1> QED  BY <1>2, <1>5, <1>6, <1>9, SlottedFacts

LEMMA SlottedReplace ==
  ASSUME NEW n, Slotted(n), NEW key \in Bytes, ChildAt(n, key) # Nil,
         NEW child \in Children
  PROVE  LET m == ReplaceChild(n, key, child)
         IN  /\ Slotted(m) /\ m.layout = n.layout /\ m.count = n.count
             /\ Contents(m) = [Contents(n) EXCEPT ![key] = child]
<1> DEFINE f == n.index[key]
           children == [n.children EXCEPT ![f] = child]
           m == Node48(n.count, n.index, children)
<1>1. f \in 1 .. Cap48 /\ f # 0 /\ child # Nil
  BY SlottedFacts DEF ChildrenAssumption
<1>2. ReplaceChild(n, key, child) = m
  <2>1. ReplaceChild(n, key, child) = [n EXCEPT !.children[n.index[key]] = child]
    BY SlottedFacts DEF ReplaceChild
  <2>2. n = [layout |-> "node48", count |-> n.count, index |-> n.index,
             children |-> n.children]
    BY SlottedFacts DEF Node48
  <2> QED  BY <2>1, <2>2 DEF Node48
<1>3. /\ n.index \in [Bytes -> 0 .. Cap48] /\ n.count \in Nat
      /\ n.children \in [1 .. Cap48 -> Children \cup {Nil}]
      /\ \A k, l \in Bytes : n.index[k] # 0 /\ n.index[k] = n.index[l] => k = l
      /\ \A slot \in 1 .. Cap48 :
            n.children[slot] # Nil <=> \E k \in Bytes : n.index[k] = slot
  BY SlottedFacts DEF Slotted
<1>4. /\ children \in [1 .. Cap48 -> Children \cup {Nil}]
      /\ \A s \in 1 .. Cap48 : children[s] = IF s = f THEN child ELSE n.children[s]
  BY <1>1, <1>3
<1> HIDE DEF children
<1>5. /\ m.layout = "node48" /\ m.count = n.count
      /\ m.index = n.index /\ m.children = children
      /\ m \in [layout : {"node48"}, count : Nat, index : [Bytes -> 0 .. Cap48],
                children : [1 .. Cap48 -> Children \cup {Nil}]]
  BY <1>3, <1>4 DEF Node48
<1> HIDE DEF m
<1>6. Slotted(m)
  <2>1. ASSUME NEW slot \in 1 .. Cap48
        PROVE  m.children[slot] # Nil <=> \E k \in Bytes : m.index[k] = slot
    BY <1>1, <1>3, <1>4, <1>5
  <2> QED  BY <2>1, <1>3, <1>5 DEF Slotted
<1>7. ChildAt(m, key) = child
  <2>1. m.index[key] = f /\ m.children[f] = child
    BY <1>1, <1>4, <1>5
  <2> QED  BY <2>1, <1>1, <1>6, SlottedFacts
<1>8. ASSUME NEW k \in Bytes \ {key}
      PROVE  ChildAt(m, k) = ChildAt(n, k)
  <2>1. n.index[k] # 0 => m.children[n.index[k]] = n.children[n.index[k]]
    BY <1>3, <1>4, <1>5, SlottedFacts
  <2> QED  BY <2>1, <1>5, <1>6, SlottedFacts
<1>9. Contents(m) = [Contents(n) EXCEPT ![key] = child]
  BY <1>7, <1>8, SameButOne
<1> QED  BY <1>2, <1>5, <1>6, <1>9, SlottedFacts

LEMMA SlottedCut ==
  ASSUME NEW n, Slotted(n), n.count # 0, NEW key \in Bytes, ChildAt(n, key) # Nil
  PROVE  LET m == CutChild(n, key)
         IN  /\ Slotted(m) /\ m.layout = n.layout /\ m.count = n.count - 1
             /\ Contents(m) = [Contents(n) EXCEPT ![key] = Nil]
<1> DEFINE f == n.index[key]
           index == [n.index EXCEPT ![key] = 0]
           children == [n.children EXCEPT ![f] = Nil]
           m == Node48(n.count - 1, index, children)
<1>1. f \in 1 .. Cap48 /\ f # 0
  BY SlottedFacts
<1>2. CutChild(n, key) = m
  BY SlottedFacts DEF CutChild
<1>3. /\ n.index \in [Bytes -> 0 .. Cap48] /\ n.count - 1 \in Nat
      /\ n.children \in [1 .. Cap48 -> Children \cup {Nil}]
      /\ \A k, l \in Bytes : n.index[k] # 0 /\ n.index[k] = n.index[l] => k = l
      /\ \A slot \in 1 .. Cap48 :
            n.children[slot] # Nil <=> \E k \in Bytes : n.index[k] = slot
  BY SlottedFacts DEF Slotted
<1>4. /\ index \in [Bytes -> 0 .. Cap48]
      /\ \A k \in Bytes : index[k] = IF k = key THEN 0 ELSE n.index[k]
      /\ children \in [1 .. Cap48 -> Children \cup {Nil}]
      /\ \A s \in 1 .. Cap48 : children[s] = IF s = f THEN Nil ELSE n.children[s]
  <2>1. 0 \in 0 .. Cap48
    BY CapFacts
  <2> QED  BY <2>1, <1>1, <1>3
<1> HIDE DEF index, children
<1>5. /\ m.layout = "node48" /\ m.count = n.count - 1
      /\ m.index = index /\ m.children = children
      /\ m \in [layout : {"node48"}, count : Nat, index : [Bytes -> 0 .. Cap48],
                children : [1 .. Cap48 -> Children \cup {Nil}]]
  BY <1>3, <1>4 DEF Node48
<1> HIDE DEF m
<1>6. Slotted(m)
  <2>1. \A k, l \in Bytes : m.index[k] # 0 /\ m.index[k] = m.index[l] => k = l
    BY <1>3, <1>4, <1>5
  <2>2. ASSUME NEW slot \in 1 .. Cap48
        PROVE  m.children[slot] # Nil <=> \E k \in Bytes : m.index[k] = slot
    <3>1. slot # 0
      BY CapFacts
    <3>2. CASE slot = f
      <4>1. \A k \in Bytes : m.index[k] # slot
        BY <3>1, <3>2, <1>1, <1>3, <1>4, <1>5
      <4> QED  BY <3>2, <4>1, <1>4, <1>5
    <3>3. CASE slot # f
      <4>1. \A k \in Bytes : m.index[k] = slot <=> n.index[k] = slot
        BY <3>1, <3>3, <1>3, <1>4, <1>5
      <4> QED  BY <3>3, <4>1, <1>3, <1>4, <1>5
    <3> QED  BY <3>2, <3>3
  <2> QED  BY <2>1, <2>2, <1>5 DEF Slotted
<1>7. ChildAt(m, key) = Nil
  BY <1>4, <1>5, <1>6, SlottedFacts
<1>8. ASSUME NEW k \in Bytes \ {key}
      PROVE  ChildAt(m, k) = ChildAt(n, k)
  <2>1. m.index[k] = n.index[k]
    BY <1>4, <1>5
  <2>2. n.index[k] # 0 => m.children[n.index[k]] = n.children[n.index[k]]
    BY <1>1, <1>3, <1>4, <1>5, SlottedFacts
  <2> QED  BY <2>1, <2>2, <1>6, SlottedFacts
<1>9. Contents(m) = [Contents(n) EXCEPT ![key] = Nil]
  BY <1>7, <1>8, SameButOne
<1> QED  BY <1>2, <1>5, <1>6, <1>9, SlottedFacts

-----------------------------------------------------------------------------
(* Nodes with a place for every byte *)

LEMMA DirectFacts ==
  ASSUME NEW n, Direct(n)
  PROVE  /\ n.layout = "node256" /\ ~ IsSortedLayout(n)
         /\ n = Node256(n.count, n.children)
         /\ n.count \in Nat /\ n.children \in [Bytes -> Children \cup {Nil}]
         /\ \A k \in Bytes : ChildAt(n, k) = n.children[k]
BY DEF Direct, Node256, IsSortedLayout, ChildAt

\* A node256 built of its children.
LEMMA DirectBuilt ==
  ASSUME NEW count \in Nat, NEW children \in [Bytes -> Children \cup {Nil}]
  PROVE  LET n == Node256(count, children)
         IN  /\ Direct(n) /\ n.layout = "node256" /\ n.count = count
             /\ \A k \in Bytes : ChildAt(n, k) = children[k]
BY DEF Direct, Node256, IsSortedLayout, ChildAt

LEMMA DirectAdd ==
  ASSUME NEW n, Direct(n), NEW key \in Bytes, ChildAt(n, key) = Nil, NEW child \in Children
  PROVE  LET m == AddToRoom(n, key, child)
         IN  /\ Direct(m) /\ m.layout = n.layout /\ m.count = n.count + 1
             /\ Contents(m) = [Contents(n) EXCEPT ![key] = child]
<1> DEFINE children == [n.children EXCEPT ![key] = child]
           m == Node256(n.count + 1, children)
<1>1. AddToRoom(n, key, child) = m
  <2>1. n.children[key] = Nil
    BY DirectFacts
  <2> QED  BY <2>1, DirectFacts DEF AddToRoom
<1>2. /\ children \in [Bytes -> Children \cup {Nil}]
      /\ \A k \in Bytes : children[k] = IF k = key THEN child ELSE n.children[k]
      /\ n.count + 1 \in Nat
  BY DirectFacts
<1> HIDE DEF children
<1>3. /\ Direct(m) /\ m.layout = "node256" /\ m.count = n.count + 1
      /\ \A k \in Bytes : ChildAt(m, k) = children[k]
  BY <1>2, DirectBuilt
<1> HIDE DEF m
<1>4. Contents(m) = [Contents(n) EXCEPT ![key] = child]
  <2>1. /\ ChildAt(m, key) = child
        /\ \A k \in Bytes \ {key} : ChildAt(m, k) = ChildAt(n, k)
    BY <1>2, <1>3, DirectFacts
  <2> QED  BY <2>1 DEF Contents
<1> QED  BY <1>1, <1>3, <1>4, DirectFacts

LEMMA DirectReplace ==
  ASSUME NEW n, Direct(n), NEW key \in Bytes, NEW child \in Children
  PROVE  LET m == ReplaceChild(n, key, child)
         IN  /\ Direct(m) /\ m.layout = n.layout /\ m.count = n.count
             /\ Contents(m) = [Contents(n) EXCEPT ![key] = child]
<1> DEFINE children == [n.children EXCEPT ![key] = child]
           m == Node256(n.count, children)
<1>1. ReplaceChild(n, key, child) = m
  <2>1. ReplaceChild(n, key, child) = [n EXCEPT !.children[key] = child]
    BY DirectFacts DEF ReplaceChild
  <2>2. n = [layout |-> "node256", count |-> n.count, children |-> n.children]
    BY DirectFacts DEF Node256
  <2> QED  BY <2>1, <2>2 DEF Node256
<1>2. /\ children \in [Bytes -> Children \cup {Nil}]
      /\ \A k \in Bytes : children[k] = IF k = key THEN child ELSE n.children[k]
  BY DirectFacts
<1> HIDE DEF children
<1>3. /\ Direct(m) /\ m.layout = "node256" /\ m.count = n.count
      /\ \A k \in Bytes : ChildAt(m, k) = children[k]
  BY <1>2, DirectBuilt, DirectFacts
<1> HIDE DEF m
<1>4. Contents(m) = [Contents(n) EXCEPT ![key] = child]
  <2>1. /\ ChildAt(m, key) = child
        /\ \A k \in Bytes \ {key} : ChildAt(m, k) = ChildAt(n, k)
    BY <1>2, <1>3, DirectFacts
  <2> QED  BY <2>1, SameButOne
<1> QED  BY <1>1, <1>3, <1>4, DirectFacts

LEMMA DirectCut ==
  ASSUME NEW n, Direct(n), n.count # 0, NEW key \in Bytes
  PROVE  LET m == CutChild(n, key)
         IN  /\ Direct(m) /\ m.layout = n.layout /\ m.count = n.count - 1
             /\ Contents(m) = [Contents(n) EXCEPT ![key] = Nil]
<1> DEFINE children == [n.children EXCEPT ![key] = Nil]
           m == Node256(n.count - 1, children)
<1>1. CutChild(n, key) = m
  BY DirectFacts DEF CutChild
<1>2. /\ children \in [Bytes -> Children \cup {Nil}]
      /\ \A k \in Bytes : children[k] = IF k = key THEN Nil ELSE n.children[k]
      /\ n.count - 1 \in Nat
  BY DirectFacts
<1> HIDE DEF children
<1>3. /\ Direct(m) /\ m.layout = "node256" /\ m.count = n.count - 1
      /\ \A k \in Bytes : ChildAt(m, k) = children[k]
  BY <1>2, DirectBuilt
<1> HIDE DEF m
<1>4. Contents(m) = [Contents(n) EXCEPT ![key] = Nil]
  <2>1. /\ ChildAt(m, key) = Nil
        /\ \A k \in Bytes \ {key} : ChildAt(m, k) = ChildAt(n, k)
    BY <1>2, <1>3, DirectFacts
  <2> QED  BY <2>1, SameButOne
<1> QED  BY <1>1, <1>3, <1>4, DirectFacts

-----------------------------------------------------------------------------
(* The order of the bytes *)

\* How many others of a set are below.
Below(S, k) == Cardinality({l \in S : l < k})

\* Of a finite set of naturals each has another number of others below it,
\* and every number is had by one.
LEMMA Ranked ==
  ASSUME NEW S \in SUBSET Nat, IsFiniteSet(S)
  PROVE  /\ \A j, k \in S : j < k => Below(S, j) < Below(S, k)
         /\ \A k \in S : Below(S, k) + 1 \in 1 .. Cardinality(S)
         /\ \A i \in 1 .. Cardinality(S) : \E k \in S : Below(S, k) = i - 1
<1> DEFINE low(k) == {l \in S : l < k}
<1>1. ASSUME NEW k \in S
      PROVE  IsFiniteSet(low(k)) /\ Below(S, k) = Cardinality(low(k)) /\ Below(S, k) \in Nat
  <2>1. low(k) \subseteq S
    OBVIOUS
  <2>2. IsFiniteSet(low(k))
    BY <2>1, FS_Subset
  <2> QED  BY <2>2, FS_CardinalityType DEF Below
<1>2. Cardinality(S) \in Nat
  BY FS_CardinalityType
<1>3. ASSUME NEW j \in S, NEW k \in S, j < k
      PROVE  Below(S, j) < Below(S, k)
  <2>1. low(j) \cup {j} \subseteq low(k) /\ j \notin low(j)
    <3>1. \A l \in S : l < j => l < k
      BY <1>3
    <3>2. j < k /\ ~ (j < j)
      BY <1>3
    <3> QED  BY <3>1, <3>2
  <2>2. IsFiniteSet(low(j)) /\ IsFiniteSet(low(k))
    BY <1>1
  <2> HIDE DEF low
  <2>3. Cardinality(low(j) \cup {j}) = Cardinality(low(j)) + 1
    BY <2>1, <2>2, FS_AddElement
  <2>4. Cardinality(low(j) \cup {j}) <= Cardinality(low(k))
    BY <2>1, <2>2, FS_Subset
  <2>5. /\ Below(S, j) = Cardinality(low(j)) /\ Below(S, j) \in Nat
        /\ Below(S, k) = Cardinality(low(k)) /\ Below(S, k) \in Nat
    BY <1>1
  <2> QED  BY <2>3, <2>4, <2>5
<1>4. ASSUME NEW k \in S
      PROVE  Below(S, k) + 1 \in 1 .. Cardinality(S)
  <2>1. low(k) \subseteq S \ {k}
    <3>1. ~ (k < k)
      OBVIOUS
    <3> QED  BY <3>1
  <2>2. IsFiniteSet(S \ {k}) /\ Cardinality(S \ {k}) = Cardinality(S) - 1
    BY FS_RemoveElement
  <2> HIDE DEF low
  <2>3. Cardinality(low(k)) <= Cardinality(S \ {k})
    BY <2>1, <2>2, FS_Subset
  <2>4. Below(S, k) = Cardinality(low(k)) /\ Below(S, k) \in Nat
    BY <1>1
  <2> QED  BY <2>2, <2>3, <2>4, <1>2
<1>5. \A i \in 1 .. Cardinality(S) : \E k \in S : Below(S, k) = i - 1
  <2> DEFINE f == [k \in S |-> Below(S, k) + 1]
             N == Cardinality(S)
  <2>1. f \in [S -> 1 .. N]
    BY <1>4
  <2>2. ASSUME NEW j \in S, NEW k \in S, f[j] = f[k]
        PROVE  j = k
    <3>1. Below(S, j) \in Nat /\ Below(S, k) \in Nat
      BY <1>1
    <3>2. Below(S, j) = Below(S, k)
      BY <2>2, <3>1
    <3>3. ~ (j < k) /\ ~ (k < j)
      BY <3>1, <3>2, <1>3
    <3> QED  BY <3>3
  <2>3. f \in Injection(S, 1 .. N)
    BY <2>1, <2>2 DEF Injection, IsInjective
  <2>4. IsFiniteSet(1 .. N) /\ Cardinality(1 .. N) = N
    <3>1. 1 \in Int /\ N \in Int /\ N - 1 + 1 = N /\ (1 > N => N = 0)
      BY <1>2
    <3> QED  BY <3>1, FS_Interval
  <2>5. f \in Surjection(S, 1 .. N)
    BY <2>3, <2>4, FS_Injection
  <2>6. ASSUME NEW i \in 1 .. N
        PROVE  \E k \in S : Below(S, k) = i - 1
    <3>1. PICK k \in S : f[k] = i
      BY <2>5 DEF Surjection
    <3>2. Below(S, k) \in Nat /\ Below(S, k) + 1 = i
      BY <3>1, <1>1
    <3> QED  BY <3>2
  <2> QED  BY <2>6
<1> QED  BY <1>3, <1>4, <1>5

\* Edges gives the bytes that have a child, each once and in order.
LEMMA EdgesInOrder ==
  ASSUME NEW n, Whole(n)
  PROVE  /\ Edges(n) \in Seq(Bytes) /\ Len(Edges(n)) = n.count
         /\ Increasing(Edges(n))
         /\ \A i \in 1 .. n.count : Edges(n)[i] \in Taken(n)
         /\ \A k \in Taken(n) : \E i \in 1 .. n.count : Edges(n)[i] = k
<1> DEFINE S == Taken(n)
<1>1. CASE Sorted(n)
  <2>1. Edges(n) = n.keys
    <3>1. n.keys \in Seq(Bytes) /\ n.count = Len(n.keys) /\ IsSortedLayout(n)
      BY <1>1, SortedFacts
    <3>2. SubSeq(n.keys, 1, Len(n.keys)) = n.keys
      BY <3>1
    <3> QED  BY <3>1, <3>2 DEF Edges
  <2>2. ASSUME NEW i \in 1 .. n.count
        PROVE  n.keys[i] \in S
    BY <1>1, SortedFacts, SortedRead DEF Taken
  <2>3. ASSUME NEW k \in S
        PROVE  \E i \in 1 .. n.count : n.keys[i] = k
    BY <1>1, SortedRead DEF Taken
  <2> QED  BY <1>1, <2>1, <2>2, <2>3, SortedFacts DEF Sorted
<1>2. CASE ~ Sorted(n)
  <2> DEFINE e == [i \in 1 .. Cardinality(S) |-> CHOOSE k \in S : Below(S, k) = i - 1]
  <2>1. ~ IsSortedLayout(n)
    BY <1>2, SlottedFacts, DirectFacts DEF Whole
  <2>2. Edges(n) = e
    BY <2>1 DEF Edges, Below
  <2>3. n.count = Cardinality(S) /\ n.count \in Nat
    BY TakenFinite DEF Whole
  <2>4. S \in SUBSET Nat /\ S \subseteq Bytes /\ IsFiniteSet(S)
    BY TakenFinite, CapFacts DEF Taken
  <2> HIDE DEF S
  <2>5. ASSUME NEW i \in 1 .. n.count
        PROVE  e[i] \in S /\ Below(S, e[i]) = i - 1
    <3>1. \E k \in S : Below(S, k) = i - 1
      BY <2>3, <2>4, Ranked
    <3> QED  BY <3>1, <2>3
  <2>6. ASSUME NEW k \in S
        PROVE  \E i \in 1 .. n.count : e[i] = k
    <3> DEFINE i == Below(S, k) + 1
    <3>1. i \in 1 .. n.count
      BY <2>3, <2>4, Ranked
    <3>2. e[i] \in S /\ Below(S, e[i]) = i - 1
      BY <3>1, <2>5
    <3>3. Below(S, k) \in Nat /\ i - 1 = Below(S, k)
      <4>1. {l \in S : l < k} \subseteq S
        OBVIOUS
      <4>2. Below(S, k) \in Nat
        BY <4>1, <2>4, FS_Subset, FS_CardinalityType DEF Below
      <4> QED  BY <4>2
    <3>4. \A j \in S : Below(S, j) = Below(S, k) => j = k
      <4> SUFFICES ASSUME NEW j \in S, Below(S, j) = Below(S, k)
                   PROVE  j = k
        OBVIOUS
      <4>1. j < k => Below(S, j) < Below(S, k)
        BY <2>4, Ranked
      <4>2. k < j => Below(S, k) < Below(S, j)
        BY <2>4, Ranked
      <4>3. j \in Nat /\ k \in Nat
        BY <2>4
      <4> QED  BY <4>1, <4>2, <4>3, <3>3
    <3>5. e[i] = k
      BY <3>2, <3>3, <3>4
    <3> QED  BY <3>1, <3>5
  <2>7. e \in Seq(Bytes) /\ Len(e) = n.count
    <3>1. \A i \in 1 .. n.count : e[i] \in Bytes
      BY <2>4, <2>5
    <3>2. e = [i \in 1 .. n.count |-> e[i]]
      BY <2>3
    <3> HIDE DEF e
    <3>3. e \in [1 .. n.count -> Bytes]
      BY <3>1, <3>2
    <3> QED  BY <3>3, <2>3
  <2> HIDE DEF e
  <2>8. ASSUME NEW i \in 1 .. n.count, NEW j \in 1 .. n.count, i < j
        PROVE  e[i] < e[j]
    <3>1. e[i] \in S /\ e[j] \in S /\ Below(S, e[i]) = i - 1 /\ Below(S, e[j]) = j - 1
      BY <2>5
    <3>2. e[j] < e[i] => Below(S, e[j]) < Below(S, e[i])
      BY <3>1, <2>4, Ranked
    <3>3. i \in Nat /\ j \in Nat /\ e[i] \in Nat /\ e[j] \in Nat
      <4>1. e[i] \in Nat /\ e[j] \in Nat
        BY <3>1, <2>4
      <4>2. i \in Nat /\ j \in Nat
        BY <2>3
      <4> QED  BY <4>1, <4>2
    <3>4. e[i] # e[j] /\ ~ (e[j] < e[i])
      BY <3>1, <3>2, <3>3, <2>8
    <3> QED  BY <3>3, <3>4
  <2> QED  BY <2>2, <2>5, <2>6, <2>7, <2>8 DEF Increasing, S
<1> QED  BY <1>1, <1>2

-----------------------------------------------------------------------------
(* From layout to layout *)

LEMMA SameMap ==
  ASSUME NEW n, NEW m, \A k \in Bytes : ChildAt(m, k) = ChildAt(n, k)
  PROVE  Contents(m) = Contents(n) /\ Taken(m) = Taken(n)
BY DEF Contents, Taken

LEMMA ChildType ==
  ASSUME NEW n, Whole(n), NEW k \in Taken(n)
  PROVE  ChildAt(n, k) \in Children
<1>1. k \in Bytes /\ ChildAt(n, k) # Nil
  BY DEF Taken
<1>2. CASE Sorted(n)
  <2>1. PlaceOf(n, k) \in 1 .. n.count /\ n.keys[PlaceOf(n, k)] = k
    BY <1>1, <1>2, SortedRead
  <2>2. ChildAt(n, k) = n.children[PlaceOf(n, k)]
    BY <1>1, <1>2, <2>1, SortedRead
  <2> QED  BY <1>2, <2>1, <2>2, SortedFacts
<1>3. CASE Slotted(n)
  <2>1. n.index[k] \in 1 .. Cap48 /\ ChildAt(n, k) = n.children[n.index[k]]
    BY <1>1, <1>3, SlottedFacts
  <2> QED  BY <2>1, <1>1, <1>3, SlottedFacts
<1>4. CASE Direct(n)
  BY <1>1, <1>4, DirectFacts
<1> QED  BY <1>2, <1>3, <1>4 DEF Whole

\* The children in the order of their bytes, in the first places.
LEMMA Gathered ==
  ASSUME NEW n, Whole(n), NEW layout \in {"node4", "node16"}
  PROVE  LET edges == Edges(n)
             m == SortedNode(layout, edges, [i \in 1 .. Len(edges) |-> ChildAt(n, edges[i])])
         IN  /\ Sorted(m) /\ m.layout = layout /\ m.count = n.count
             /\ \A k \in Bytes : ChildAt(m, k) = ChildAt(n, k)
<1> DEFINE edges == Edges(n)
           children == [i \in 1 .. Len(edges) |-> ChildAt(n, edges[i])]
           m == SortedNode(layout, edges, children)
<1>1. /\ edges \in Seq(Bytes) /\ Len(edges) = n.count /\ Increasing(edges)
      /\ \A i \in 1 .. n.count : edges[i] \in Taken(n)
      /\ \A k \in Taken(n) : \E i \in 1 .. n.count : edges[i] = k
  BY EdgesInOrder
<1> HIDE DEF edges
<1>2. n.count \in Nat
  BY <1>1
<1>3. \A i \in 1 .. n.count : children[i] = ChildAt(n, edges[i]) /\ children[i] \in Children
  BY <1>1, ChildType
<1>4. children \in Seq(Children) /\ Len(children) = n.count
  <2>1. children \in [1 .. n.count -> Children]
    BY <1>1, <1>3
  <2> QED  BY <2>1, <1>2
<1> HIDE DEF children
<1>5. /\ Sorted(m) /\ m.layout = layout /\ m.count = n.count
      /\ m.keys = edges /\ m.children = children
  BY <1>1, <1>4, SortedBuilt
<1> HIDE DEF m
<1>6. ASSUME NEW k \in Bytes
      PROVE  ChildAt(m, k) = ChildAt(n, k)
  <2>1. CASE k \in Taken(n)
    <3>1. PICK i \in 1 .. n.count : edges[i] = k
      BY <1>1, <2>1
    <3>2. ChildAt(m, k) = children[i]
      BY <3>1, <1>5, SortedRead
    <3> QED  BY <3>1, <3>2, <1>3
  <2>2. CASE k \notin Taken(n)
    <3>1. \A i \in 1 .. m.count : m.keys[i] # k
      BY <1>1, <1>5, <2>2
    <3>2. ChildAt(m, k) = Nil
      BY <3>1, <1>5, SortedRead
    <3> QED  BY <3>2, <2>2 DEF Taken
  <2> QED  BY <2>1, <2>2
<1> QED  BY <1>5, <1>6 DEF m, children, edges

LEMMA Grow4 ==
  ASSUME NEW n, Sorted(n), n.layout = "node4"
  PROVE  LET m == Grow(n)
         IN  /\ Sorted(m) /\ m.layout = "node16" /\ m.count = n.count
             /\ \A k \in Bytes : ChildAt(m, k) = ChildAt(n, k)
<1> DEFINE m == SortedNode("node16", n.keys, n.children)
<1>1. Grow(n) = m
  BY DEF Grow
<1>2. /\ Sorted(m) /\ m.layout = "node16" /\ m.count = n.count
      /\ m.keys = n.keys /\ m.children = n.children
  BY SortedFacts, SortedBuilt DEF Sorted
<1> HIDE DEF m
<1>3. ASSUME NEW k \in Bytes
      PROVE  ChildAt(m, k) = ChildAt(n, k)
  <2>1. CASE \E i \in 1 .. n.count : n.keys[i] = k
    BY <2>1, <1>2, SortedRead
  <2>2. CASE ~ \E i \in 1 .. n.count : n.keys[i] = k
    BY <2>2, <1>2, SortedRead
  <2> QED  BY <2>1, <2>2
<1> QED  BY <1>1, <1>2, <1>3

LEMMA Grow16 ==
  ASSUME NEW n, Sorted(n), n.layout = "node16", n.count <= Cap48
  PROVE  LET m == Grow(n)
         IN  /\ Slotted(m) /\ m.layout = "node48" /\ m.count = n.count
             /\ \A k \in Bytes : ChildAt(m, k) = ChildAt(n, k)
<1> DEFINE index == [k \in Bytes |-> IF HasPlace(n, k) THEN PlaceOf(n, k) ELSE 0]
           children == [slot \in 1 .. Cap48 |-> IF slot <= n.count THEN n.children[slot] ELSE Nil]
           m == Node48(n.count, index, children)
<1>1. Grow(n) = m
  BY DEF Grow
<1>2. n.count \in Nat
  BY SortedFacts
<1>3. ASSUME NEW k \in Bytes
      PROVE  \/ /\ ChildAt(n, k) # Nil /\ index[k] \in 1 .. n.count /\ index[k] # 0
                /\ n.keys[index[k]] = k /\ ChildAt(n, k) = n.children[index[k]]
             \/ ChildAt(n, k) = Nil /\ index[k] = 0
  <2>1. CASE \E i \in 1 .. n.count : n.keys[i] = k
    <3>1. PICK i \in 1 .. n.count : n.keys[i] = k
      BY <2>1
    <3>2. /\ HasPlace(n, k) /\ PlaceOf(n, k) = i
          /\ ChildAt(n, k) = n.children[i] /\ ChildAt(n, k) # Nil
      BY <3>1, SortedRead
    <3>3. i # 0
      BY <1>2
    <3> QED  BY <3>1, <3>2, <3>3
  <2>2. CASE ~ \E i \in 1 .. n.count : n.keys[i] = k
    <3>1. ~ HasPlace(n, k) /\ ChildAt(n, k) = Nil
      BY <2>2, SortedRead DEF HasPlace
    <3> QED  BY <3>1
  <2> QED  BY <2>1, <2>2
<1>4. \A i \in 1 .. n.count : n.keys[i] \in Bytes /\ index[n.keys[i]] = i
  <2> SUFFICES ASSUME NEW i \in 1 .. n.count
               PROVE  n.keys[i] \in Bytes /\ index[n.keys[i]] = i
    OBVIOUS
  <2>1. n.keys[i] \in Bytes
    BY SortedFacts
  <2>2. HasPlace(n, n.keys[i]) /\ PlaceOf(n, n.keys[i]) = i
    BY <2>1, SortedRead
  <2> QED  BY <2>1, <2>2
<1>5. index \in [Bytes -> 0 .. Cap48]
  <2>1. \A k \in Bytes : index[k] \in 0 .. Cap48
    BY <1>2, <1>3, CapFacts
  <2> QED  BY <2>1
<1>6. /\ \A s \in 1 .. Cap48 : children[s] = IF s <= n.count THEN n.children[s] ELSE Nil
      /\ children \in [1 .. Cap48 -> Children \cup {Nil}]
  <2>1. \A s \in 1 .. Cap48 : s <= n.count => n.children[s] \in Children
    BY <1>2, CapFacts, SortedFacts
  <2> QED  BY <2>1
<1> HIDE DEF index, children
<1>7. /\ m.layout = "node48" /\ m.count = n.count /\ m.index = index /\ m.children = children
      /\ m \in [layout : {"node48"}, count : Nat, index : [Bytes -> 0 .. Cap48],
                children : [1 .. Cap48 -> Children \cup {Nil}]]
  BY <1>2, <1>5, <1>6 DEF Node48
<1> HIDE DEF m
<1>8. Slotted(m)
  <2>1. ASSUME NEW k \in Bytes, NEW l \in Bytes, index[k] # 0, index[k] = index[l]
        PROVE  k = l
    BY <1>3, <2>1
  <2>2. ASSUME NEW slot \in 1 .. Cap48
        PROVE  children[slot] # Nil <=> \E k \in Bytes : index[k] = slot
    <3>1. CASE slot <= n.count
      <4>1. slot \in 1 .. n.count
        BY <3>1, <1>2, CapFacts
      <4>2. n.children[slot] \in Children /\ index[n.keys[slot]] = slot /\ n.keys[slot] \in Bytes
        BY <4>1, <1>4, SortedFacts
      <4> QED  BY <3>1, <4>2, <1>6 DEF ChildrenAssumption
    <3>2. CASE ~ (slot <= n.count)
      <4>1. \A k \in Bytes : index[k] # slot
        BY <3>2, <1>2, <1>3, CapFacts
      <4> QED  BY <3>2, <4>1, <1>6
    <3> QED  BY <3>1, <3>2
  <2> QED  BY <2>1, <2>2, <1>7 DEF Slotted
<1>9. ASSUME NEW k \in Bytes
      PROVE  ChildAt(m, k) = ChildAt(n, k)
  <2>1. ChildAt(m, k) = IF index[k] = 0 THEN Nil ELSE children[index[k]]
    BY <1>7, <1>8, SlottedFacts
  <2>2. CASE index[k] = 0
    BY <2>1, <2>2, <1>3
  <2>3. CASE index[k] # 0
    <3>1. index[k] \in 1 .. n.count /\ ChildAt(n, k) = n.children[index[k]]
      BY <2>3, <1>3
    <3>2. index[k] \in 1 .. Cap48 /\ index[k] <= n.count
      BY <3>1, <1>2, CapFacts
    <3> QED  BY <2>1, <2>3, <3>1, <3>2, <1>6
  <2> QED  BY <2>2, <2>3
<1> QED  BY <1>1, <1>7, <1>8, <1>9

LEMMA Grow48 ==
  ASSUME NEW n, Slotted(n)
  PROVE  LET m == Grow(n)
         IN  /\ Direct(m) /\ m.layout = "node256" /\ m.count = n.count
             /\ \A k \in Bytes : ChildAt(m, k) = ChildAt(n, k)
<1> DEFINE children == [k \in Bytes |-> ChildAt(n, k)]
<1>1. Grow(n) = Node256(n.count, children)
  BY SlottedFacts DEF Grow
<1>2. children \in [Bytes -> Children \cup {Nil}]
  <2>1. ASSUME NEW k \in Bytes
        PROVE  ChildAt(n, k) \in Children \cup {Nil}
    <3>1. CASE n.index[k] = 0
      BY <3>1, SlottedFacts
    <3>2. CASE n.index[k] # 0
      <4>1. n.index[k] \in 1 .. Cap48 /\ ChildAt(n, k) = n.children[n.index[k]]
        BY <3>2, SlottedFacts
      <4>2. n.children \in [1 .. Cap48 -> Children \cup {Nil}]
        BY SlottedFacts
      <4> QED  BY <4>1, <4>2
    <3> QED  BY <3>1, <3>2
  <2> QED  BY <2>1
<1>3. n.count \in Nat /\ \A k \in Bytes : children[k] = ChildAt(n, k)
  BY SlottedFacts
<1> HIDE DEF children
<1> QED  BY <1>1, <1>2, <1>3, DirectBuilt

-----------------------------------------------------------------------------
(* What insertNode and deleteNode do *)

\* A node between two calls: whole, and in the layout for its children.
Kept(n) == Whole(n) /\ n.layout = LayoutFor(n.count)

LEMMA CountNat ==
  ASSUME NEW n, Whole(n)
  PROVE  n.count \in Nat /\ n.count = Cardinality(Taken(n))
BY TakenFinite DEF Whole

LEMMA LayoutOf ==
  ASSUME NEW count \in Nat
  PROVE  /\ LayoutFor(count) = "node4" <=> count <= Cap4
         /\ LayoutFor(count) = "node16" <=> count > Cap4 /\ count <= Cap16
         /\ LayoutFor(count) = "node48" <=> count > Cap16 /\ count <= Cap48
         /\ LayoutFor(count) = "node256" <=> count > Cap48
<1>1. CASE count <= Cap4
  BY <1>1, CapFacts DEF LayoutFor
<1>2. CASE count > Cap4 /\ count <= Cap16
  <2>1. LayoutFor(count) = "node16"
    BY <1>2, CapFacts DEF LayoutFor
  <2> QED  BY <1>2, <2>1, CapFacts
<1>3. CASE count > Cap16 /\ count <= Cap48
  <2>1. LayoutFor(count) = "node48"
    BY <1>3, CapFacts DEF LayoutFor
  <2> QED  BY <1>3, <2>1, CapFacts
<1>4. CASE count > Cap48
  <2>1. LayoutFor(count) = "node256"
    BY <1>4, CapFacts DEF LayoutFor
  <2> QED  BY <1>4, <2>1, CapFacts
<1> QED  BY <1>1, <1>2, <1>3, <1>4, CapFacts

\* Which layout is which.
LEMMA LayoutKinds ==
  ASSUME NEW n, Whole(n)
  PROVE  /\ n.layout \in Layouts
         /\ n.layout \in {"node4", "node16"} <=> Sorted(n)
         /\ n.layout = "node48" <=> Slotted(n)
         /\ n.layout = "node256" <=> Direct(n)
<1>1. Sorted(n) => n.layout \in {"node4", "node16"}
  BY SortedFacts
<1>2. Slotted(n) => n.layout = "node48"
  BY SlottedFacts
<1>3. Direct(n) => n.layout = "node256"
  BY DirectFacts
<1> QED  BY <1>1, <1>2, <1>3 DEF Whole, Layouts

\* The room addChild makes: the same map, in the layout for one child more.
LEMMA RoomMade ==
  ASSUME NEW n, Kept(n)
  PROVE  LET m == IF Full(n) THEN Grow(n) ELSE n
         IN  /\ Whole(m) /\ m.count = n.count /\ m.layout = LayoutFor(n.count + 1)
             /\ \A k \in Bytes : ChildAt(m, k) = ChildAt(n, k)
<1>1. n.count \in Nat /\ n.count + 1 \in Nat /\ n.layout = LayoutFor(n.count) /\ Whole(n)
  BY CountNat DEF Kept
<1>2. CASE ~ Full(n)
  <2>1. n.layout = LayoutFor(n.count + 1)
    <3>1. CASE n.layout = "node4"
      <4>1. n.count <= Cap4
        BY <1>1, <3>1, LayoutOf
      <4>2. n.count + 1 <= Cap4
        BY <4>1, <1>1, <1>2, <3>1, CapFacts DEF Full
      <4>3. LayoutFor(n.count + 1) = "node4"
        BY <4>2, <1>1, LayoutOf
      <4> QED  BY <3>1, <4>3
    <3>2. CASE n.layout = "node16"
      <4>1. n.count > Cap4 /\ n.count <= Cap16
        BY <1>1, <3>2, LayoutOf
      <4>2. n.count + 1 > Cap4 /\ n.count + 1 <= Cap16
        BY <4>1, <1>1, <1>2, <3>2, CapFacts DEF Full
      <4>3. LayoutFor(n.count + 1) = "node16"
        BY <4>2, <1>1, LayoutOf
      <4> QED  BY <3>2, <4>3
    <3>3. CASE n.layout = "node48"
      <4>1. n.count > Cap16 /\ n.count <= Cap48
        BY <1>1, <3>3, LayoutOf
      <4>2. n.count + 1 > Cap16 /\ n.count + 1 <= Cap48
        BY <4>1, <1>1, <1>2, <3>3, CapFacts DEF Full
      <4>3. LayoutFor(n.count + 1) = "node48"
        BY <4>2, <1>1, LayoutOf
      <4> QED  BY <3>3, <4>3
    <3>4. CASE n.layout = "node256"
      <4>1. n.count > Cap48
        BY <1>1, <3>4, LayoutOf
      <4>2. n.count + 1 > Cap48
        BY <4>1, <1>1, <3>4, CapFacts
      <4>3. LayoutFor(n.count + 1) = "node256"
        BY <4>2, <1>1, LayoutOf
      <4> QED  BY <3>4, <4>3
    <3> QED  BY <3>1, <3>2, <3>3, <3>4, <1>1, LayoutKinds DEF Layouts
  <2> QED  BY <1>1, <1>2, <2>1
<1>3. CASE Full(n)
  <2> DEFINE m == Grow(n)
  <2>1. /\ Sorted(m) \/ Slotted(m) \/ Direct(m)
        /\ m.count = n.count /\ m.layout = LayoutFor(n.count + 1)
        /\ \A k \in Bytes : ChildAt(m, k) = ChildAt(n, k)
    <3>1. CASE n.layout = "node4" /\ n.count = Cap4
      <4>1. LayoutFor(n.count + 1) = "node16"
        BY <1>1, <3>1, LayoutOf, CapFacts
      <4>2. Sorted(n)
        BY <1>1, <3>1, LayoutKinds
      <4> QED  BY <3>1, <4>1, <4>2, Grow4
    <3>2. CASE n.layout = "node16" /\ n.count = Cap16
      <4>1. LayoutFor(n.count + 1) = "node48" /\ n.count <= Cap48
        BY <1>1, <3>2, LayoutOf, CapFacts
      <4>2. Sorted(n)
        BY <1>1, <3>2, LayoutKinds
      <4> QED  BY <3>2, <4>1, <4>2, Grow16
    <3>3. CASE n.layout = "node48" /\ n.count = Cap48
      <4>1. LayoutFor(n.count + 1) = "node256"
        BY <1>1, <3>3, LayoutOf, CapFacts
      <4>2. Slotted(n)
        BY <1>1, <3>3, LayoutKinds
      <4> QED  BY <3>3, <4>1, <4>2, Grow48
    <3> QED  BY <1>3, <3>1, <3>2, <3>3 DEF Full
  <2> HIDE DEF m
  <2>2. Taken(m) = Taken(n)
    BY <2>1, SameMap
  <2>3. Whole(m)
    BY <2>1, <2>2, <1>1, CountNat DEF Whole
  <2> QED  BY <1>3, <2>1, <2>3 DEF m
<1> QED  BY <1>2, <1>3

\* addChild keeps the node, and adds the child.
LEMMA AddChildStep ==
  ASSUME NEW n, Kept(n), NEW key \in Bytes, ChildAt(n, key) = Nil, NEW child \in Children
  PROVE  LET m == AddChild(n, key, child)
         IN  Kept(m) /\ Contents(m) = [Contents(n) EXCEPT ![key] = child]
<1> DEFINE r == IF Full(n) THEN Grow(n) ELSE n
           m == AddToRoom(r, key, child)
<1>1. /\ Whole(r) /\ r.count = n.count /\ r.layout = LayoutFor(n.count + 1)
      /\ \A k \in Bytes : ChildAt(r, k) = ChildAt(n, k)
  BY RoomMade
<1>2. AddChild(n, key, child) = m
  BY DEF AddChild
<1> HIDE DEF r
<1>3. Contents(r) = Contents(n) /\ ChildAt(r, key) = Nil
  BY <1>1, SameMap
<1>4. r.count \in Nat /\ r.count = Cardinality(Taken(r))
  BY <1>1, CountNat
<1>5. /\ Sorted(m) \/ Slotted(m) \/ Direct(m)
      /\ m.layout = r.layout /\ m.count = r.count + 1
      /\ Contents(m) = [Contents(r) EXCEPT ![key] = child]
  <2>1. CASE Sorted(r)
    BY <2>1, <1>3, SortedAdd
  <2>2. CASE Slotted(r)
    <3>1. r.layout = "node48"
      BY <2>2, SlottedFacts
    <3>2. r.count < Cap48
      BY <3>1, <1>1, <1>4, LayoutOf, CapFacts
    <3> QED  BY <2>2, <3>2, <1>3, <1>4, SlottedAdd
  <2>3. CASE Direct(r)
    BY <2>3, <1>3, DirectAdd
  <2> QED  BY <2>1, <2>2, <2>3, <1>1 DEF Whole
<1> HIDE DEF m
<1>6. child # Nil
  BY DEF ChildrenAssumption
<1>7. Cardinality(Taken(m)) = Cardinality(Taken(r)) + 1
  BY <1>3, <1>5, <1>6, OneMore
<1>8. Kept(m)
  BY <1>1, <1>4, <1>5, <1>7 DEF Kept, Whole
<1> QED  BY <1>2, <1>3, <1>5, <1>8

\* replaceChild keeps the node, and replaces the child.
LEMMA ReplaceChildStep ==
  ASSUME NEW n, Kept(n), NEW key \in Bytes, ChildAt(n, key) # Nil, NEW child \in Children
  PROVE  LET m == ReplaceChild(n, key, child)
         IN  Kept(m) /\ Contents(m) = [Contents(n) EXCEPT ![key] = child]
<1> DEFINE m == ReplaceChild(n, key, child)
<1>1. n.count \in Nat /\ n.count = Cardinality(Taken(n)) /\ n.layout = LayoutFor(n.count)
  BY CountNat DEF Kept
<1>2. /\ Sorted(m) \/ Slotted(m) \/ Direct(m)
      /\ m.layout = n.layout /\ m.count = n.count
      /\ Contents(m) = [Contents(n) EXCEPT ![key] = child]
  <2>1. CASE Sorted(n)
    BY <2>1, SortedReplace
  <2>2. CASE Slotted(n)
    BY <2>2, SlottedReplace
  <2>3. CASE Direct(n)
    BY <2>3, DirectReplace
  <2> QED  BY <2>1, <2>2, <2>3 DEF Kept, Whole
<1> HIDE DEF m
<1>3. Cardinality(Taken(m)) = Cardinality(Taken(n))
  <2>1. child # Nil
    BY DEF ChildrenAssumption
  <2> QED  BY <1>2, <2>1, AsMany
<1>4. Kept(m)
  BY <1>1, <1>2, <1>3 DEF Kept, Whole
<1> QED  BY <1>2, <1>4 DEF m

\* What a node shrinks to: the same map, in the layout for its children.
LEMMA Shrunk ==
  ASSUME NEW n, Whole(n), n.layout = LayoutFor(n.count + 1)
  PROVE  LET m == IF FitsSmaller(n) THEN Shrink(n) ELSE n
         IN  Kept(m) /\ Contents(m) = Contents(n)
<1>1. n.count \in Nat /\ n.count + 1 \in Nat /\ n.count = Cardinality(Taken(n))
  BY CountNat
<1>2. CASE ~ FitsSmaller(n)
  <2>1. n.layout = LayoutFor(n.count)
    <3>1. CASE n.layout = "node4"
      BY <1>1, <3>1, LayoutOf, CapFacts
    <3>2. CASE n.layout = "node16"
      BY <1>1, <1>2, <3>2, LayoutOf, CapFacts DEF FitsSmaller
    <3>3. CASE n.layout = "node48"
      BY <1>1, <1>2, <3>3, LayoutOf, CapFacts DEF FitsSmaller
    <3>4. CASE n.layout = "node256"
      BY <1>1, <1>2, <3>4, LayoutOf, CapFacts DEF FitsSmaller
    <3> QED  BY <3>1, <3>2, <3>3, <3>4, LayoutKinds DEF Layouts
  <2> QED  BY <1>2, <2>1 DEF Kept
<1>3. CASE FitsSmaller(n)
  <2> DEFINE edges == Edges(n)
             children == [i \in 1 .. Len(edges) |-> ChildAt(n, edges[i])]
             m == Shrink(n)
  <2>1. /\ Sorted(m) \/ Slotted(m)
        /\ m.count = n.count /\ m.layout = LayoutFor(n.count)
        /\ \A k \in Bytes : ChildAt(m, k) = ChildAt(n, k)
    <3>1. CASE n.layout = "node16" /\ n.count <= Cap4
      <4>1. m = SortedNode("node4", edges, children)
        BY <3>1 DEF Shrink
      <4>2. LayoutFor(n.count) = "node4"
        BY <3>1, <1>1, LayoutOf
      <4> HIDE DEF m
      <4> QED  BY <4>1, <4>2, Gathered
    <3>2. CASE n.layout = "node48" /\ n.count <= Cap16
      <4>1. m = SortedNode("node16", edges, children)
        BY <3>2 DEF Shrink
      <4>2. LayoutFor(n.count) = "node16"
        BY <3>2, <1>1, LayoutOf, CapFacts
      <4> HIDE DEF m
      <4> QED  BY <4>1, <4>2, Gathered
    <3>3. CASE n.layout = "node256" /\ n.count <= Cap48
      <4> DEFINE s == SortedNode("node16", edges, children)
      <4>1. m = Grow(s)
        BY <3>3 DEF Shrink
      <4>2. LayoutFor(n.count) = "node48"
        BY <3>3, <1>1, LayoutOf, CapFacts
      <4> HIDE DEF m
      <4>3. /\ Sorted(s) /\ s.layout = "node16" /\ s.count = n.count
            /\ \A k \in Bytes : ChildAt(s, k) = ChildAt(n, k)
        BY Gathered
      <4> HIDE DEF s
      <4>4. /\ Slotted(Grow(s)) /\ Grow(s).layout = "node48" /\ Grow(s).count = s.count
            /\ \A k \in Bytes : ChildAt(Grow(s), k) = ChildAt(s, k)
        BY <3>3, <4>3, Grow16
      <4> QED  BY <4>1, <4>2, <4>3, <4>4
    <3> QED  BY <1>3, <3>1, <3>2, <3>3 DEF FitsSmaller
  <2> HIDE DEF m
  <2>2. Contents(m) = Contents(n) /\ Taken(m) = Taken(n)
    BY <2>1, SameMap
  <2>3. Kept(m)
    BY <2>1, <2>2, <1>1 DEF Kept, Whole
  <2> QED  BY <1>3, <2>2, <2>3 DEF m
<1> QED  BY <1>2, <1>3

\* removeChild keeps the node, and removes the child.
LEMMA RemoveChildStep ==
  ASSUME NEW n, Kept(n), NEW key \in Bytes, ChildAt(n, key) # Nil
  PROVE  LET m == RemoveChild(n, key)
         IN  Kept(m) /\ Contents(m) = [Contents(n) EXCEPT ![key] = Nil]
<1> DEFINE c == CutChild(n, key)
<1>1. n.count \in Nat /\ n.count = Cardinality(Taken(n)) /\ n.layout = LayoutFor(n.count)
  BY CountNat DEF Kept
<1>2. n.count # 0
  <2>1. key \in Taken(n) /\ IsFiniteSet(Taken(n))
    BY TakenFinite DEF Taken
  <2> QED  BY <1>1, <2>1, FS_EmptySet
<1>3. /\ Sorted(c) \/ Slotted(c) \/ Direct(c)
      /\ c.layout = n.layout /\ c.count = n.count - 1
      /\ Contents(c) = [Contents(n) EXCEPT ![key] = Nil]
  <2>1. CASE Sorted(n)
    BY <2>1, SortedCut
  <2>2. CASE Slotted(n)
    BY <2>2, <1>2, SlottedCut
  <2>3. CASE Direct(n)
    BY <2>3, <1>2, DirectCut
  <2> QED  BY <2>1, <2>2, <2>3 DEF Kept, Whole
<1>4. RemoveChild(n, key) = IF FitsSmaller(c) THEN Shrink(c) ELSE c
  BY DEF RemoveChild
<1> HIDE DEF c
<1>5. Cardinality(Taken(c)) = Cardinality(Taken(n)) - 1
  BY <1>3, OneLess
<1>6. Whole(c)
  BY <1>1, <1>3, <1>5 DEF Whole
<1>7. c.layout = LayoutFor(c.count + 1)
  <2>1. c.count + 1 = n.count
    BY <1>1, <1>3
  <2> QED  BY <2>1, <1>1, <1>3
<1> QED  BY <1>3, <1>4, <1>6, <1>7, Shrunk

-----------------------------------------------------------------------------
(* The theorems *)

LEMMA EmptyKept ==
  Kept(EmptyNode) /\ Contents(EmptyNode) = [k \in Bytes |-> Nil]
<1>1. /\ << >> \in Seq(Bytes) /\ << >> \in Seq(Children)
      /\ Len(<< >>) = 0 /\ Increasing(<< >>)
  BY DEF Increasing
<1>2. Sorted(EmptyNode) /\ EmptyNode.layout = "node4" /\ EmptyNode.count = 0
  BY <1>1 DEF EmptyNode, Sorted, SortedNode
<1>3. \A k \in Bytes : ChildAt(EmptyNode, k) = Nil
  BY <1>2, SortedRead
<1>4. Taken(EmptyNode) = {}
  BY <1>3 DEF Taken
<1>5. Cardinality(Taken(EmptyNode)) = 0
  BY <1>4, FS_EmptySet
<1>6. LayoutFor(0) = "node4"
  BY LayoutOf, CapFacts
<1> QED  BY <1>2, <1>3, <1>5, <1>6 DEF Kept, Whole, Contents

LEMMA AlwaysKept == Spec => []Kept(node)
<1>1. Init => Kept(node)
  BY EmptyKept DEF Init
<1>2. Kept(node) /\ [Next]_node => Kept(node)'
  <2> SUFFICES ASSUME Kept(node), [Next]_node
               PROVE  Kept(node')
    BY DEF Kept
  <2>1. ASSUME NEW key \in Bytes, NEW child \in Children, Add(key, child)
        PROVE  Kept(node')
    BY <2>1, AddChildStep DEF Add
  <2>2. ASSUME NEW key \in Bytes, NEW child \in Children, Replace(key, child)
        PROVE  Kept(node')
    BY <2>2, ReplaceChildStep DEF Replace
  <2>3. ASSUME NEW key \in Bytes, Cut(key)
        PROVE  Kept(node')
    BY <2>3, RemoveChildStep DEF Cut
  <2>4. CASE UNCHANGED node
    BY <2>4
  <2> QED  BY <2>1, <2>2, <2>3, <2>4 DEF Next
<1> QED  BY <1>1, <1>2, PTL DEF Spec

\* The node is a map from bytes to children (ImplementsByteMap): the calls of
\* insertNode and deleteNode change one byte each, whatever layout the node is
\* in and whether it grows or shrinks with them.
THEOREM NodeIsMap == Spec => ImplementsByteMap
<1>1. Init => Map!Init
  BY EmptyKept DEF Init, Map!Init, Contents
<1>2. Kept(node) /\ [Next]_node => [Map!Next]_(Contents(node))
  <2> SUFFICES ASSUME Kept(node), [Next]_node
               PROVE  Map!Next \/ Contents(node') = Contents(node)
    BY DEF Contents
  <2>1. ASSUME NEW key \in Bytes, NEW child \in Children, Add(key, child)
        PROVE  Map!Next
    <3>1. Contents(node') = [Contents(node) EXCEPT ![key] = child]
      BY <2>1, AddChildStep DEF Add
    <3>2. Contents(node)[key] = Nil
      BY <2>1 DEF Add, Contents
    <3> QED  BY <3>1, <3>2 DEF Map!Next, Map!Add, Contents
  <2>2. ASSUME NEW key \in Bytes, NEW child \in Children, Replace(key, child)
        PROVE  Map!Next
    <3>1. Contents(node') = [Contents(node) EXCEPT ![key] = child]
      BY <2>2, ReplaceChildStep DEF Replace
    <3>2. Contents(node)[key] # Nil
      BY <2>2 DEF Replace, Contents
    <3> QED  BY <3>1, <3>2 DEF Map!Next, Map!Replace, Contents
  <2>3. ASSUME NEW key \in Bytes, Cut(key)
        PROVE  Map!Next
    <3>1. Contents(node') = [Contents(node) EXCEPT ![key] = Nil]
      BY <2>3, RemoveChildStep DEF Cut
    <3>2. Contents(node)[key] # Nil
      BY <2>3 DEF Cut, Contents
    <3> QED  BY <3>1, <3>2 DEF Map!Next, Map!Remove, Contents
  <2>4. CASE UNCHANGED node
    BY <2>4
  <2> QED  BY <2>1, <2>2, <2>3, <2>4 DEF Next
<1>3. Kept(node) /\ [Next]_node => [Map!Next]_([k \in Bytes |-> ChildAt(node, k)])
  BY <1>2 DEF Contents
<1> QED  BY <1>1, <1>3, AlwaysKept, PTL DEF Spec, ImplementsByteMap, Map!Spec

\* However the node came to its children, their count is exact and the layout is
\* the smallest that holds them, and eachChild visits every child once, in the
\* order of the bytes (WellFormed).
THEOREM NodeWellFormed == Spec => []WellFormed
<1>1. Kept(node) => Snug
  BY DEF Kept, Whole, Snug, LayoutFor
<1>2. Kept(node) => VisitsInOrder
  <2> SUFFICES ASSUME Kept(node) PROVE VisitsInOrder
    OBVIOUS
  <2>1. /\ Edges(node) \in Seq(Bytes) /\ Len(Edges(node)) = node.count
        /\ Increasing(Edges(node))
        /\ \A i \in 1 .. node.count : Edges(node)[i] \in Taken(node)
        /\ \A k \in Taken(node) : \E i \in 1 .. node.count : Edges(node)[i] = k
    BY EdgesInOrder DEF Kept
  <2>2. DOMAIN Edges(node) = 1 .. node.count
    BY <2>1
  <2>3. ToSet(Edges(node)) = Taken(node)
    BY <2>1, <2>2 DEF ToSet
  <2>4. ASSUME NEW i \in 2 .. Len(Edges(node))
        PROVE  Edges(node)[i - 1] < Edges(node)[i]
    <3>1. i - 1 \in 1 .. Len(Edges(node)) /\ i \in 1 .. Len(Edges(node)) /\ i - 1 < i
      BY <2>1
    <3> QED  BY <2>1, <3>1 DEF Increasing
  <2> QED  BY <2>3, <2>4 DEF VisitsInOrder
<1> QED  BY <1>1, <1>2, AlwaysKept, PTL DEF WellFormed
=============================================================================
