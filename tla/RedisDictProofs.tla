-------------------------- MODULE RedisDictProofs ---------------------------
(***************************************************************************)
(* Proofs about RedisDict, for any names and members.                      *)
(*                                                                         *)
(* Kept is what connections that break leave intact, if no client deletes  *)
(* "/a/t./": no name and no member is without its dict directory.  Listed  *)
(* is what else there is while none breaks, and each step keeps it on top  *)
(* of Kept: "/a/" lists the dict directories, and these their members.  It *)
(* needs clients that leave "/a/t/" alone, too, and lists that leave no    *)
(* member out.                                                             *)
(***************************************************************************)
EXTENDS RedisDict, TLAPS

Kept == TypeOK /\ DictsKept
Listed == Kept /\ MembersListed /\ DictsListed

NoDictDirs == "dictdir" \notin Used
DictClients == Used \subseteq {"file", "dict"} /\ Lists \subseteq {Members}

USE DEF Entry, Member, Sorts

-----------------------------------------------------------------------------
(* What Set writes *)

LEMMA BatchParts ==
  ASSUME NEW S \in Batches
  PROVE  /\ S \subseteq Member /\ Touched(S) \subseteq Names
         /\ \A t \in Names : DictOf(t) \in Entry /\ MembersOf(t, S) \subseteq Members
         /\ \A m \in S : m.name \in MembersOf(m.dict, S) /\ m.dict \in Touched(S)
BY DEF Batches, Touched, DictOf, MembersOf

\* The members P and the dict directories D are written, and whatever is added
\* to the lists and to "/a/" is of these.
LEMMA WrittenStep ==
  ASSUME Kept, NEW S \in Batches, NEW P \in SUBSET S, NEW D \in SUBSET Touched(S),
         NEW N \in SUBSET D, NEW L \in SUBSET Touched(S),
         Touched(P) \subseteq D,
         has' = has \cup {DictOf(t) : t \in D},
         index' = index \cup {DictOf(t) : t \in N},
         members' = members \cup P,
         kids' = [t \in Names |-> IF t \in L THEN kids[t] \cup MembersOf(t, S) ELSE kids[t]],
         asIndex' = asIndex \ L
  PROVE  Kept'
<1>1. TypeOK'
  <2>1. {DictOf(t) : t \in D} \subseteq Entry /\ {DictOf(t) : t \in N} \subseteq Entry
    BY BatchParts
  <2>2. kids' \in [Names -> SUBSET Members]
    BY BatchParts DEF Kept, TypeOK
  <2> QED
    BY <2>1, <2>2, BatchParts DEF Kept, TypeOK
<1>2. DictsKept'
  <2>1. Touched(members') = Touched(members) \cup Touched(P)
    BY DEF Touched
  <2>2. \A t : DictOf(t) \in {DictOf(u) : u \in D} <=> t \in D
    BY DEF DictOf
  <2>3. \A t : DictOf(t) \in {DictOf(u) : u \in N} <=> t \in N
    BY DEF DictOf
  <2> QED
    BY <2>1, <2>2, <2>3 DEF Kept, DictsKept
<1> QED
  BY <1>1, <1>2 DEF Kept

LEMMA MembersStep ==
  ASSUME Kept, NEW S \in Batches, SetMembers(S)
  PROVE  Kept' /\ (Listed => Listed')
<1>1. Kept'
  <2>1. kids' = [t \in Names |-> IF t \in Touched(S) THEN kids[t] \cup MembersOf(t, S)
                                ELSE kids[t]]
    BY DEF SetMembers, Touched, MembersOf
  <2> QED
    BY <2>1, WrittenStep DEF SetMembers
<1>2. ASSUME Listed PROVE MembersListed'
  <2> SUFFICES ASSUME NEW m \in members'
               PROVE  m.name \in kids'[m.dict]
    BY DEF MembersListed
  <2>1. m \in members \cup S /\ m.dict \in Names
    BY BatchParts DEF Kept, TypeOK, SetMembers
  <2>2. kids'[m.dict] = kids[m.dict] \cup MembersOf(m.dict, S)
    BY <2>1 DEF SetMembers
  <2> QED
    BY <1>2, <2>1, <2>2, BatchParts DEF Listed, MembersListed
<1>3. ASSUME Listed PROVE DictsListed'
  BY <1>3 DEF Listed, DictsListed, SetMembers
<1> QED
  BY <1>1, <1>2, <1>3 DEF Listed

\* Commands are lost from the end of the pipeline, where the lists are.
LEMMA CutStep ==
  ASSUME Kept, NEW S \in Batches, SetCut(S)
  PROVE  Kept'
<1> PICK P \in SUBSET S, D \in SUBSET Touched(S), L \in SUBSET Touched(S), named \in BOOLEAN :
        /\ Touched(P) \subseteq D
        /\ has' = has \cup {DictOf(t) : t \in D}
        /\ index' = IF named THEN index \cup {DictOf(t) : t \in D} ELSE index
        /\ members' = members \cup P
        /\ kids' = [t \in Names |-> IF t \in L THEN kids[t] \cup MembersOf(t, S) ELSE kids[t]]
        /\ asIndex' = asIndex \ L
  BY DEF SetCut
<1>1. PICK N \in SUBSET D : index' = index \cup {DictOf(t) : t \in N}
  <2>1. CASE named
    BY <2>1
  <2>2. CASE ~ named
    <3>1. index' = index \cup {DictOf(t) : t \in {}}
      BY <2>2
    <3> QED
      BY <3>1
  <2> QED
    BY <2>1, <2>2
<1> QED
  BY <1>1, WrittenStep

LEMMA DictStep ==
  ASSUME Kept, NEW t \in Names, NEW names \in Lists, SetDict(t, names)
  PROVE  Kept' /\ (DictClients /\ Listed => Listed')
<1>1. DictOf(t) \in Entry /\ names \subseteq Members
  BY DictKeysAssumption DEF DictKeysAssumption, DictOf
<1>2. Kept'
  <2>1. TypeOK'
    BY <1>1 DEF Kept, TypeOK, SetDict
  <2> QED
    BY <2>1 DEF Kept, DictsKept, SetDict
<1>3. ASSUME DictClients, Listed PROVE MembersListed'
  <2>1. names = Members
    BY <1>3 DEF DictClients
  <2> QED
    BY <1>3, <2>1 DEF Listed, Kept, TypeOK, MembersListed, SetDict
<1>4. ASSUME Listed PROVE DictsListed'
  BY <1>4 DEF Listed, DictsListed, SetDict
<1> QED
  BY <1>2, <1>3, <1>4 DEF Listed

-----------------------------------------------------------------------------
(* What is deleted *)

\* A deletion keeps the invariants, if the key of a dict directory goes together
\* with its members, and not without its name.  If neither goes without the
\* other, the lists stay right.
LEMMA DeleteStep ==
  ASSUME Kept, NEW E, NEW S, NEW L, Delete(E, S, L),
         \A t \in Names : DictOf(t) \in E => DictOf(t) \in L,
         \A m \in members : DictOf(m.dict) \in E => m \in S
  PROVE  /\ Kept'
         /\ Listed /\ (\A t \in Names : DictOf(t) \in L => DictOf(t) \in E) => Listed'
<1>1. TypeOK'
  BY DEF Kept, TypeOK, Delete
<1>2. ASSUME NEW m \in members'
      PROVE  /\ m \in members /\ m.dict \in Names /\ DictOf(m.dict) \notin E
             /\ m.dict \in Touched(members)
  BY DEF Kept, TypeOK, Delete, Touched
<1>3. \A t \in Touched(members') : t \in Touched(members) /\ DictOf(t) \notin E
  BY <1>2 DEF Touched
<1>4. DictsKept'
  BY <1>3 DEF Kept, DictsKept, Delete
<1>5. ASSUME Listed PROVE MembersListed'
  BY <1>2, <1>5 DEF Listed, MembersListed, Delete
<1>6. ASSUME Listed, \A t \in Names : DictOf(t) \in L => DictOf(t) \in E PROVE DictsListed'
  BY <1>6 DEF Listed, DictsListed, Delete
<1> QED
  BY <1>1, <1>4, <1>5, <1>6 DEF Kept, Listed

\* What Del of a path other than "/a/t./" takes away are no dict directories.
LEMMA DelStep ==
  ASSUME Kept, NEW e \in Entry, e.sort # "dictdir", Del(e)
  PROVE  Kept' /\ (Listed => Listed')
<1> DEFINE E == Of(e.name, DelSorts(e.sort))
           L == Of(e.name, DelNames(e.sort))
<1>1. \A t : DictOf(t) \notin E /\ DictOf(t) \notin L
  BY DEF DictOf, Of, DelSorts, DelNames
<1>2. Delete(E, {}, L)
  BY DEF Del
<1> HIDE DEF E, L
<1> QED
  BY <1>1, <1>2, DeleteStep

\* DelTree takes a dict directory, its members and its name, or the name alone
\* if it is called with "/a/t/".
LEMMA DelTreeStep ==
  ASSUME Kept, NEW e \in Entry, e.sort # "dictdir", DelTree(e)
  PROVE  Kept' /\ (Listed /\ e.sort # "dir" => Listed')
<1> DEFINE E == Of(e.name, DelTreeSorts(e.sort))
           L == Of(e.name, DelTreeNames(e.sort))
<1>1. \A t : /\ DictOf(t) \in E <=> t = e.name /\ e.sort # "dir"
             /\ DictOf(t) \in L <=> t = e.name
  BY DEF DictOf, Of, DelTreeSorts, DelTreeNames
<1>2. \A m \in members : DictOf(m.dict) \in E => m \in DelTreeMembers(e)
  BY <1>1 DEF DelTreeMembers
<1>3. Delete(E, DelTreeMembers(e), L)
  BY DEF DelTree
<1> HIDE DEF E, L
<1>4. Kept' /\ (Listed /\ (\A t \in Names : DictOf(t) \in L => DictOf(t) \in E) => Listed')
  BY <1>1, <1>2, <1>3, DeleteStep
<1> QED
  BY <1>1, <1>4

-----------------------------------------------------------------------------
(* All steps *)

\* An entry that is no dict directory may be named, with or without its key.
LEMMA NamedStep ==
  ASSUME Kept, NEW e \in Entry, e.sort # "dict",
         has' \in {has, has \cup {e}}, index' = index \cup {e},
         UNCHANGED <<members, kids, asIndex>>
  PROVE  Kept' /\ (Listed => Listed')
<1>1. \A t : e # DictOf(t)
  BY DEF DictOf
<1>2. Kept'
  BY <1>1 DEF Kept, TypeOK, DictsKept
<1>3. ASSUME Listed PROVE MembersListed' /\ DictsListed'
  BY <1>1, <1>3 DEF Listed, MembersListed, DictsListed
<1> QED
  BY <1>2, <1>3 DEF Listed

LEMMA NextStep ==
  ASSUME NoDictDirs, Kept, [Next]_vars
  PROVE  Kept' /\ (DictClients /\ Listed => Listed')
<1>1. CASE UNCHANGED vars
  BY <1>1 DEF vars, Kept, Listed, TypeOK, DictsKept, MembersListed, DictsListed
<1>2. ASSUME NEW m \in Member, DelMember(m)
      PROVE  Kept' /\ (Listed => Listed')
  <2>1. Delete({}, {m}, {})
    BY <1>2 DEF DelMember
  <2> QED
    BY <2>1, DeleteStep
<1>3. ASSUME NEW e \in [name: Names, sort: Used]
      PROVE  /\ e \in Entry /\ e.sort # "dictdir"
             /\ DictClients => e.sort # "dir"
  BY DictKeysAssumption DEF DictKeysAssumption, NoDictDirs, DictClients
<1>4. ASSUME NEW e \in Entry, e.sort # "dict", SetEntry(e)
      PROVE  Kept' /\ (Listed => Listed')
  BY <1>4, NamedStep DEF SetEntry
<1>5. ASSUME NEW e \in Entry, Mkindex(e)
      PROVE  Kept' /\ (Listed => Listed')
  <2> DEFINE d == IF e.sort = "dict" THEN [e EXCEPT !.sort = "dictdir"] ELSE e
  <2>1. d \in Entry /\ d.sort # "dict"
    OBVIOUS
  <2>2. index' = index \cup {d} /\ has' = has /\ UNCHANGED <<members, kids, asIndex>>
    BY <1>5 DEF Mkindex
  <2> HIDE DEF d
  <2> QED
    BY <2>1, <2>2, NamedStep
<1>6. ASSUME NEW S \in Batches, SetMembers(S)
      PROVE  Kept' /\ (Listed => Listed')
  BY <1>6, MembersStep
<1>7. ASSUME NEW t \in Names, NEW names \in Lists, SetDict(t, names)
      PROVE  Kept' /\ (DictClients /\ Listed => Listed')
  BY <1>7, DictStep
<1>8. ASSUME NEW e \in [name: Names, sort: Used],
             \/ e.sort # "dict" /\ SetEntry(e)
             \/ Mkindex(e)
             \/ Del(e)
             \/ DelTree(e)
      PROVE  Kept' /\ (DictClients /\ Listed => Listed')
  BY <1>3, <1>4, <1>5, <1>8, DelStep, DelTreeStep
<1> QED
  BY <1>1, <1>2, <1>6, <1>7, <1>8 DEF Next

LEMMA InitListed == Init => Listed
BY DEF Init, Kept, Listed, TypeOK, DictsKept, MembersListed, DictsListed, Touched

-----------------------------------------------------------------------------

\* Whatever connections break, a dict directory that is listed or has members is
\* there, if no client deletes "/a/t./", with which it goes.
THEOREM BrokenDictsKept ==
  ASSUME NoDictDirs
  PROVE  BreakingSpec => [](TypeOK /\ DictsKept)
<1>1. Init => Kept
  BY InitListed DEF Listed
<1>2. Kept /\ [BreakingNext]_vars => Kept'
  BY NextStep, CutStep DEF BreakingNext
<1>3. Kept => TypeOK /\ DictsKept
  BY DEF Kept
<1> QED
  BY <1>1, <1>2, <1>3, PTL DEF BreakingSpec

\* While none breaks, "/a/" lists the dict directories that are there and no
\* others, and these list every member that is there, none of which is without
\* its directory, if the clients leave the directories "/a/t/" and "/a/t./" alone
\* and give no list that leaves one out.
THEOREM RedisDictsListed ==
  ASSUME DictClients
  PROVE  Spec => []RedisDicts
<1>1. NoDictDirs
  BY DEF DictClients, NoDictDirs
<1>2. Listed /\ [Next]_vars => Listed'
  BY <1>1, NextStep DEF Listed
<1>3. Listed => RedisDicts
  BY DEF Listed, Kept, RedisDicts
<1> QED
  BY InitListed, <1>2, <1>3, PTL DEF Spec
=============================================================================
