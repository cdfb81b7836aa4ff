------------------------------ MODULE DictKeys ------------------------------
(***************************************************************************)
(* One directory "/a/" whose entries may be dict directories.              *)
(*                                                                         *)
(* The last "." of a file's name is a separator (SplitIndex): the key      *)
(* "/a/t.m" is member m of the dict directory "/a/t.", a key of its own    *)
(* that holds the names of the members, as "/a/" holds those of its        *)
(* entries.  Four keys of "/a/" are close to each other:                   *)
(*                                                                         *)
(*    "file"     "/a/t"     the file t                                     *)
(*    "dir"      "/a/t/"    the directory t                                *)
(*    "dict"     "/a/t."    the dict directory t                           *)
(*    "dictdir"  "/a/t./"   the ordinary directory named t.                *)
(*                                                                         *)
(* and the code that cuts a suffix off a path can take one for another.    *)
(* Which names come from SplitIndex and which from the backend's own       *)
(* parentName is all this is about: there are no links and no overlays     *)
(* here, "/a/" is never deleted itself, and of the directories "/a/t/" and *)
(* "/a/t./" the contents are left out.  No name begins with another one.   *)
(***************************************************************************)
EXTENDS FiniteSets, Naturals

CONSTANTS Names,    \* the names t of entries
          Members,  \* the names m of members
          Used,     \* the sorts of entries that the clients name in their calls
          Lists,    \* the lists of names that Set gives to a dict directory
          MaxBatch  \* bound: the members that one Set writes

Sorts == {"file", "dir", "dict", "dictdir"}
Entry == [name: Names, sort: Sorts]
Member == [dict: Names, name: Members]

DictKeysAssumption ==
    /\ Used \subseteq Sorts
    /\ Lists \subseteq SUBSET Members
    /\ MaxBatch \in Nat

ASSUME DictKeysAssumption

VARIABLES has,     \* the entries whose key is there
          index,   \* the entries that the index of "/a/" lists
          members, \* the members whose key is there
          kids,    \* the names that the key of each dict directory lists
          asIndex  \* the dict directories whose key holds a value of kind index

vars == <<has, index, members, kids, asIndex>>

Of(t, sorts) == [name: {t}, sort: sorts]
DictOf(t) == [name |-> t, sort |-> "dict"]
Touched(S) == {m.dict : m \in S}
MembersOf(t, S) == {m.name : m \in {n \in S : n.dict = t}}

\* The argument lists of Set that only name members.
Batches == {S \in SUBSET Member : Cardinality(S) \in 1 .. MaxBatch}

Init ==
    /\ has = {} /\ index = {} /\ members = {}
    /\ kids = [t \in Names |-> {}]
    /\ asIndex = {}

\* The keys E and S go, the names L go; a dict directory that goes takes its
\* list of members along.
Delete(E, S, L) ==
    LET dicts == {t \in Names : DictOf(t) \in E}
    IN  /\ has' = has \ E
        /\ index' = index \ L
        /\ members' = members \ S
        /\ kids' = [t \in Names |-> IF t \in dicts THEN {} ELSE kids[t]]
        /\ asIndex' = asIndex \ dicts

\* The calls whose effect on these keys is the same in both backends ------

\* Set of a file, or of a directory with an index.
SetEntry(e) ==
    /\ has' = has \cup {e}
    /\ index' = index \cup {e}
    /\ UNCHANGED <<members, kids, asIndex>>

\* Set of the key of a dict directory: it must be given an Index.
SetDict(t, names) ==
    /\ has' = has \cup {DictOf(t)}
    /\ index' = index \cup {DictOf(t)}
    /\ kids' = [kids EXCEPT ![t] = names]
    /\ asIndex' = asIndex \cup {t}
    /\ UNCHANGED members

\* Del of a member: parentName looks for its name "t.m" in "/a/", which never
\* lists one.
DelMember(m) == Delete({}, {m}, {})

\* Properties --------------------------------------------------------------

TypeOK ==
    /\ has \subseteq Entry
    /\ index \subseteq Entry
    /\ members \subseteq Member
    /\ kids \in [Names -> SUBSET Members]
    /\ asIndex \subseteq Names

\* The directory "/a/" lists the entries that are there and no others: the
\* separate code that names an entry when it is set and when it is deleted
\* agrees, for each of the four spellings of a name.
Coherent == index = has

\* No member is out of reach: the dict directory of every member is there, and
\* its parent lists it, so a walk over the indexes can get there.
MembersReachable == \A m \in members : DictOf(m.dict) \in has \cap index

\* Every member that is there is listed by its dict directory.
MembersListed == \A m \in members : m.name \in kids[m.dict]
=============================================================================
