---------------------------- MODULE StoredProofs ----------------------------
(***************************************************************************)
(* Proofs about what one key says about another.                           *)
(*                                                                         *)
(* GoheapDict, for any names, members and lists: the index of the          *)
(* directory and its keys agree through all calls, and no member is out of *)
(* reach.  TypeOK, Coherent and MembersReachable are inductive together;   *)
(* the last rests on DelTree collecting the members of every dict          *)
(* directory that it deletes.                                              *)
(*                                                                         *)
(* LinkCheck, for any goroutines, batches, keys, kinds and lengths: only a *)
(* write of its target after the check sets a link and its target at odds. *)
(* The step that carries it is that a pair once checked stays valid while  *)
(* its target is not written, through the checks of the rest of its batch  *)
(* and the writes of other goroutines.                                     *)
(***************************************************************************)
EXTENDS GoheapDict, LinkCheck, TLAPS

-----------------------------------------------------------------------------
(* Dict directories in goheap *)

DictInv == TypeOK /\ Coherent /\ MembersReachable

USE DEF Entry, Member, Sorts

\* What a call deletes keeps the invariant, if the key and the name of an entry
\* go together and with a dict directory its members.
LEMMA DeleteStep ==
  ASSUME DictInv, NEW E, NEW S, Delete(E, S, E),
         \A m \in members : DictOf(m.dict) \in E => m \in S
  PROVE  DictInv'
<1>1. TypeOK'
  BY DEF DictInv, TypeOK, Delete
<1>2. Coherent'
  BY DEF DictInv, Coherent, Delete
<1>3. MembersReachable'
  BY DEF DictInv, MembersReachable, Delete
<1> QED
  BY <1>1, <1>2, <1>3 DEF DictInv

\* An entry is entered together with its key.
LEMMA EntryStep ==
  ASSUME DictInv, NEW e \in Entry, SetEntry(e)
  PROVE  DictInv'
BY DEF DictInv, TypeOK, Coherent, MembersReachable, SetEntry

LEMMA DictStep ==
  ASSUME DictInv, NEW t \in Names, NEW names \in Lists, SetDict(t, names)
  PROVE  DictInv'
<1>1. DictOf(t) \in Entry /\ names \subseteq Members
  BY DictKeysAssumption DEF DictKeysAssumption, DictOf
<1>2. TypeOK'
  BY <1>1 DEF DictInv, TypeOK, SetDict
<1> QED
  BY <1>2 DEF DictInv, Coherent, MembersReachable, SetDict

LEMMA MembersStep ==
  ASSUME DictInv, NEW S \in Batches, SetMembers(S)
  PROVE  DictInv'
<1>1. /\ S \subseteq Member /\ Touched(S) \subseteq Names
      /\ \A t \in Names : DictOf(t) \in Entry /\ MembersOf(t, S) \subseteq Members
  BY DEF Batches, Touched, DictOf, MembersOf
<1>2. TypeOK'
  <2>1. kids' \in [Names -> SUBSET Members]
    BY <1>1 DEF DictInv, TypeOK, SetMembers
  <2>2. {DictOf(t) : t \in Touched(S)} \subseteq Entry
    BY <1>1
  <2> QED
    BY <1>1, <2>1, <2>2 DEF DictInv, TypeOK, SetMembers
<1>3. Coherent'
  BY DEF DictInv, Coherent, SetMembers
<1>4. MembersReachable'
  <2>1. \A m \in S : DictOf(m.dict) \in {DictOf(t) : t \in Touched(S)}
    BY DEF Touched
  <2> QED
    BY <2>1 DEF DictInv, MembersReachable, SetMembers
<1> QED
  BY <1>2, <1>3, <1>4 DEF DictInv

LEMMA ArgumentStep ==
  ASSUME DictInv, NEW e \in [name: Names, sort: Used],
         \/ e.sort # "dict" /\ SetEntry(e)
         \/ Mkindex(e)
         \/ Del(e)
         \/ DelTree(e)
  PROVE  DictInv'
<1>1. e \in Entry
  BY DictKeysAssumption DEF DictKeysAssumption
<1>2. CASE SetEntry(e)
  BY <1>1, <1>2, EntryStep
<1>3. CASE Mkindex(e)
  <2>1. [e EXCEPT !.sort = "dictdir"] \in Entry
    BY <1>1
  <2> QED
    BY <1>1, <1>3, <2>1, EntryStep DEF Mkindex
<1>4. CASE Del(e)
  <2>1. \A m \in members : DictOf(m.dict) # Deleted(e)
    BY <1>1 DEF DictOf, Deleted
  <2> QED
    BY <1>4, <2>1, DeleteStep DEF Del
<1>5. CASE DelTree(e)
  <2>1. ASSUME NEW m \in members, DictOf(m.dict) \in Collected(e)
        PROVE  m \in CollectedMembers(e)
    BY <1>1, <2>1 DEF DictOf, Collected, CollectedMembers, Of
  <2> QED
    BY <1>5, <2>1, DeleteStep DEF DelTree
<1> QED
  BY <1>2, <1>3, <1>4, <1>5

LEMMA NextDictInv == DictInv /\ [Next]_vars => DictInv'
<1> SUFFICES ASSUME DictInv, [Next]_vars PROVE DictInv'
  OBVIOUS
<1>1. CASE UNCHANGED vars
  BY <1>1 DEF vars, DictInv, TypeOK, Coherent, MembersReachable
<1>2. ASSUME NEW m \in Member, DelMember(m) PROVE DictInv'
  <2>1. Delete({}, {m}, {})
    BY <1>2 DEF DelMember
  <2> QED
    BY <2>1, DeleteStep
<1> QED
  BY <1>1, <1>2, MembersStep, ArgumentStep, DictStep DEF Next

LEMMA InitDictInv == Init => DictInv
BY DEF Init, DictInv, TypeOK, Coherent, MembersReachable

\* The variables have their types.
THEOREM DictTypeCorrect == Spec => []TypeOK
<1>1. DictInv => TypeOK
  BY DEF DictInv
<1> QED
  BY InitDictInv, NextDictInv, <1>1, PTL DEF Spec

\* The directory lists the entries that are there and no others, in all their
\* spellings, after any sequence of calls.
THEOREM DictCoherent == Spec => []Coherent
<1>1. DictInv => Coherent
  BY DEF DictInv
<1> QED
  BY InitDictInv, NextDictInv, <1>1, PTL DEF Spec

\* The dict directory of every member is there and is listed: neither Del of one
\* of its namesakes nor DelTree of one takes it away from under its members.
THEOREM DictMembersReachable == Spec => []MembersReachable
<1>1. DictInv => MembersReachable
  BY DEF DictInv
<1> QED
  BY InitDictInv, NextDictInv, <1>1, PTL DEF Spec

-----------------------------------------------------------------------------
(* Links *)

AnyValue == Data \cup Links \cup {None}

SetCall == [todo: Seq(Pair), prepared: Seq(PreparedPair)]

Types ==
    /\ value \in [Keys -> AnyValue]
    /\ call \in [Threads -> SetCall]
    /\ settled \subseteq {k \in Keys : IsLink(value[k])}

\* A prepared pair whose target has not been written since its check is valid in
\* the store as it is: what the write rests on.
Checked ==
    \A c \in Threads : \A i \in DOMAIN call[c].prepared :
        LET e == call[c].prepared[i] IN ~ e.moved => Valid(value, e.val)

LinkInv == Types /\ Checked /\ LinksMatch

\* Keys other than those of W have the value that they had.
Kept(W) == value' \in [Keys -> AnyValue] /\ \A k \in Keys \ W : value'[k] = value[k]

LEMMA TargetKey ==
  ASSUME NEW v \in AnyValue, IsLink(v)
  PROVE  v.target \in Keys /\ v \in Links
BY DEF AnyValue, Data, Links, None, IsLink

\* What is valid stays valid while its target is not written.
LEMMA ValidKept ==
  ASSUME NEW W, Kept(W), NEW v \in AnyValue, v.target \notin W, Valid(value, v)
  PROVE  Valid(value', v)
BY TargetKey DEF Kept, Valid

\* The same of the links that stay settled.
LEMMA SettledKept ==
  ASSUME Types, LinksMatch, NEW W, Kept(W), NEW k \in Unmoved(value, W)
  PROVE  k \in Keys /\ value'[k] = value[k] /\ IsLink(value'[k]) /\ Valid(value', value'[k])
<1>1. k \in settled /\ k \in Keys \ W /\ value[k].target \notin W /\ IsLink(value[k])
  BY DEF Unmoved, Types
<1>2. value'[k] = value[k] /\ value[k] \in AnyValue
  BY <1>1 DEF Kept, Types
<1>3. Valid(value, value[k])
  BY <1>1 DEF LinksMatch
<1> QED  BY <1>1, <1>2, <1>3, ValidKept

\* The pairs of a call of another goroutine, after the keys of W are written.
LEMMA MovedCall ==
  ASSUME NEW f \in SetCall, NEW W
  PROVE  /\ Moved(f, W) \in SetCall /\ Moved(f, W).todo = f.todo
         /\ DOMAIN Moved(f, W).prepared = DOMAIN f.prepared
         /\ \A i \in DOMAIN f.prepared :
               LET e == f.prepared[i]
                   g == Moved(f, W).prepared[i]
               IN  /\ e \in PreparedPair /\ g.val = e.val
                   /\ ~ g.moved => ~ e.moved /\ e.val.target \notin W
<1> DEFINE g(e) == [e EXCEPT !.moved = @ \/ e.val.target \in W]
           moved == [i \in DOMAIN f.prepared |-> g(f.prepared[i])]
<1>1. \A e \in PreparedPair : g(e) \in PreparedPair /\ g(e).val = e.val
  BY DEF PreparedPair
<1>2. \A e \in PreparedPair : ~ g(e).moved => ~ e.moved /\ e.val.target \notin W
  BY DEF PreparedPair
<1>3. f.prepared \in Seq(PreparedPair) /\ \A i \in DOMAIN f.prepared : f.prepared[i] \in PreparedPair
  BY DEF SetCall
<1> HIDE DEF g
<1>4. moved \in Seq(PreparedPair) /\ DOMAIN moved = DOMAIN f.prepared
  BY <1>1, <1>3
<1>5. \A i \in DOMAIN f.prepared : moved[i] = g(f.prepared[i])
  OBVIOUS
<1>6. Moved(f, W) = [f EXCEPT !.prepared = moved]
  BY DEF Moved, g
<1> HIDE DEF moved
<1>7. Moved(f, W) \in SetCall /\ Moved(f, W).todo = f.todo /\ Moved(f, W).prepared = moved
  BY <1>4, <1>6 DEF SetCall
<1> QED  BY <1>1, <1>2, <1>3, <1>4, <1>5, <1>7

\* A write of the keys of W leaves the calls of the others checked.
LEMMA OthersChecked ==
  ASSUME Types, Checked, NEW W, Kept(W), NEW d \in Threads, call'[d] = Moved(call[d], W)
  PROVE  /\ call'[d] \in SetCall
         /\ \A i \in DOMAIN call'[d].prepared :
               LET e == call'[d].prepared[i] IN ~ e.moved => Valid(value', e.val)
<1>1. call[d] \in SetCall
  BY DEF Types
<1>2. call'[d] \in SetCall /\ DOMAIN call'[d].prepared = DOMAIN call[d].prepared
  BY <1>1, MovedCall
<1>3. ASSUME NEW i \in DOMAIN call[d].prepared, ~ call'[d].prepared[i].moved
      PROVE  Valid(value', call'[d].prepared[i].val)
  <2> DEFINE e == call[d].prepared[i]
  <2>1. /\ e \in PreparedPair /\ call'[d].prepared[i].val = e.val
        /\ ~ e.moved /\ e.val.target \notin W
    BY <1>1, <1>3, MovedCall
  <2>2. Valid(value, e.val)
    BY <2>1 DEF Checked
  <2>3. e.val \in AnyValue
    BY <2>1 DEF PreparedPair, AnyValue
  <2> QED  BY <2>1, <2>2, <2>3, ValidKept
<1> QED  BY <1>2, <1>3

LEMMA StartStep ==
  ASSUME LinkInv, NEW c \in Threads, SetStart(c)
  PROVE  LinkInv'
<1>1. PICK batch \in SetBatches[c] :
          call' = [call EXCEPT ![c].todo = batch] /\ UNCHANGED <<value, settled>>
  BY DEF SetStart
<1>2. batch \in Seq(Pair)
  BY LinkCheckAssumption DEF LinkCheckAssumption
<1>3. /\ call' \in [Threads -> SetCall]
      /\ \A d \in Threads : call'[d].prepared = call[d].prepared
  BY <1>1, <1>2 DEF LinkInv, Types, SetCall
<1> QED  BY <1>1, <1>3 DEF LinkInv, Types, Checked, LinksMatch, Valid

LEMMA CheckStep ==
  ASSUME LinkInv, NEW c \in Threads, SetCheck(c)
  PROVE  LinkInv'
<1> DEFINE f == call[c]
           pair == Head(f.todo)
           e == [key |-> pair.key, val |-> pair.val, moved |-> FALSE]
           more == Append(f.prepared, e)
           g == call'[c]
<1>1. /\ f \in SetCall /\ f.todo \in Seq(Pair) /\ f.prepared \in Seq(PreparedPair)
      /\ f.todo # << >> /\ UNCHANGED <<value, settled>>
  BY DEF LinkInv, Types, SetCheck, SetCall
<1>2. pair \in Pair /\ Tail(f.todo) \in Seq(Pair)
  BY <1>1
<1>3. \/ g = [todo |-> Tail(f.todo), prepared |-> more] /\ Valid(value, pair.val)
      \/ g = [f EXCEPT !.todo = << >>]
  BY DEF SetCheck, WithNext, LinkInv, Types
<1>4. \A d \in Threads \ {c} : call'[d] = call[d]
  BY DEF SetCheck, LinkInv, Types
<1> HIDE DEF pair
<1>5. e \in PreparedPair /\ e.val = pair.val
  BY <1>2 DEF Pair, PreparedPair
<1> HIDE DEF e, f, g
<1>6. /\ more \in Seq(PreparedPair)
      /\ \A i \in DOMAIN more :
            more[i] = e \/ (i \in DOMAIN f.prepared /\ more[i] = f.prepared[i])
  BY <1>1, <1>5
<1> HIDE DEF more
<1>7. ASSUME g \in SetCall,
             \A i \in DOMAIN g.prepared : ~ g.prepared[i].moved => Valid(value, g.prepared[i].val)
      PROVE  LinkInv'
  <2>1. call' \in [Threads -> SetCall]
    BY <1>7 DEF SetCheck, LinkInv, Types, g
  <2>2. \A d \in Threads : \A i \in DOMAIN call'[d].prepared :
            LET x == call'[d].prepared[i] IN ~ x.moved => Valid(value, x.val)
    BY <1>4, <1>7 DEF LinkInv, Checked, g
  <2>3. value' = value /\ settled' = settled
    BY <1>1
  <2> QED  BY <2>1, <2>2, <2>3 DEF LinkInv, Types, Checked, LinksMatch
<1>8. CASE g = [todo |-> Tail(f.todo), prepared |-> more] /\ Valid(value, pair.val)
  <2>1. g \in SetCall /\ g.prepared = more
    BY <1>2, <1>6, <1>8 DEF SetCall
  <2>2. \A i \in DOMAIN g.prepared : ~ g.prepared[i].moved => Valid(value, g.prepared[i].val)
    BY <1>5, <1>6, <1>8, <2>1 DEF LinkInv, Checked, f
  <2> QED  BY <1>7, <2>1, <2>2
<1>9. CASE g = [f EXCEPT !.todo = << >>]
  <2>1. << >> \in Seq(Pair)
    OBVIOUS
  <2>2. g \in SetCall /\ g.prepared = f.prepared
    BY <1>1, <1>9, <2>1 DEF SetCall
  <2>3. \A i \in DOMAIN g.prepared : ~ g.prepared[i].moved => Valid(value, g.prepared[i].val)
    BY <2>2 DEF LinkInv, Checked, f
  <2> QED  BY <1>7, <2>2, <2>3
<1> QED  BY <1>3, <1>8, <1>9

LEMMA WriteStep ==
  ASSUME LinkInv, NEW c \in Threads, SetWrite(c)
  PROVE  LinkInv'
<1> DEFINE batch == call[c].prepared
           W == {batch[i].key : i \in DOMAIN batch}
           Settles(e) == IsLink(e.val) /\ ~ e.moved /\ e.val.target \notin W
<1>1. PICK last \in [W -> DOMAIN batch] :
          /\ \A k \in W : batch[last[k]].key = k
          /\ value' = [k \in Keys |-> IF k \in W THEN batch[last[k]].val ELSE value[k]]
          /\ settled' = Unmoved(value, W) \cup {k \in W : Settles(batch[last[k]])}
  BY DEF SetWrite
<1>2. call' = [d \in Threads |-> IF d = c THEN NoSet ELSE Moved(call[d], W)]
  BY DEF SetWrite
<1>3. \A i \in DOMAIN batch : batch[i] \in PreparedPair
  BY DEF LinkInv, Types, SetCall
<1>4. W \subseteq Keys
  BY <1>3 DEF PreparedPair
<1>5. \A i \in DOMAIN batch : ~ batch[i].moved => Valid(value, batch[i].val)
  BY DEF LinkInv, Checked
<1> HIDE DEF batch, W
<1>6. ASSUME NEW k \in W
      PROVE  batch[last[k]].val \in AnyValue /\ value'[k] = batch[last[k]].val /\ last[k] \in DOMAIN batch
  BY <1>1, <1>3, <1>4, <1>6 DEF PreparedPair, AnyValue
<1>7. Kept(W)
  BY <1>1, <1>4, <1>6 DEF Kept, LinkInv, Types
<1>8. ASSUME NEW k \in settled'
      PROVE  k \in Keys /\ IsLink(value'[k]) /\ Valid(value', value'[k])
  <2>1. CASE k \in Unmoved(value, W)
    BY <1>7, <2>1, SettledKept DEF LinkInv
  <2>2. CASE k \in W /\ Settles(batch[last[k]])
    <3>1. Valid(value, batch[last[k]].val)
      BY <1>5, <1>6, <2>2
    <3> QED  BY <1>4, <1>6, <1>7, <2>2, <3>1, ValidKept
  <2> QED  BY <1>1, <1>8, <2>1, <2>2
<1>9. NoSet \in SetCall /\ NoSet.prepared = << >> /\ DOMAIN NoSet.prepared = {}
  BY DEF NoSet, SetCall
<1>10. ASSUME NEW d \in Threads
       PROVE  /\ call'[d] \in SetCall
              /\ \A i \in DOMAIN call'[d].prepared :
                    LET e == call'[d].prepared[i] IN ~ e.moved => Valid(value', e.val)
  <2>1. CASE d = c
    BY <1>2, <1>9, <2>1
  <2>2. CASE d # c
    BY <1>2, <1>7, <2>2, OthersChecked DEF LinkInv
  <2> QED  BY <2>1, <2>2
<1>11. Types'
  BY <1>2, <1>7, <1>8, <1>10 DEF Types, Kept
<1> QED  BY <1>8, <1>10, <1>11 DEF LinkInv, Checked, LinksMatch

LEMMA DelKeyStep ==
  ASSUME LinkInv, NEW c \in Threads, NEW k \in Keys, DelKey(c, k)
  PROVE  LinkInv'
<1>1. /\ value' = [value EXCEPT ![k] = None] /\ settled' = Unmoved(value, {k})
      /\ call' = [d \in Threads |-> Moved(call[d], {k})]
  BY DEF DelKey
<1>2. Kept({k})
  BY <1>1 DEF Kept, LinkInv, Types, AnyValue
<1>3. ASSUME NEW d \in Threads
      PROVE  /\ call'[d] \in SetCall
             /\ \A i \in DOMAIN call'[d].prepared :
                   LET e == call'[d].prepared[i] IN ~ e.moved => Valid(value', e.val)
  BY <1>1, <1>2, OthersChecked DEF LinkInv
<1>4. \A j \in settled' : j \in Keys /\ IsLink(value'[j]) /\ Valid(value', value'[j])
  BY <1>1, <1>2, SettledKept DEF LinkInv
<1>5. Types'
  BY <1>1, <1>2, <1>3, <1>4 DEF Types, Kept
<1> QED  BY <1>3, <1>4, <1>5 DEF LinkInv, Checked, LinksMatch

LEMMA InitLinkInv == LinkInit => LinkInv
<1> SUFFICES ASSUME LinkInit PROVE LinkInv
  OBVIOUS
<1>1. NoSet \in SetCall /\ DOMAIN NoSet.prepared = {}
  BY DEF NoSet, SetCall
<1> QED  BY <1>1 DEF LinkInit, LinkInv, Types, AnyValue, Checked, LinksMatch

LEMMA NextLinkInv == LinkInv /\ [LinkNext]_linkVars => LinkInv'
<1> SUFFICES ASSUME LinkInv, [LinkNext]_linkVars PROVE LinkInv'
  OBVIOUS
<1>1. CASE UNCHANGED linkVars
  BY <1>1 DEF linkVars, LinkInv, Types, Checked, LinksMatch, Valid
<1>2. ASSUME NEW c \in Threads,
             SetStart(c) \/ SetCheck(c) \/ SetWrite(c) \/ \E k \in Keys : DelKey(c, k)
      PROVE  LinkInv'
  BY <1>2, StartStep, CheckStep, WriteStep, DelKeyStep
<1> QED  BY <1>1, <1>2 DEF LinkNext

\* A link declares its target's kind and length unless somebody has written the
\* target after ValidatePtr read it, for any number of goroutines and whatever
\* they do between the checks of a batch and its write: nothing but a write in
\* that window, or later, sets a link and its target at odds.
THEOREM LinksMatched == LinkSpec => []LinksMatch
<1>1. LinkInv => LinksMatch
  BY DEF LinkInv
<1> QED  BY InitLinkInv, NextLinkInv, <1>1, PTL DEF LinkSpec
=============================================================================
