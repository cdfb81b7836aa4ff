----------------------------- MODULE LinkCheck ------------------------------
(***************************************************************************)
(* Links are checked when they are set: ValidatePtr reads the target and   *)
(* refuses a link that declares another kind or array length than the      *)
(* target has.  Set calls it for each pair of its batch before it takes    *)
(* store.mu, each time with a lock of its own, and writes all pairs under  *)
(* the lock afterwards (goheap; redis and shm check before they write,     *)
(* too).  So a check is about a store that the write may no longer find,   *)
(* because another goroutine was in between or because the batch itself    *)
(* sets the target.                                                        *)
(*                                                                         *)
(* The keys are files of one directory without an overlay.  What has       *)
(* happened to a target since it was checked is kept in moved and settled, *)
(* which no step depends on.                                               *)
(***************************************************************************)
EXTENDS Naturals, Sequences, FiniteSets

CONSTANTS Threads,    \* the goroutines
          Keys,       \* the files
          Kinds,      \* the kinds of data
          Lengths,    \* the array lengths that a link declares and data have
          NoKey,      \* no key: data have no target
          NoKind,     \* no kind: that of a key that is not there
          SetBatches  \* the argument lists of Set that each goroutine uses

\* A value has a kind and an array length, and a link in addition a target.  A
\* link that leaves its kind or length open is not among the values: Set refuses
\* it, for it would not be read back as it is (Accepts of Codec).
None == [kind |-> NoKind, len |-> 0, target |-> NoKey]
Data == [kind: Kinds, len: Lengths, target: {NoKey}]
Links == [kind: Kinds, len: Lengths, target: Keys]

IsLink(v) == v.target # NoKey

Pair == [key: Keys, val: Data \cup Links]

LinkCheckAssumption ==
    /\ Lengths \subseteq Nat \ {0}
    /\ NoKey \notin Keys
    /\ NoKind \notin Kinds
    /\ \A c \in Threads : SetBatches[c] \subseteq Seq(Pair) \ {<< >>}

ASSUME LinkCheckAssumption

VARIABLES value,   \* the value of every key, None where there is none
          call,    \* the Set of each goroutine: the pairs to check and those prepared
          settled  \* the links whose target nobody has written since it was checked

linkVars == <<value, call, settled>>

\* A prepared pair; moved: its target has been written since it was checked.
PreparedPair == [key: Keys, val: Data \cup Links, moved: BOOLEAN]

NoSet == [todo |-> << >>, prepared |-> << >>]

LinkInit ==
    /\ value = [k \in Keys |-> None]
    /\ call = [c \in Threads |-> NoSet]
    /\ settled = {}

Idle(c) == call[c] = NoSet

\* ValidatePtr, of one value against store s.  A target that is a link itself
\* is taken with what it declares.
Valid(s, v) ==
    IsLink(v) =>
        LET t == s[v.target]
        IN  \/ t = None
            \/ t.kind = v.kind /\ (v.len > 0 => t.len = v.len)

SetStart(c) ==
    /\ Idle(c)
    /\ \E batch \in SetBatches[c] : call' = [call EXCEPT ![c].todo = batch]
    /\ UNCHANGED <<value, settled>>

\* The call with its next pair prepared.
WithNext(f) ==
    LET pair == Head(f.todo)
    IN  [todo |-> Tail(f.todo),
         prepared |-> Append(f.prepared, [key |-> pair.key, val |-> pair.val, moved |-> FALSE])]

\* Mutant: a pair is prepared before it is checked.
MutSetCheck(c) ==
    LET f == call[c]
    IN  /\ f.todo # << >>
        /\ call' = [call EXCEPT ![c] = IF Valid(value, Head(f.todo).val) THEN WithNext(f)
                                       ELSE [WithNext(f) EXCEPT !.todo = << >>]]
        /\ UNCHANGED <<value, settled>>

\* The next pair is checked, under a lock of its own.  At the first invalid one
\* Set gives up the rest and goes on with those before it.
SetCheck(c) ==
    LET f == call[c]
    IN  /\ f.todo # << >>
        /\ call' = [call EXCEPT ![c] = IF Valid(value, Head(f.todo).val) THEN WithNext(f)
                                       ELSE [f EXCEPT !.todo = << >>]]
        /\ UNCHANGED <<value, settled>>

\* The keys of W are written: what becomes of the call f of another goroutine,
\* and the links of store s that stay settled.
Moved(f, W) ==
    [f EXCEPT !.prepared = [i \in DOMAIN f.prepared |->
        LET e == f.prepared[i] IN [e EXCEPT !.moved = @ \/ e.val.target \in W]]]
Unmoved(s, W) == {k \in settled \ W : s[k].target \notin W}

\* Set, under the lock: of the pairs for one key, the last stays.
SetWrite(c) ==
    LET batch == call[c].prepared
        W == {batch[i].key : i \in DOMAIN batch}
    IN  /\ call[c].todo = << >> /\ batch # << >>
        /\ \E last \in [W -> DOMAIN batch] :
              /\ \A k \in W : /\ batch[last[k]].key = k
                              /\ \A i \in DOMAIN batch : batch[i].key = k => i <= last[k]
              /\ value' = [k \in Keys |-> IF k \in W THEN batch[last[k]].val ELSE value[k]]
              /\ settled' = Unmoved(value, W) \cup
                    {k \in W : LET e == batch[last[k]]
                               IN  IsLink(e.val) /\ ~ e.moved /\ e.val.target \notin W}
        /\ call' = [d \in Threads |-> IF d = c THEN NoSet ELSE Moved(call[d], W)]

\* Del of one key.
DelKey(c, k) ==
    /\ Idle(c)
    /\ value' = [value EXCEPT ![k] = None]
    /\ settled' = Unmoved(value, {k})
    /\ call' = [d \in Threads |-> Moved(call[d], {k})]

LinkNext ==
    \E c \in Threads :
        SetStart(c) \/ SetCheck(c) \/ SetWrite(c) \/ \E k \in Keys : DelKey(c, k)

LinkSpec == LinkInit /\ [][LinkNext]_linkVars

-----------------------------------------------------------------------------
(* Properties *)

\* A link declares what its target is, unless the target has been set or deleted
\* after ValidatePtr read it: by another goroutine before the write or after it,
\* or by the batch of the link itself.
LinksMatch == \A k \in settled : Valid(value, value[k])
=============================================================================
