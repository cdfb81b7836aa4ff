------------------------------- MODULE Codec -------------------------------
(***************************************************************************)
(* A file's key in goheap that clients set.  Set takes a value only if the *)
(* kind, the length and the bytes of what it has just encoded come back    *)
(* (encodeStoredValue); redis and shm store whatever they are given.       *)
(***************************************************************************)
EXTENDS Encoding

CONSTANT Values     \* the values that clients give to Set

VARIABLES stored, \* its bytes
          given,  \* the value of the last Set that took it
          last    \* the value of the last Set

vars == <<stored, given, last>>

Init == stored = << >> /\ given = None /\ last = None

\* Mutant: the value is not decoded.
MutAccepts(v) == TRUE

\* encodeStoredValue
Accepts(v) ==
    LET d == Decode(Encode(v))
    IN  v.type = "none" \/ (d.kind = v.kind /\ d.len = v.len /\ Encode(d) = Encode(v))

\* The kinds of the indexes are kept for directories.
Reserved(v) == v.kind \in {KindIndex, KindExtIndex}

Set(v) ==
    /\ last' = v
    /\ IF Accepts(v) /\ ~ Reserved(v)
       THEN stored' = Encode(v) /\ given' = v
       ELSE UNCHANGED <<stored, given>>

Next == \E v \in Values : Set(v)

Spec == Init /\ [][Next]_vars

-----------------------------------------------------------------------------
(* Properties *)

Got == Decode(stored)

\* What is read back has the kind, the length and the bytes of what was given,
\* and is a link if that was one.
FieldsKept ==
    /\ <<Got.kind, Got.len, Got.body>> = <<given.kind, given.len, given.body>>
    /\ Got.type = "ptr" <=> given.type = "ptr"

\* The values without a peculiarity: the kind is short and not empty, a length is
\* that of the data, and no child's name is empty or has a separator in it.
Ordinary(v) ==
    /\ Len(v.kind) \in 1 .. Base - 1 /\ ~ Reserved(v)
    /\ v.type \in {"ptr", "rwfunc"} => v.len >= 1
    /\ v.type = "dictindex" => v.names # << >>
    /\ \A i \in DOMAIN v.names :
          v.names[i] # << >> /\ \A j \in DOMAIN v.names[i] : v.names[i][j] # Sep

\* Every ordinary value is taken and read back as it is.
OrdinaryStored == Ordinary(last) => given = last /\ Got = last
=============================================================================
