------------------------------ MODULE MCStored ------------------------------
(***************************************************************************)
(* What is stored, on small instances: how a value is encoded, and what    *)
(* one key says about another.  A directory and its dict directories list  *)
(* their entries, in goheap and in redis, and a link declares what its     *)
(* target is.  A behaviour is about one of these:                          *)
(*                                                                         *)
(*    "dicts"   the dict directories of goheap                             *)
(*    "redis"   those of redis, while connections last                     *)
(*    "breaks"  those of redis, with connections that break                *)
(*    "links"   the links                                                  *)
(*    "codec"   the encoding.                                              *)
(*                                                                         *)
(* In redis the clients leave alone the directories "/a/t/" and "/a/t./",  *)
(* whose Del takes the dict directory along, and lists of their own that   *)
(* leave a member out.  A byte has four values; there are all kinds up to  *)
(* one byte too many, and the values around each edge of the encoding.     *)
(***************************************************************************)
EXTENDS GoheapDict, LinkCheck, SequencesExt

CONSTANTS Base, Width  \* of Encoding

VARIABLES subject,
          stored, given, last,  \* of Codec
          redisHas, redisIndex, redisMembers, redisKids, redisAsIndex

\* One goroutine sets data and links, also two of them at once, another one key
\* at a time.
MCPairs ==
    LET data == {[kind |-> "int", len |-> n, target |-> NoKey] : n \in Lengths}
                    \cup {[kind |-> "str", len |-> 1, target |-> NoKey]}
        to(k) == {[v EXCEPT !.target = k] : v \in data}
    IN  {[key |-> "k", val |-> v] : v \in data}
            \cup {[key |-> "l", val |-> v] : v \in to("k")}
            \cup {[key |-> "j", val |-> v] : v \in {w \in to("l") : w.len = 1}}
MCSetBatches ==
    [c \in Threads |-> {<<x>> : x \in MCPairs} \cup
                       (IF c = "c" THEN {<<x, y>> : x \in MCPairs, y \in MCPairs} ELSE {})]

codecVars == <<stored, given, last>>
redisVars == <<redisHas, redisIndex, redisMembers, redisKids, redisAsIndex>>

Redis == INSTANCE RedisDict WITH
    Used <- {"file", "dict"}, Lists <- {Members},
    has <- redisHas, index <- redisIndex, members <- redisMembers, kids <- redisKids,
    asIndex <- redisAsIndex

Enc == INSTANCE Encoding

Raw(n) == BoundedSeq(1 .. 2, n)
ChildNames == {<<1>>, <<3, 1>>}
OddNames == ChildNames \cup {<< >>, <<Enc!Sep>>, <<1, Enc!Sep, 1>>}
PtrKinds ==
    {Enc!KindIndex, Enc!KindWord} \cup {SubSeq(<<1, 2, 1, 1, 2>>, 1, n) : n \in 0 .. Base + 1}

CodecValues ==
    {Enc!None, Enc!Dict}
        \cup {Enc!NewBytes(data) : data \in Raw(3)}
        \cup {Enc!NewWords(data) : data \in {d \in Raw(4) : Len(d) % 2 = 0}}
        \cup {Enc!NewRwfunc(n, raw) : n \in 0 .. 2, raw \in Raw(1)}
        \cup {Enc!NewPtr(kind, target, n) : kind \in PtrKinds, target \in ChildNames, n \in 0 .. 2}
        \cup {Enc!NewIndex(names) : names \in BoundedSeq(OddNames, 2)}
        \cup {Enc!NewExtIndex(names) : names \in BoundedSeq(OddNames, 2) \ {<< >>}}
        \cup {Enc!NewDictIndex(names) : names \in BoundedSeq(OddNames, 2)}

File == INSTANCE Codec WITH Values <- CodecValues

-----------------------------------------------------------------------------
MCInit ==
    /\ Init /\ LinkInit /\ Redis!Init /\ File!Init
    /\ subject \in {"dicts", "redis", "breaks", "links", "codec"}

MCNext ==
    \/ subject = "dicts" /\ Next /\ UNCHANGED <<redisVars, linkVars, codecVars, subject>>
    \/ subject = "redis" /\ Redis!Next /\ UNCHANGED <<vars, linkVars, codecVars, subject>>
    \/ subject = "breaks" /\ Redis!BreakingNext
          /\ UNCHANGED <<vars, linkVars, codecVars, subject>>
    \/ subject = "links" /\ LinkNext /\ UNCHANGED <<vars, redisVars, codecVars, subject>>
    \/ subject = "codec" /\ File!Next /\ UNCHANGED <<vars, redisVars, linkVars, subject>>

MCSpec == MCInit /\ [][MCNext]_<<vars, redisVars, linkVars, codecVars, subject>>

-----------------------------------------------------------------------------
\* In redis, while connections last, a dict directory lists every member that is
\* there, and "/a/" every dict directory; and whatever connections break, no name
\* and no member is without its directory.
RedisDicts ==
    /\ subject = "redis" => Redis!RedisDicts
    /\ Redis!DictsKept

\* A stored value is read back with the fields it was given.
FieldsKept == File!FieldsKept

\* Set takes every ordinary value, and it is read back as it is.
OrdinaryStored == File!OrdinaryStored
=============================================================================
