--------------------------- MODULE MCRedisClients --------------------------
(***************************************************************************)
(* An instance of RedisStore without links, and with three kinds of        *)
(* clients, of which a behaviour has one:                                  *)
(*                                                                         *)
(*    "wreck"   c2 fails anywhere, and c1 finds what it has left           *)
(*    "serial"  c1 alone keeps the names of files and directories apart    *)
(*    "apart"   c1 and c2 work in a directory each, which exists.          *)
(***************************************************************************)
EXTENDS MCRedisStore

VARIABLE clients

ClientPaths == Reached({X(A), Y(A), X(AS), AB, X(B), Y(B)}, {})

\* The calls of "wreck".
WreckBatches == Each({ <<Put(X(A))>>, <<Put(X(AS))>> }, { <<Put(X(AS))>> })
WreckDels == Each({ <<X(A)>> }, { <<A>> })
WreckTrees == Each({A, AS}, {A})

\* The calls of "serial".
SerialBatches ==
    Each({ <<Put(X(A))>>, <<Put(X(AS)), Put(AB)>>, <<Put(X(A)), Put(Y(A))>> }, {})
SerialDels == Each({ <<X(A)>>, <<AB>>, <<X(AS), Y(A)>> }, {})
SerialTrees == Each({A, AS, AB, Y(A)}, {})
SerialMkdirs == {AS}

\* The calls of "apart".
ApartStored == ServerWith({Y(A), Y(B)}, << >>, << >>)
ApartBatches == Each({ <<Put(X(A))>>, <<Put(X(AS))>> }, { <<Put(X(B)), Put(Y(B))>> })
ApartDels == Each({ <<Y(A)>> }, { <<X(B)>>, <<Y(B)>> })
ApartTrees == Each({AS}, {Y(B)})

-----------------------------------------------------------------------------
Serial == INSTANCE RedisHomes WITH
    Clients <- {"c1"}, Batches <- SerialBatches, DelCalls <- SerialDels, DelTreeCalls <- SerialTrees,
    MkindexCalls <- SerialMkdirs, ClearCalls <- {"c1"}, Failing <- {}

Apart == INSTANCE RedisHomes WITH
    Batches <- ApartBatches, DelCalls <- ApartDels, DelTreeCalls <- ApartTrees,
    Stored <- ApartStored, ClearCalls <- {}, Failing <- {}

\* The constants of RedisStore are those of "wreck".
Wreck == INSTANCE RedisStore

\* The clients of "serial" and "apart" keep to a home each, and the paths that
\* they use, as the theorem on homes of RedisStoreProofs asks of them.
SerialHome == [c \in {"c1"} |-> Root]
SerialUsed == Along({X(A), X(AS), AB, Y(A)})
ApartHome == "c1" :> A @@ "c2" :> B
ApartUsed == Along({Y(A), Y(B), X(A), X(AS), X(B)})

ASSUME AtHomeSerial ==
    /\ Serial!OneNameEach(SerialUsed)
    /\ Serial!AtHome(SerialHome, SerialUsed)
    /\ Serial!StoredTidy(SerialHome, SerialUsed)

ASSUME AtHomeApart ==
    /\ Apart!OneNameEach(ApartUsed)
    /\ Apart!AtHome(ApartHome, ApartUsed)
    /\ Apart!StoredTidy(ApartHome, ApartUsed)

-----------------------------------------------------------------------------
MCInit ==
    \/ clients \in {"wreck", "serial"} /\ Init
    \/ clients = "apart" /\ Apart!Init

MCNext ==
    \/ clients = "serial" /\ Serial!Next /\ UNCHANGED clients
    \/ clients = "apart" /\ Apart!Next /\ UNCHANGED clients
    \/ clients = "wreck" /\ Wreck!Next /\ UNCHANGED clients

MCSpec == MCInit /\ [][MCNext]_<<vars, clients>>

\* While no call is cut short, and clients do not write in the same directory,
\* the indexes list exactly the keys: what Set, Del and DelTree of
\* redis/kvspace.go maintain.
UnbrokenCoherent ==
    /\ clients = "serial" => Serial!UnbrokenCoherent
    /\ clients = "apart" => Apart!UnbrokenCoherent
=============================================================================
