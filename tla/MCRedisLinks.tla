----------------------------- MODULE MCRedisLinks ---------------------------
(***************************************************************************)
(* An instance of RedisStore with links and one client, of one of these    *)
(* kinds:                                                                  *)
(*                                                                         *)
(*    "sound"    nothing fails                                             *)
(*    "failing"  the client crashes, loses its connection or clears the    *)
(*               server.                                                   *)
(***************************************************************************)
EXTENDS MCRedisStore

VARIABLE clients

-----------------------------------------------------------------------------
(* The client writes in the overlay /b/ of /a/, mounts and unmounts /s/    *)
(* over both, makes the directories /s/ and /a/, writes through the link    *)
(* /b/l to /a/, and makes, uses and deletes the link /l to /b/.             *)

S == <<Sub("s")>>
BL == <<Sub("b"), File("l")>>
InBL == <<Sub("b"), Sub("l"), File("x")>>
InLL == <<Sub("l"), Sub("l"), File("x")>>

LinkPaths ==
    Reached({X(A), X(B), X(S), BL, InBL, L, X(LDir), <<Sub("l"), File("l")>>, InLL}, {A, B})
LinkStored == ServerWith({X(A)}, BL :> A, B :> A)
LinkBatches == One({ <<Put(X(A))>>, <<Put(X(B))>>, <<PutLink(L, B)>>, <<Put(InBL)>> })
LinkDels == One({ <<X(LDir)>>, <<LDir>>, <<InLL>> })
LinkTrees == One({L, LDir, A})
LinkMounts == { <<S, A>>, <<S, B>> }
LinkUnbinds == {S}
LinkMkdirs == {S, A}

-----------------------------------------------------------------------------
\* The calls of "failing".
FewBatches == One({ <<PutLink(L, B)>>, <<Put(InBL)>> })
FewTrees == One({LDir, A})

Faulty == INSTANCE RedisStore WITH
    Failing <- Clients, ClearCalls <- Clients, Batches <- FewBatches,
    DelCalls <- One({}), DelTreeCalls <- FewTrees, MkindexCalls <- {S},
    ExtIndexCalls <- {<<S, A>>}, DelExtCalls <- {}

MCInit == Init /\ clients \in {"sound", "failing"}

MCNext ==
    \/ clients = "sound" /\ Next /\ UNCHANGED clients
    \/ clients = "failing" /\ Faulty!Next /\ UNCHANGED clients

MCSpec == MCInit /\ [][MCNext]_<<vars, clients>>

-----------------------------------------------------------------------------
(* What is read of the server                                              *)

\* While nothing fails, List lists between calls what Get finds.
SoundListMatchesGet == clients = "sound" => ListMatchesGet

Shown == INSTANCE Display WITH Read <- Get, ListAll <- List

\* And "kvspace tree" shows what Get finds without passing a link, and
\* "kvspace dump", which goes through links, ends and visits no path twice: the
\* links here lead to each other and to overlays, but in no circle.
Displayed == clients = "sound" /\ Quiet => Shown!TreeExact(db) /\ Shown!WalkEnds(db, 5)
=============================================================================
