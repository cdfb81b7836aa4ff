----------------------------- MODULE RedisHomes -----------------------------
(***************************************************************************)
(* Clients of the backend redis that do not get in each other's way: each  *)
(* calls only below a directory of its own, its home.  What they ask of    *)
(* each other and of what is stored is all that it takes for the indexes   *)
(* to stay exact while no connection fails; two instances of it are        *)
(* checked with MCRedisClients, every one is the subject of the last part  *)
(* of RedisStoreProofs.                                                    *)
(***************************************************************************)
EXTENDS RedisStore

\* Strictly below directory h.
Inner(h, p) == Under(p, h) /\ p # h

\* The scan for p finds it and what is below it, and nothing beside it.
Exact(p) == Matches(p, p) /\ \A q \in Paths : Matches(q, p) => Under(Slash(q), Slash(p))

\* Value v may be stored at p: U has the path, and what an index lists; an
\* overlay reads a directory.
Fit(U, p, v) ==
    /\ v.kind # "absent" => p \in U
    /\ IsDir(p) => /\ v.kind # "data" /\ \A k \in v.kids : Append(p, k) \in U
                   /\ v.kind = "extindex" => v.ext \in Dirs

\* In U a name is that of a file or of a directory, not of both.
OneNameEach(U) ==
    /\ U \subseteq Paths
    /\ \A p \in U : \A n \in 0 .. Len(p) : Ancestor(p, n) \in U
    /\ \A p \in U, q \in U : AsFile(p) = AsFile(q) => p = q

\* What a client whose home is h may store, and delete: files, and what has
\* nothing below it.
MayPut(U, h, p) == Inner(h, p) /\ p \in U /\ ~ IsDir(p)
MayDel(U, h, p) == Inner(h, p) /\ p \in U /\ \A q \in U : ~ Inner(p, q)

\* No two keys of a Del are in the same directory.
Scattered(keys) ==
    \A i, j \in DOMAIN keys : i # j => Parent(keys[i]) # Parent(keys[j])

\* Every client calls only below its home, and no home is in another's.
AtHome(Home, U) ==
    /\ \A c, e \in Clients : c # e => ~ Under(Home[c], Home[e])
    /\ ExtIndexCalls = {} /\ DelExtCalls = {} /\ LinkTargets = {}
    /\ \A c \in ClearCalls : Home[c] = Root
    /\ \A c \in Clients :
          /\ \A d \in MkindexCalls : Inner(Home[c], d) /\ d \in U
          /\ \A p \in DelTreeCalls[c] : Inner(Home[c], p) /\ p \in U /\ Exact(p)
          /\ \A batch \in Batches[c] : \A i \in DOMAIN batch : MayPut(U, Home[c], batch[i].key)
          /\ \A keys \in DelCalls[c] :
                /\ Scattered(keys)
                /\ \A i \in DOMAIN keys : MayDel(U, Home[c], keys[i])

\* The server is coherent when the clients connect, and lists their homes.
StoredTidy(Home, U) ==
    /\ \A p \in Paths : Fit(U, p, Stored[p])
    /\ \A p \in Keys(Stored) : ListedUp(Stored, p)
    /\ \A d \in Dirs : \A k \in DirIndex(Stored, d) : ~ k.dir => Present(Stored, Append(d, k))
    /\ \A c \in Clients : ListedUp(Stored, Home[c])

-----------------------------------------------------------------------------
\* While no call is cut short the indexes list exactly the keys: Set maintains
\* the directory's index, Del and DelTree take the names out of it, though each
\* of them is many requests (redis/kvspace.go: Set, Del, DelTree, Mkindex).
UnbrokenCoherent == Failing = {} => Coherent
=============================================================================
