--------------------------- MODULE MCGoheapStore ---------------------------
(***************************************************************************)
(* An instance of GoheapClients: an overlay /m/ over the base /b/, a       *)
(* subdirectory /m/d/ or /b/d/ that may exist in either layer or be itself *)
(* an overlay of /o/, a directory /m/d/e/ below both, and a file x in each *)
(* of the others.                                                          *)
(***************************************************************************)
EXTENDS GoheapClients

File(name) == [name |-> name, dir |-> FALSE]
Sub(name) == [name |-> name, dir |-> TRUE]

MCNames == {"m", "b", "d", "e", "o", "x"}

M == <<Sub("m")>>
B == <<Sub("b")>>
O == <<Sub("o")>>
MD == <<Sub("m"), Sub("d")>>
BD == <<Sub("b"), Sub("d")>>
MDE == <<Sub("m"), Sub("d"), Sub("e")>>
BDFile == <<Sub("b"), File("d")>>

In(dir) == Append(dir, File("x"))

MCPaths == {Root, M, B, O, MD, BD, MDE, BDFile, In(M), In(B), In(O), In(MD), In(BD)}

Put(p) == [key |-> p, val |-> Plain("data")]
PutLink(p, target) == [key |-> p, val |-> Link(target)]
PutIndex(p, kids) == [key |-> p, val |-> IndexOf(kids)]

\* The calls of "files".
FileBatches ==
    { <<Put(In(B))>>, <<Put(In(O))>>, <<Put(In(MD))>>,
      <<PutLink(BDFile, O)>>,
      <<Put(In(M)), Put(In(B))>>,             \* refused at the second pair
      <<Put(In(BD)), PutIndex(In(O), {}), Put(In(M))>> }  \* invalid from the second on

FileDels == { <<In(M)>>, <<In(BD)>>, <<BDFile, In(B)>> }
Trees == {M, MD, B, BD, BDFile}
Mkdirs == {MD, BD, O}
Mounts == { <<M, B>>, <<MD, O>>, <<Root, B>>, <<O, M>> }
Unbinds == {M, MD}

\* The calls of "dirs".
RawBatches ==
    { <<Put(In(B))>>, <<Put(In(MD))>>, <<Put(In(BD))>>,
      <<PutIndex(M, {})>>, <<PutIndex(MD, {}), Put(In(M))>> }
RawDels == { <<B>>, <<MD>>, <<BD, In(B)>>, <<Root>> }
RawTrees == {M, BD}
RawMounts == { <<M, B>>, <<MD, O>>, <<MD, B>>, <<O, M>> }

\* The calls of "indexes".
IndexBatches ==
    { <<Put(In(MD))>>, <<Put(In(B))>>,
      <<PutIndex(M, {Sub("d")})>>, <<PutIndex(B, {Sub("d")}), PutIndex(BD, {File("x")})>>,
      <<PutIndex(O, {}), Put(In(BD))>> }
IndexDels == { <<B>>, <<BD>>, <<M, In(MD)>> }
IndexMounts == { <<M, B>>, <<MD, O>>, <<MDE, O>>, <<M, O>> }

-----------------------------------------------------------------------------
MCBatchesOf == [files |-> FileBatches, dirs |-> RawBatches, indexes |-> IndexBatches]
MCDelsOf == [files |-> FileDels, dirs |-> RawDels, indexes |-> IndexDels]
MCTreesOf == [files |-> Trees, dirs |-> RawTrees, indexes |-> RawTrees]
MCMountsOf == [files |-> Mounts, dirs |-> RawMounts, indexes |-> IndexMounts]

MCBatches == UNION {FileBatches, RawBatches, IndexBatches}
MCDelCalls == UNION {FileDels, RawDels, IndexDels}
MCDelTreeCalls == UNION {Trees, RawTrees}
MCExtIndexCalls == UNION {Mounts, RawMounts, IndexMounts}

Shown == INSTANCE Display WITH ListAll <- List, ListOwn <- DirIndex, Read <- Get

-----------------------------------------------------------------------------
(* What the store does not keep for its clients *)

\* The layers of an overlay, for clients that delete the bare keys of directories.
DirsDisjoint == clients = "dirs" => LayersDisjoint

-----------------------------------------------------------------------------
(* What the display shows of the store *)

\* Between calls "kvspace tree" shows what Get finds, below overlays too, where
\* FprintTree comes upon directories that only the target has; and --showext=false
\* shows of an overlay what is its own: the number of names it cuts off is right
\* because the two layers never share one.
Displayed ==
    Returned /\ clients = "files" => Shown!TreeExact(tree) /\ Shown!OverlayOwn(tree)
=============================================================================
