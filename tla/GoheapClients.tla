--------------------------- MODULE GoheapClients ---------------------------
(***************************************************************************)
(* The store of GoheapStore under the clients it may have.                 *)
(*                                                                         *)
(* What the store can promise depends on what its clients do.  There are   *)
(* three kinds of them, and a behaviour has clients of one kind:           *)
(*                                                                         *)
(*    "files"    write files and links, delete files and whole             *)
(*               directories, and leave the indexes to the store           *)
(*    "dirs"     write empty indexes too and delete the keys of            *)
(*               directories, which leaves their children behind           *)
(*    "indexes"  write any index, of names that are not there too.         *)
(***************************************************************************)
EXTENDS GoheapStore

CONSTANTS BatchesOf,  \* the argument lists of Set of each kind of clients
          DelsOf,     \* those of Del
          TreesOf,    \* the arguments of DelTree
          MountsOf    \* the arguments of ExtIndex

VARIABLE clients

ClientKinds == {"files", "dirs", "indexes"}

\* The clients that leave all indexes to the store: they set none, and delete
\* no key of a directory without what is below it.
LeaveIndexes(batches, dels) ==
    /\ \A batch \in batches : \A i \in 1 .. Len(batch) :
          IsDir(batch[i].key) => ~ ValidPair(batch[i])
    /\ \A keys \in dels : \A i \in 1 .. Len(keys) : ~ IsDir(keys[i])

\* The clients that write no names into an index.
WriteNoNames(batches) ==
    \A batch \in batches : \A i \in 1 .. Len(batch) :
        IsDir(batch[i].key) /\ ValidPair(batch[i]) => batch[i].val.kids = {}

ClientsAssumption ==
    /\ BatchesOf \in [ClientKinds -> SUBSET Batches]
    /\ DelsOf \in [ClientKinds -> SUBSET DelCalls]
    /\ TreesOf \in [ClientKinds -> SUBSET DelTreeCalls]
    /\ MountsOf \in [ClientKinds -> SUBSET ExtIndexCalls]
    /\ LeaveIndexes(BatchesOf["files"], DelsOf["files"])
    /\ WriteNoNames(BatchesOf["dirs"])

ASSUME ClientsAssumption

ClientsInit == Init /\ clients \in ClientKinds

ClientsNext ==
    /\ NextOf(BatchesOf[clients], DelsOf[clients], TreesOf[clients], MountsOf[clients])
    /\ UNCHANGED clients

ClientsSpec == ClientsInit /\ [][ClientsNext]_<<vars, clients>>

-----------------------------------------------------------------------------
(* Properties of the store that hold for some of the clients *)

\* While indexes are left to the store they name the keys there are.
FilesCoherent == clients = "files" => Coherent

\* And the layers of every overlay stay apart, whichever calls were refused.
FilesDisjoint == clients = "files" => LayersDisjoint

\* While indexes are left to the store, List and Get agree through overlays.
FilesListed == clients = "files" => ListMatchesGet

\* What bare deletes leave behind is orphans, never names without a key.
NamesKept == clients # "indexes" => NoDanglingNames

\* While the layers stay apart, deleting a key never uncovers another one in its
\* place: no key that Get found and whose local value is deleted is found again
\* in the same step.
NothingUncovered == [][clients = "files" => ~ Uncovering]_<<vars, clients>>
=============================================================================
