# A TLA+ model of kvspace-go

kvspace-go gives several storage backends one tree-shaped key/value interface
(`src/kvspace.go`): files and directories under slash-separated paths, directories whose index
is itself a value, links, and *ExtIndex* directories that overlay a read-only one.  These
modules model the in-process backend `goheap` (its store, dict directories, connections and
locks, notify queues and radix tree), the backend `redis` as several clients of one server,
and what all backends share: `WatchValue`, the check of links, the encoding of values and what
the display shows.  TLC checks them on small instances; TLAPS proves, for every instance, the
invariants of most of the modules, and that a node of the tree implements a map.

## 1. The system

| Component | State | Operations | Interacts with |
|---|---|---|---|
| goheap store (`goheap/backend.go`) | `store.tree`, `store.exts`, an `indexCache` per call | Get, List, Set, Mkindex, ExtIndex, DelExtIndex, Del, DelTree, Clear | keeps its keys in the radix tree; called through a connection |
| goheap connections (same file) | `namedStores`, `store.refs`, `store.mu`, `backend.done`, `closeOnce`, `lifeMu` | Conn, Destroy, DisConn, and begin/end around every call | all connections of an address share one store |
| radix tree (`goheap/tree.go`) | nodes of four layouts | Get, Insert, Delete, RangePrefix | the store's only storage |
| dict directories (`backend.go`, `redis/`, `xvalue_dict.go`) | indexes of kind `dict`, names that end in `.` | the calls of a store, on members of a file | goheap's index cache does not know the kind |
| notify queues (`backend.go`) | one queue per key, with a count of users | acquire, push, pop, release, Clear | only Clear is reached from the package |
| path and link helpers (`kvspace_common.go`) | none | JoinPath, SepPath, SplitIndex, ValidatePtr, MkIndexRecursive, Walk | call a KVSpace they are given |
| WatchValue (`kvspace_common.go`) | a pause that doubles | poll until a value is seen | races with the clients that set the value |
| redis backend (`redis/`) | none of its own: a server's keys | the whole interface, by reads and pipelined writes | races with the other clients of the server |
| values (`xvalue*.go`) | none | encoding of kind, dimensions, lengths, index bodies | every backend stores encoded values |
| display (`kvspace_common.go`, `cmd/`) | none | tree, list, dump, array2d | several calls of Get and List each |
| scheme registry (`conn.go`) | a map filled by `init` | RegConn, NewConn | none |
| shm backend (`shm/shm.go`) | in a C library outside the repository | the whole interface | none |

What is hard, and what has to hold in spite of it:

* **One fact in several copies.**  The binding of an overlay is in the ExtIndex value and in
  `exts`; the existence of a key is in the tree and in its parent's index; the index is in the
  tree and, during a call, in a cache whose write-back is deferred.  Every call may fail
  half way.  *They agree whenever no call runs; a refused call leaves no half-done binding.*
* **Two layers of an overlay.**  A write can reach them from above, from below, through a
  directory made on the way, or by replacing an index.  *The layers never hold the same key, no
  overlay reads an overlay, nothing comes to light by a delete, List and Get agree.*
* **Several clients of a server.**  In redis a call is many requests: indexes are read, and
  written back in a pipeline that is no transaction; clients crash and connections break in the
  middle of it.  *Alone, or apart from each other, clients keep the indexes exact; a call that
  returns undisturbed does what it says, whatever wreckage it finds.*
* **Names that differ in one character.**  `/a/t`, `/a/t/`, `/a/t.` and `/a/t./` are four keys,
  and both backends cut characters off and put them on.  *No member is out of reach.*
* **Names that are patterns.**  Redis finds what a DelTree deletes by SCAN with the path and a
  star, unescaped, and `b[0]` is a name.  *A path that matches itself is cleared.*
* **Lifetimes.**  Connections are opened, used, closed (more than once) and their store
  destroyed by different goroutines; notify queues come and go with their users.  *The count of
  users is exact, a closed connection does no more work, every call returns, no wake-up and no
  value is lost.*
* **Checks before the lock, and polls.**  ValidatePtr reads what may change before the write;
  WatchValue sees the key at the instants of its reads.  *A link declares what its target is if
  nobody has set that since the check; a value that stays is seen in time.*
* **Boundaries.**  Layouts grow and shrink, prefixes split and merge; kinds and lengths are
  written in a fixed number of bytes.  *The tree is a map whose ranges are exact; what Set takes
  is read back.*

## 2. The modules

| Module | Models | Uses |
|---|---|---|
| `KVPaths`, `KVValues` | the path algebra; values as kind, children, target | |
| `GoheapReads`, `GoheapStore` | the answers of Get and List; the store and its calls | `KVValues` |
| `GoheapClients` | the store under three kinds of clients | `GoheapStore` |
| `RWMutex` | Go's `sync.RWMutex` (external) | |
| `GoheapConn` | connections, `namedStores`, the locks | `RWMutex` |
| `ArtNode`, `ArtChildren` | a node's four layouts; the life of one node | |
| `RadixTree` | the tree | `ArtNode` |
| `ByteMap`, `KeyMap` | what a node and the tree are: maps | |
| `RedisReads`, `RedisStore` | what redis reads; its clients, request by request | `KVValues` |
| `RedisHomes` | what clients that keep apart ask of each other (hypotheses of a theorem) | `RedisStore` |
| `DictKeys` | the four spellings of a name, and the calls both backends share | |
| `GoheapDict`, `RedisDict` | dict directories in each backend | `DictKeys` |
| `LinkCheck` | ValidatePtr before the lock | |
| `NotifyQueue` | the queue of one key | |
| `WatchValue` | the poller and its producers | |
| `Encoding`, `Codec` | values as bytes; a key that is set to them | |
| `Display` | FprintTree, StripExtChildren and Walk over any Get and List | `KVValues` |
| `KVPathsProofs`, `GoheapStoreProofs`, `GoheapConnProofs`, `ArtChildrenProofs`, `RedisStoreProofs`, `RedisDictProofs` | proofs about the module (`GoheapStoreProofs` about its clients, too) | the module (`RedisStoreProofs` about `RedisHomes`, too) |
| `StoredProofs`, `WaitingProofs` | proofs about `GoheapDict` and `LinkCheck`; about `NotifyQueue` and `WatchValue` | both |
| `MC...` | instances for TLC | |

An instance of two or more modules that do not share state (`MCTree`, `MCStored`, `MCWaiting`) lets
a behaviour choose one of them at the start, and leaves the variables of the others alone.

### KVPaths, KVValues, GoheapReads, GoheapStore

A path is the sequence of the children that lead to it, each a name and whether it is a
directory, which is how the code spells it in strings: `/a/b` and `/a/b/` are the keys of a
file and of a directory that may both exist.  `HasPrefix` becomes `IsPrefix`, appending a child
is `Append`.  `Paths` is finite and holds every ancestor of its members.

`tree` gives every path a value; a value is its kind, the children an index names and the
target of an overlay or a link.  `exts` is `store.exts`, `indexes` the dirty entries of the
cache.  `op` is the frame of the call that holds `store.mu`: every call that loops is a
begin action and one action per iteration, so that the properties are asked between any two of
them where they must hold there (`ExtsMirror`, `NoCascade`, `EnsureSucceeds`) and where the
code promises them only on return, they say so (`Returned =>`).  A refusal is part of the
model: `SetConflict`, `SetRefused` and the second disjunct of `MkindexReturn` write the cache
back, as the code's deferred flush does; a batch with an invalid pair is applied up to it
(`PreparedPairs`); a Del that would break an overlay puts the key back and keeps the changes
made before.  A call that is refused before it changes anything is not a step.

`Next` is `NextOf` with all the calls there are; `GoheapClients` gives each kind of clients its
own calls (`BatchesOf`, `DelsOf`, ...), and `ClientsAssumption` says what makes a kind: `files`
set no index and delete no bare key of a directory (`LeaveIndexes`), `dirs` write no names into
an index (`WriteNoNames`), `indexes` do anything.

The order of children in an index is left out: an index is a set.  The contents of plain values
are left out: they are one kind, `data`.  A Set of a link validates it (`ValidLink`) in the
step that takes the lock, whereas the code reads the target before; the window between is the
subject of `LinkCheck`, and `GoheapConn` models its locks.

### GoheapConn and RWMutex

`thread` is the frame of every goroutine.  A call is Call (which asks for `lifeMu`), Begin or
Refused, LockRead or LockWrite (which asks for `store.mu`), Enter, Leave and End; a Set of a
link passes through `Validate` and a nested Get first.  DisConn is the step under `closeOnce`,
then DisConnLock, DisConnRelease, and DisConnJoin for a goroutine that called it second.  Conn
and Destroy are one step each: all they touch is guarded by `namedStoresMu`, which DisConn
takes for one step too.  A lock that is asked for and not granted is a state
of its own, because the Go lock keeps out readers that come after a writer has announced
itself; that is what the deadlock of section 5 needs.

### ArtNode, ArtChildren, RadixTree

The layouts keep their own form: sorted arrays for `node4` and `node16`, an array of slots and a
table of places for `node48`, an array of children for `node256`. Their sizes are constants, so
that a small instance passes through all of them. A full node grows when it takes one more child,
and a node shrinks as soon as what is left fits the smaller layout (`FitsSmaller`). `ArtChildren`
drives one node and shows that it implements `ByteMap`. Its `WellFormed` is that the node is in the
smallest layout for its children and visits them in order; that of `RadixTree`, `TreeWellFormed` in
the run, that chains are merged and ranges are exact. `RadixTree` writes insert, delete, compaction
and the range walk as the recursion of the code, over the same layouts, and implements `KeyMap`.
`RangePrefix` yields the whole sequence a callback would see; one that stops early sees a prefix of
it.

### RedisReads, RedisStore

`db` is the server. `stack[c]` holds the frames of client `c`'s call: Set makes missing
directories by calls of itself (`MkIndexRecursive`), which is a frame on top. A step is one
request whose answer is kept, or one command of a pipeline, so that clients interleave exactly
where the server lets them. Reads that only decide something within one request's worth of the
same directory (`NoIndex`, `DirIndex`) are part of the step that uses them. `resolvePath` is a
step per link (`FollowLink`). A panic of the code (an index of the wrong type, a directory
without one) is `Abort`: the call ends and its pipeline is never sent. `ExecFails` is a
connection that breaks, after which the call returns an error, except that `MkIndexRecursive`
drops it and its caller goes on; `Crash` is the client's end at any point. `undisturbed` is a
ghost: the clients in whose running or last call nobody else has written. SCAN is modelled as
complete for the keys that are there when it begins. Which these are is a matter of the glob
that `collectKeys` makes of the prefix (`Matches`): `Globs` and `Begins` say for every pair of
names whether the first, read as a pattern, matches the second, alone or with a star behind it.
The name `b[0]` matches `b0` and not itself. A name never has a star, a question mark, or a
bracket that a slash would match; such a pattern would reach across directories. The overlay
check of Set and Del goes on when its GET fails (`ExtPassed`), and Del reads the index that it
writes back in a request after that check (`DelCheck`, `DelQueue`).

A value of `Paths` is what a call may be led to as well as what it is called with, so
`ClosedAssumption` has `Paths` hold what the links of the instance (`LinkTargets`) make of its
members and every directory's spelling as a file; `Reached` in `MCRedisStore` computes such a
set. No link leads to the root. `RedisAssumption` asks that what the server holds at first are
values of the program (a key that is not there has no index) and that a Set stores something.

### DictKeys, GoheapDict, RedisDict

One directory `/a/` and names `t` whose four keys it may hold. `has` and `index` are the keys
that are there and the names that `/a/` lists; `kids[t]` is what the dict directory lists, and
`asIndex` tells whether its value is of kind `index` (a client's own Set) or `dict`. The goheap
calls are one step each, under `store.mu`; the redis calls are one step for clients that do not
overlap, with `SetCut` for a pipeline that breaks off. Overlays and links do not occur.

### LinkCheck

Set checks the pairs of its batch one by one, each link against the store of that moment
(`SetCheck`), and writes all that passed later under the lock (`SetWrite`), with the steps of
other goroutines in between. Two ghosts tell what has happened to a link's target since its
check: `moved` of a pair that is not written yet, `settled` of the links that are. The target of
a link may be set by the same batch, too, which is checked before any of it is written.

### NotifyQueue, WatchValue

`NotifyQueue` is the queue of one key: each step is what is done under one lock, and `pop`
holds the channel it read while it waits (`wait`), until a push or a Clear closes it (`woken`)
or its timer fires (`GiveUp`). `WatchValue` counts the reads of its loop and the microseconds of
its pauses; `age` is a ghost, for how long the key has held the value.

### Encoding, Codec

`Encode` and `Decode` are the head with its one-byte length of the kind, dimensions and lengths
of `Width` bytes, and the bodies of the index types, on sequences of bytes below `Base`. Types
whose encodings do not differ in kind are represented by one. `Codec` is a key of goheap: Set
takes what comes back from its own decoding with the same kind, length and bytes
(`encodeStoredValue`).

### Display

`FprintTree`, `StripExtChildren` and `Walk` are operators over a Get and a List that the
instances give them: `MCGoheapStore` those of `GoheapReads`, `MCRedisLinks` those of
`RedisReads`. They are asked of every state between calls.

## 3. What the runs check

| Run | Instance | Properties |
|---|---|---|
| `goheap_store` | one store under three kinds of clients | `TypeOK`, `ExtsMirror`, `NoCascade`, `EnsureSucceeds`, `FilesCoherent`, `FilesDisjoint`, `FilesListed`, `NamesKept`, `Displayed`, `NothingUncovered` |
| `goheap_collision` | as the first | `DirsDisjoint`, violated |
| `goheap_tree` | seven keys that share prefixes; one node of six bytes | `WellFormed`, `TreeWellFormed`, `ImplementsByteMap`, `ImplementsKeyMap` |
| `conn_safety` | three goroutines, three connections, two stores of an address | `TypeOK`, `RefsMatch`, `OpenIsNamed`, `NoLateCalls` |
| `conn_live` | three goroutines, two connections, no Set of a link | `CallsReturn`, no deadlock |
| `conn_links` | two goroutines that read or set links | `CallsReturn`, violated |
| `redis_clients` | two clients without links, of three kinds | `UnbrokenCoherent`, `SetRepairs`, `DelForgets`, `DelTreeClears` |
| `redis_links` | one client with links and overlays, of two kinds | `TypeOK`, `SoundListMatchesGet`, `Displayed` |
| `redis_lost_name` | two clients that write in one directory | `Coherent`, violated |
| `redis_glob` | one client with a directory `/b[0]/` | `DelTreeClears`, violated |
| `stored` | dict directories of both backends; links; encodings | `Coherent`, `MembersReachable`, `LinksMatch`, `RedisDicts`, `FieldsKept`, `OrdinaryStored` |
| `waiting` | a poller; a notify queue with three goroutines | `SeenInTime`, `WatcherReturns`, `SameQueue`, `NoLostWakeup`, `QueueKept`, `Delivered` |

The kinds of clients differ in what they do, because what the code guarantees does. Of **goheap**
(`GoheapClients`): the code keeps indexes and keys together, and the layers of overlays apart,
only for clients that leave indexes to it (`files`); for them List and Get agree and no delete
uncovers anything (`NothingUncovered`). Emptying an index or deleting the bare key of a directory
(`dirs`) leaves orphans, by design; then all of that is off (`goheap_collision` of section 5
shows how far), but no index may name what is gone (`NamesKept`). Writing any index (`indexes`)
gives up that too, and for everybody the bindings must hold still (`ExtsMirror`, `NoCascade`) and
no ExtIndex be refused half way (`EnsureSucceeds`). Of **redis** (`MCRedisClients`): indexes are
exact for one client that does not give a file and a directory the same name (`serial`), and for
two that write in different directories (`apart`). With a second client that fails at any point
(`wreck`) nothing is exact, but the calls of the first that nobody interferes with are as good as
their word. Of redis **with links** (`MCRedisLinks`): List and Get agree while nothing fails
(`sound`), where no directory lies below a link's target (section 5); with a client that crashes,
loses its connection or clears the server (`failing`), a link may meet a directory of its name,
and what is stored still has its type.

**Bounds and why they are enough.**  Every run exhausts its state space.  *The goheap store*:
thirteen paths (`MCPaths`) with an overlay `/m/` of `/b/`, a directory `d` that may be in either
layer or be an overlay of `/o/` itself, one more level `/m/d/e/` for a directory made two levels
below a boundary, and a file in each; every check of the code compares an overlay with one other
path, overlay or target, so that two overlays and a third directory show every pair.  The calls
are small sets (`Batches`, `DelCalls`, ...), with batches that are refused at the second pair, at
validation, and between cache and tree.  *redis*: two clients, for a lost update needs no more;
a directory with two files, one directory below it, a sibling directory, and `/ab` beside `/a/`
for the scan by prefix; a chain of two links (`MaxHops`) and an overlay at its end.  *The
connections*: `MaxStores` bounds how often a store is made for an address, two being a store and
its successor after Destroy; two goroutines can block each other and a third is the one kept
waiting.  *The nodes*: `MaxByte`, `Cap4`, `Cap16` and `Cap48` are scaled down so that each layout
is filled, left in both directions and entered again.  *The tree*: `Keys` holds keys that end
inside, at the end of and beyond each other's prefixes and a node with five children.  *Dict
directories*: two names and two members (`MaxBatch`), so that a call can touch one of two.
*Links*: two goroutines and batches of two pairs, so that a target can be set between the check
and the write by another and by the batch itself; two kinds and two lengths, so that it can
be set to what the link does not declare; three keys make a link to a link.  *Encoding*: four
values of a byte (`Base`) and two bytes of a length, with kinds up to one byte too long.  *The queue*: `MaxValues` of two, three goroutines for one
that waits, one that pushes and one that comes or goes, and two objects, the queue and its
successor.  *The poller*: the code's hundred reads and a tick that is no power of two.

**Deadlock** is checked in all but two runs.  `conn_safety` and `conn_links` contain Sets of
links, which do deadlock (section 5), and in `conn_safety` the stores can also be used up.

**Fairness.**  `conn_live` and `conn_links`: weak fairness of `Continue(t)` for each goroutine,
because Go's scheduler runs what can run, and strong fairness of `LockWrite(t)`, because writers
queue on a `sync.Mutex`, which hands itself over to a waiter after a millisecond of starvation.
DisConn's own lock needs no more than weak fairness: its connection has one DisConn at most.
`waiting`: weak fairness of the watcher's goroutine and of time (`Watch`, `Pass`), and of
`Looks(t)`, a goroutine in `pop` that can take its lock.  No fairness is asked of clients: they
need not call, push, connect or close anything.

## 4. What is proved

`GoheapStoreProofs` proves, for all names, paths and calls that meet `PathsAssumption` and
`CallsAssumption`,

* `TypeCorrect`: `Spec => []TypeOK`, where `TypeOK` includes that the keys of directories hold
  indexes and those of files never do;
* `ExtsMirrored`: `Spec => []ExtsMirror`, in every state, not only between calls;
* `Cascadeless`: `Spec => []NoCascade`: no sequence of calls makes an overlay read an overlay,
  or takes an overlay's target away.

Neither of the last two is inductive.  A running call holds indexes in its cache that it will
write over the tree's, and pairs it validated before; so the invariant is

    IInv == TypeOK /\ ExtsMirror /\ Uncascaded(tree, exts) /\ CacheInv /\ FrameInv

`CacheInv` says that a dirty index belongs to a directory key and agrees with the tree's value
in kind and target, hence that the flush moves no overlay; `FrameInv` that the pairs still to
apply are valid.  `Uncascaded` is what the code's own check asks, over `exts`; `NoCascade`
follows from it by `ExtsMirror` and a lemma about ancestors.  One lemma per action shows that
it preserves `IInv`; lemmas about `AddChild`, `Flush`, `RemoveNames` and `Without` say what
each keeps, `UncascadedKept` and `UncascadedSame` when a changed tree still is uncascaded.

* `NeverHalfBound`: `Spec => []EnsureSucceeds`.  The code can restore the tree when the directories
  above a new overlay are refused in the middle; it never has to.  The invariant `Making` says of
  all the directories still to come that none would be refused now.  A step makes one of them and
  caches an index: that refuses none of the others, because nothing above an overlay lies in a
  target (the overlay would, too, against `Uncascaded`), and because what is new in the cache is
  the name of a directory that is there, which no target holds.

About the clients of one kind it proves, for all calls that meet `ClientsAssumption` (which only
says what the kinds are),

* `LayersKeptApart`: `ClientsSpec => []FilesDisjoint`;
* `NeverUncovered`: `ClientsSpec => NothingUncovered`, an action property;
* `NamesNeverDangle`: `ClientsSpec => []NamesKept`;
* `IndexesExact`: `ClientsSpec => []FilesCoherent`;
* `ListsMatchGets`: `ClientsSpec => []FilesListed`.

A check of the code asks one key of one overlay, the nearest; that this keeps whole layers apart
needs `Layered`.  It has the layers apart in the middle of calls as well (`Apart`); the directories
above every key present, except above an overlay that ExtIndex is entering (`Rooted`), so that a
key deep in a target shows itself by the directory that the check does find; and what a call
knows from its steps before (`Working`): what Set has asked of a file is still so when, directories
later, it writes it.  `Rooted` is what the bare delete of a directory breaks, and the
counterexample of `goheap_collision` begins with one.  `NeverUncovered` follows: where an overlay
held the key, its target does not.  `Naming` (what is named, in the tree or in the cache, is there)
holds without any of this, for every client that writes no names.  `Listing` is the other half of
`FilesCoherent`: the index seen through the cache names every key but the overlay being entered;
its step for deletes needs `Rooted` again, for a name is only taken out of a directory that
stays.  `ListsMatchGets` then is a matter of paths: the target of a directory is a directory
(`MovedDir`), and where List looks for a name, Get looks for its key.

`PathsAssumption` and `CallsAssumption` are what the code validates on entry (a call with
another path is refused); `Paths` need not be finite.

`GoheapConnProofs` proves, for any number of goroutines, connections and stores (with
`IsFiniteSet(Backends)`, which the count needs),

* `RefsExact`: `Spec => []RefsMatch`, the reference count is exact;
* `NeverForgotten`: `Spec => []OpenIsNamed`, Destroy never forgets a store in use;
* `CallsEnded`: `Spec => []NoLateCalls`, a DisConn that has returned leaves no call behind;
* `TypeCorrect`: `Spec => []TypeOK`, by which no lock is unlocked more often than it is locked.

The argument for `CallsEnded`: every call past begin holds a read lock on its connection's
`lifeMu` (`LifeInv` equates the lock's readers with the frames, the nested Get and the readers
an Unlock lets in included); DisConnRelease needs the lock without readers; and who asks begin
afterwards finds `done` closed (`OnceInv`).  For `NeverForgotten`: the count is exact, so Destroy
finds a store nobody uses, and a name always leads to a store of its own address (`NameInv`).
`RefsExact` in turn needs that a connection is closed once (`OnceInv`).  The locks on the store
enter with `MuInv`, for the types only.

`ArtChildrenProofs` proves, for any number of bytes, any capacities of the layouts and any
children that meet `CapAssumption` and `ChildrenAssumption` (`Nil` is no child),

* `NodeIsMap`: `Spec => ImplementsByteMap`, the refinement: Add, Replace and Cut of the node are
  Add, Replace and Remove of `ByteMap`, under the mapping that takes each byte to its `ChildAt`;
* `NodeWellFormed`: `Spec => []WellFormed`.

The invariant is `Kept`: the node's fields fit its layout, sorted without repetition in the two
small ones, each taken slot of `node48` named by one byte, the free ones `Nil`, the count that of
the bytes taken (`Whole`), and the layout the one for so many.  One lemma per layout and operation
(add to room, replace, cut, grow, shrink) says that it keeps `Whole` and which child each byte then
has.  The real sizes 4, 16, 48 and 256 are one instance of this, which no run can exhaust.

`StoredProofs` proves of `GoheapDict`, for any names, members, sorts and lists that meet
`DictKeysAssumption`: `DictTypeCorrect` (`TypeOK`), `DictCoherent` (`Coherent`) and
`DictMembersReachable` (`MembersReachable`).  The three are inductive together; most calls are
instances of a Delete or of a Set of one entry, about which there is one lemma each.

`RedisDictProofs` proves of `RedisDict`, for any names and members,

* `BrokenDictsKept`: `BreakingSpec => [](TypeOK /\ DictsKept)`, if no client names an ordinary
  directory `/a/t./` (`NoDictDirs`), whose Del takes the dict directory from under its members;
* `RedisDictsListed`: `Spec => []RedisDicts`, if the clients name no `/a/t/`
  either, and the lists they give a dict directory leave no member out (`DictClients`).

`TypeOK /\ DictsKept` is inductive, broken pipelines included, because Set writes the directory
before its members; what is listed is kept on top of it by every step but a broken one.

`StoredProofs` also proves of `LinkCheck`, for any goroutines, keys, kinds and lengths and any
batches, `LinksMatched`: `LinkSpec => []LinksMatch`.  The invariant adds that a prepared link
whose target has not moved is still valid (`Checked`), through writes of other goroutines and
the checks of the later pairs of its batch; that the write keeps it for the last pair of each key
is the heart of the proof.

`WaitingProofs` proves of `NotifyQueue`, for any number of goroutines, queues and values,
`NotifySameQueue`, `NotifyNoLostWakeup` and `NotifyKept` (`QueueKept`), with `NotifyTypeCorrect`
for the types.  The invariant joins them with `Counted`: that a held queue stays in the map rests
on the count of its users, and the count on a held queue being the one in the map.

Of `WatchValue` it proves, for every tick and every number of reads, `WatchTypeCorrect` (no pause is
longer than the tick or the first pause) and `AlwaysSeenInTime` (`SeenInTime`).  The invariant
relates the age of the value to the part of the pause that is over: a pause begins with a read
that did not find the value, so what has come since is no older than the pause.

`RedisStoreProofs` proves of `RedisStore`, for any number of clients, any calls, links and
server contents that meet `RedisAssumption` and `ClosedAssumption`, and crashes, lost
connections and panics at any step,

* `TypeCorrect`: `Spec => []TypeOK`;
* `TreeCleared`: `Spec => []DelTreeClears`, under `PatternsFind`;
* `DelForgot`: `Spec => []DelForgets`, under `DelsApart`;
* `SetRepaired`: `Spec => []SetRepairs`, under `OneOrFiles`;
* `HomesCoherent`: `Spec => []UnbrokenCoherent`, under `OneNameEach`, `AtHome` and `StoredTidy`
  of `RedisHomes`: while no client fails, the indexes name exactly the keys when no call runs;
* `HomesListed`: `Spec => []ListMatchesGet`, under the same and `Failing = {}`.

The hypotheses are about the calls, and the code needs them; the three kinds of clients of
`redis_clients` meet those of the first four. `PatternsFind`: every path that DelTree is called
with, or that a link can lead it to, matches itself as a pattern (`redis_glob` shows that a
directory `/b[0]/` does not, and keeps its keys). `DelsApart`: of the keys of one Del the earlier is
neither the directory of the later nor in it (a Del writes back a copy of an index that it read
before its pipeline; of two siblings the first name stays, section 5). `OneOrFiles`: a Set is of
one pair, or of files while there are no links (a pair that is a directory, or becomes one
through a link, would replace the index that lists another).

Nothing of this is inductive by itself, as a call of redis holds what it is going to write in
its frame.  `TypeInv` adds to the types what a frame may hold where it stands: that a resolved
path is not the root, that `at` is within the directory it counts along, that a nested frame is
a Set's and waits in `MkIndexRecursive` (`Shape`).  The other three
invariants speak of the running call of one client while `undisturbed` holds it, and of the
pipeline by what it will have left: `Final(t, pipe, q)` is the value of `q` once the server `t`
has executed `pipe`; `FinalStep` says that executing a command does not change it, `FinalAppend`
and its kin what queueing one does.  Then `Descends` (DelTree: what is below the prefix is in
the scan; none of the writes to come adds to it), `Forgets` (Del: each key queued so far is gone
and unlisted, finally; no key to come touches its directory) and `SetInv` (Set: for each pair
queued so far the directories above it are listed in a chain, finally, except the parents still
to be read; while a directory is being made by the nested Set, both frames' chains hold, because
the inner pipeline writes that directory and its parent only, which were not there).
One lemma per action shows that the undisturbed call
keeps its invariant; `CallKept` and `BusyStep` that a client's step moves its own stack only,
and `undisturbed` that no other step has changed the server.

`HomesCoherent` is the `UnbrokenCoherent` of `redis_clients` for every value of the constants.
Each client has a home, a directory below which all that it calls lies (the root, for a client
alone), and no home is in another's (`AtHome`); no links or overlays are made; a name is that of
a file or of a directory (`OneNameEach`), for Set of the one lists the other; a Del takes files
and what has nothing below it, no two from one directory, and the scan of a DelTree finds its
path, what is below it and nothing else (`Exact`: as a pattern the path matches no other, and
the name of a file begins no other); the server is coherent at first and lists the homes, and an
overlay that it holds reads a directory (`StoredTidy`). Without links and overlays the proof is spared what
`redis_links` checks; each of the other hypotheses excludes something that section 5 or
`redis_lost_name` shows to go wrong. The module `MCRedisClients` assumes the three of its clients
`serial` and `apart`, so that TLC checks there that they can be met. The invariant `HomeInv` says
that what is stored fits its path, that nothing outside the homes has changed, and that each
client is `Orderly`: between its calls the keys below its home agree with their indexes (`Tidy`),
and during one each frame says how far it is from there. A pipeline that is being filled or
executed `Settles` if the keys will be tidy when all of it has been executed; until then the
calls only read and stay tidy, but for DelTree, which sends its first pipeline before it unlists
the prefix, and is tidy but for what is under it. The others enter with one lemma: they write in
their own homes and never the index of a directory above, which lists their home already, so that
below a home the keys are as its client left them. `KVPathsProofs` holds the lemmas about paths
that these proofs and those about `GoheapStore` share.

Only model-checked: what the display shows (`Displayed`); of `RedisStore` the agreement of List
and Get where there are links (`SoundListMatchesGet`), which holds for special clients only; the
tree above its nodes (`ImplementsKeyMap`, `TreeWellFormed`), whose operators are recursive, as
those of `Display` are, which no installed prover unfolds; and the codec (`FieldsKept`,
`OrdinaryStored`), whose bodies are lists of any length that only an induction over them would
cover. Liveness under fairness is out of the prover's reach as well: `CallsReturn`, `WatcherReturns`
and `Delivered`.

## 5. Where code and documentation differ

Four runs show it (`findings` in `PROJECT.json`):

* `redis_glob`: DelTree "deletes recursively" (`src/kvspace.go:36`); it scans for its prefix and
  a star, which the server takes for a glob (`redis/redis.go:131`). Names with brackets are the
  repository's own coordinates (`src/kvspace.go:16`, `src/kvspace_common_test.go:14`). A DelTree
  of `/b[0]/` leaves the keys below it and deletes those below `/b0/`.
* `goheap_collision`: two nested overlays, the inner one bound first.  The check of a write asks
  the nearest overlay only, so a key can be set that the target of the outer one has too: the
  state that `ErrExtCollision` names, after which further ExtIndex calls and deletes of indexes
  are refused, and a delete of the upper key brings the lower one to light.  It takes an orphan
  (`Rooted` of section 4 fails), so that clients of kind `files` never meet it.
* `conn_links`: Set holds `lifeMu` for reading and asks for it again in `ValidatePtr`; with a
  DisConn in between, both wait for ever.
* `redis_lost_name`: Set "maintains the directory's index" (`src/kvspace.go:30`), from a copy
  that it read before its pipeline; of two clients in one directory the later write loses the
  earlier name, and a file that Get finds is in no List.

Met while modelling; the instances of the passing runs keep clear of them, and no run is spent
on them:

* goheap: links are promised to be transparent (`src/kvspace.go:23`), and are stored, listed and
  deleted but never followed, since `resolvePathErrLocked` returns its argument
  (`goheap/backend.go:1016`). A file that is set to None is stored as no bytes
  (`goheap/backend.go:1232`): it is listed, and Get does not find it. `NoneAssumption` of
  `GoheapStore` keeps it out.
* redis: a DelTree of `/a` without the slash deletes `/ab` too (`redis/redis.go:131`); a DelTree of
  `/l/m`, where `/l` and then `m` are links, deletes what `m` leads to and not the link, against
  `src/kvspace.go:24`, and so does one whose path becomes a link after it has looked
  (`redis/kvspace.go:477`); one Del of two siblings leaves the first name (`:461`); Del of a
  file's path unlists the directory of that name (`:174`); a cycle of links is accepted and never left
  (`redis/redis.go:75`); List of a directory below a link's target, called through the link, is
  empty, as its path has lost the slash (`redis/redis.go:122`, `redis/kvspace.go:389`), while Get
  finds what is in it; cascades of overlays are looked for in one direction (`:522`);
  `MkIndexRecursive` drops errors (`kvspace_common.go:440`).
* dict directories: in goheap a second Set of a member takes the earlier ones out of the list
  (`goheap/backend.go:710`), List panics (`:645`) and Del goes for another key (`:1018`); in redis
  Del of a member leaves its name (`redis/kvspace.go:429`), Del of the directory takes its
  namesakes along (`redis/redis.go:89`), and a connection that breaks between its two writes
  makes later Sets panic (`:287`; this last case is in the run `stored`).
* `WatchValue`: a value that is replaced between two polls is never seen; a tick below a
  microsecond is exceeded by the first pause; a link is taken for a text that is spelled like its
  target.
* `ValidatePtr` before the lock: another goroutine, or another pair of the same batch, can set
  the target in between, and the link then declares what the target is not (in `LinkCheck` such
  a link is not `settled`).
* `tutorial/02-link.sh` sets a link of kind `index`, which goheap refuses; the example at
  `src/kvspace.go:15` gives a directory without its slash, which panics (`goheap/backend.go:78`);
  `Walk` appends a slash to names that already end in one (`src/kvspace_common.go:527`).

## 6. What is not modelled, and what could come next

Not modelled: the registry (one map lookup); the shm backend (its algorithms are in a library
outside the repository); the parsing of arguments and values, the text of values, floats and
times, the rows of `array2d` and the tutorial's scripts (formatting); dict directories under
overlays; a display beside writers; concurrent calls on dict directories of redis.

Worth adding:

1. `KVLayers`: the overlay semantics as an abstract specification (two layers, what is visible,
   what is writable), with `GoheapStore` shown to implement it under the file clients.
2. Proofs: the agreement of List and Get of `RedisStore` through links, for one client; the
   refinement of `KVLayers`.
3. Runs about the disagreements of redis listed in section 5, each with a directory, a link or a
   client more than the passing instances have.
