----------------------------- MODULE RedisStore -----------------------------
(***************************************************************************)
(* The backend redis: a tree of files and directories kept in the keys of  *)
(* one Redis server (redis/kvspace.go, redis/redis.go), used by several    *)
(* clients at once, each with a connection of its own.                     *)
(*                                                                         *)
(* A client keeps nothing between calls.  A call reads keys, one request   *)
(* after the other, queues its writes in a pipeline, and sends that at its *)
(* end.  The server executes the commands of a pipeline in order, each     *)
(* atomically, and those of other clients in between: it is no             *)
(* transaction, and no key is watched.  What can go wrong is that an index *)
(* is written back from a copy that is no longer the server's, and that    *)
(* some commands of a call take effect and others do not.                  *)
(*                                                                         *)
(* stack[c] holds the frames of client c's call, the innermost first: Set  *)
(* makes missing directories by calls of itself (MkIndexRecursive).  A     *)
(* step is one request, or the requests of one check; every GET whose      *)
(* result is written back, and every command of a pipeline, is a step of   *)
(* its own.                                                                *)
(***************************************************************************)
EXTENDS RedisReads, FiniteSets

CONSTANTS Clients,       \* the connections
          Stored,        \* what the server holds when they connect
          Batches,       \* the argument lists of Set that each client uses
          DelCalls,      \* the argument lists of Del that each client uses
          DelTreeCalls,  \* the arguments of DelTree that each client uses
          MkindexCalls,  \* the arguments of Mkindex
          ExtIndexCalls, \* the pairs <<path, extpath>> of ExtIndex
          DelExtCalls,   \* the arguments of DelExtIndex
          ClearCalls,    \* the clients that call Clear
          Failing,       \* the clients that may crash or lose their connection
          Globs,         \* the pairs <<m, n>> of names: the pattern m matches n
          Begins         \* those where the pattern m* does

VARIABLES db,         \* the server: the value of every key, Absent where there is none
          stack,      \* the frames of the running call of every client
          undisturbed \* the clients in whose last call no other client has written

vars == <<db, stack, undisturbed>>

Write == [key: Paths, val: Value]

RedisAssumption ==
    /\ Stored \in [Paths -> Value]
    /\ \A p \in Paths : Stored[p].kind = "absent" => Stored[p].kids = {}
    /\ \A c \in Clients :
          /\ Batches[c] \subseteq Seq(Write) \ {<< >>}
          /\ \A batch \in Batches[c] : \A i \in DOMAIN batch :
                batch[i].key # Root /\ batch[i].val.kind # "absent"
          /\ DelCalls[c] \subseteq Seq(Paths \ {Root}) \ {<< >>}
          /\ DelTreeCalls[c] \subseteq Paths \ {Root}
    /\ DelExtCalls \subseteq Paths \ {Root}
    /\ MkindexCalls \subseteq Dirs \ {Root}
    /\ ExtIndexCalls \subseteq (Dirs \ {Root}) \X Dirs
    /\ ClearCalls \cup Failing \subseteq Clients
    /\ Globs \subseteq Begins /\ Begins \subseteq Names \X Names

ASSUME RedisAssumption

\* The targets of the links that are stored or that clients set.
LinkTargets ==
    {t \in Paths \cup {NoPath} :
        \/ \E p \in Paths : Stored[p].kind = "ptr" /\ Stored[p].ext = t
        \/ \E c \in Clients : \E batch \in Batches[c] : \E i \in DOMAIN batch :
              batch[i].val.kind = "ptr" /\ batch[i].val.ext = t}

\* Paths holds every path that a call can be led to by a link, which is never
\* one to the root, and the spelling of every directory as a file.
ClosedAssumption ==
    /\ \A p \in Paths : AsFile(p) \in Paths
    /\ \A t \in LinkTargets :
          /\ t \in Paths \ {Root}
          /\ \A p \in Paths : \A n \in 1 .. Len(p) :
                LET q == Slash(t) \o SubSeq(p, n + 1, Len(p))
                IN  {q, AsFile(q), Slash(q)} \subseteq Paths

ASSUME ClosedAssumption

-----------------------------------------------------------------------------
(* Frames *)

Calls == {"none", "Set", "Del", "DelTree", "Mkindex", "ExtIndex", "DelExtIndex"}

\* Where a call stands: what its next request is for.
Places == {"resolve", "resolveParent", "remove", "link", "target", "ensure",
           "parents", "exec", "unlist", "mkindex", "returned"}

Frame == [call: Calls, pc: Places,
          pairs: Seq(Write),     \* Set: the pairs still to queue
          keys: Seq(Paths),      \* Del: the keys still to queue
          path: Paths,           \* the path being resolved, then the resolved one
          target: Paths,         \* ExtIndex: the read-only directory
          dir: Dirs,             \* the directory that MkIndexRecursive makes
          at: Nat,               \* its loop counter, and those of Mkindex and DelTree
          touched: SUBSET Paths, \* the resolved paths that the call writes or deletes
          todo: SUBSET Dirs,     \* Set: the parents whose index is still to be read
          pipe: Seq(Write),      \* the queued commands; DEL writes Absent
          doomed: SUBSET Paths]  \* DelTree: the keys of the scan, in any order

Blank == [call |-> "none", pc |-> "returned", pairs |-> << >>, keys |-> << >>,
          path |-> Root, target |-> Root, dir |-> Root, at |-> 1, touched |-> {},
          todo |-> {}, pipe |-> << >>, doomed |-> {}]

Busy(c) == stack[c] # << >> /\ Head(stack[c]).pc # "returned"
Top(c) == Head(stack[c])
At(c, pc) == Busy(c) /\ Top(c).pc = pc

\* A new call of client c.
Enter(c, frame) ==
    /\ ~ Busy(c)
    /\ stack' = [stack EXCEPT ![c] = <<frame>>]
    /\ undisturbed' = undisturbed \cup {c}
    /\ UNCHANGED db

\* The frame of c's running call changes, or calls frame nested.
Continue(c, frame) == stack' = [stack EXCEPT ![c] = <<frame>> \o Tail(@)]
Nest(c, frame, nested) == stack' = [stack EXCEPT ![c] = <<nested, frame>> \o Tail(@)]

\* A nested call returns to its caller; of an outermost one its result remains.
Return(c, frame) ==
    stack' = [stack EXCEPT ![c] =
                 IF Len(@) > 1 THEN Tail(@)
                 ELSE <<[Blank EXCEPT !.call = frame.call, !.touched = frame.touched]>>]

\* A panic, or an error of an outermost call: nothing more is sent.
Abort(c) == stack' = [stack EXCEPT ![c] = << >>]

-----------------------------------------------------------------------------
(* Links *)

\* resolveParent takes the same passes over the path of the parent.
FollowsParent(t, p) == Follows(t, AsFile(Parent(p)))
PassParent(t, p) == Append(Slash(Pass(t, AsFile(Parent(p)))), Last(p))

\* One round of the loop of resolvePath or of resolveParent.
FollowLink(c) ==
    LET f == Top(c)
    IN  /\ \/ At(c, "resolve") /\ Follows(db, f.path)
              /\ Continue(c, [f EXCEPT !.path = Pass(db, @)])
           \/ At(c, "resolveParent") /\ FollowsParent(db, f.path)
              /\ Continue(c, [f EXCEPT !.path = PassParent(db, @)])
        /\ UNCHANGED <<db, undisturbed>>

\* The loop is over: what follows in the call is in the same step.
Resolved(c, call) ==
    At(c, "resolve") /\ Top(c).call = call /\ ~ Follows(db, Top(c).path)
ResolvedParent(c, call) ==
    At(c, "resolveParent") /\ Top(c).call = call /\ ~ FollowsParent(db, Top(c).path)

-----------------------------------------------------------------------------
(* Indexes *)

\* The index of d with more names; a directory without a key gets one.
WithNames(t, d, names) ==
    LET v == ValueAt(t, d)
    IN  IF v.kind = "absent" THEN IndexOf(names) ELSE [v EXCEPT !.kids = @ \cup names]

\* Mutant: the names that the index had are left out.
MutAddChild(t, p) ==
    IF ChildName(p) \in DirIndex(t, Parent(p)) THEN << >>
    ELSE <<[key |-> Parent(p),
            val |-> [WithNames(t, Parent(p), {}) EXCEPT !.kids = {ChildName(p)}]]>>

\* addChild queues nothing if the name is there.
AddChild(t, p) ==
    IF ChildName(p) \in DirIndex(t, Parent(p)) THEN << >>
    ELSE <<[key |-> Parent(p), val |-> WithNames(t, Parent(p), {ChildName(p)})]>>

\* removeChild: the name goes, with and without the slash.
RemoveChild(t, p) ==
    LET v == ValueAt(t, Parent(p))
        left == {k \in v.kids : k.name # ChildName(p).name}
    IN  IF v.kind = "absent" THEN << >>
        ELSE <<[key |-> Parent(p), val |-> [v EXCEPT !.kids = left]]>>

DelKey(p) == [key |-> p, val |-> Absent]

\* The check before a write or delete of a file whose parent is an overlay:
\* the overlay does not list the name and its target does.  A directory's
\* name is compared without its slash.
ExtRefused(t, p) ==
    LET v == ValueAt(t, Parent(p))
        name == [name |-> ChildName(p).name, dir |-> FALSE]
    IN  /\ v.kind = "extindex"
        /\ name \notin v.kids
        /\ name \in DirIndex(t, v.ext) \/ NoIndex(t, v.ext)

\* The check lets c go on with p: it also does if its GET of the parent fails.
ExtPassed(c, t, p) == c \in Failing \/ ~ ExtRefused(t, p)

-----------------------------------------------------------------------------
(* MkIndexRecursive *)

\* The next directory on the way is listed, as a directory or as a file.
EnsureListed(c) ==
    LET f == Top(c)
        d == Ancestor(f.dir, f.at)
    IN  /\ At(c, "ensure") /\ f.at <= Len(f.dir)
        /\ ChildName(d).name \in {k.name : k \in ListOwn(db, Parent(d))}
        /\ Continue(c, [f EXCEPT !.at = @ + 1])
        /\ UNCHANGED <<db, undisturbed>>

SetFrame(batch) ==
    [Blank EXCEPT !.call = "Set", !.pc = "resolve", !.pairs = batch,
                  !.path = Head(batch).key]

\* Mutant: a directory that exists is taken for one that is listed.
MutEnsureMissing(c) ==
    LET f == Top(c)
        d == Ancestor(f.dir, f.at)
        make == SetFrame(<<[key |-> d, val |-> IndexOf({})]>>)
    IN  /\ At(c, "ensure") /\ f.at <= Len(f.dir)
        /\ ChildName(d).name \notin {k.name : k \in ListOwn(db, Parent(d))}
        /\ IF Present(db, d) THEN Continue(c, [f EXCEPT !.at = @ + 1])
           ELSE Nest(c, [f EXCEPT !.at = @ + 1], make)
        /\ UNCHANGED <<db, undisturbed>>

\* It is not: a nested Set makes it with an empty index.
EnsureMissing(c) ==
    LET f == Top(c)
        d == Ancestor(f.dir, f.at)
        make == SetFrame(<<[key |-> d, val |-> IndexOf({})]>>)
    IN  /\ At(c, "ensure") /\ f.at <= Len(f.dir)
        /\ ChildName(d).name \notin {k.name : k \in ListOwn(db, Parent(d))}
        /\ IF ListPanics(db, Parent(d)) THEN Abort(c) ELSE Nest(c, [f EXCEPT !.at = @ + 1], make)
        /\ UNCHANGED <<db, undisturbed>>

\* Mutant: MkIndexRecursive is called with the key, not with its parent.
MutEnsuring(f, dir) == [f EXCEPT !.pc = "ensure", !.dir = f.path, !.at = 1]

\* MkIndexRecursive(dir) begins, or it has returned.
Ensuring(f, dir) == [f EXCEPT !.pc = "ensure", !.dir = dir, !.at = 1]
Ensured(c, call) == At(c, "ensure") /\ Top(c).call = call /\ Top(c).at > Len(Top(c).dir)

-----------------------------------------------------------------------------
(* Set *)

SetBegin(c) == \E batch \in Batches[c] : Enter(c, SetFrame(batch))

\* ValidatePtr: the target of a link is missing or of the kind that the link
\* declares, an index for a directory and data for a file.
ValidPtr(t, v) ==
    LET target == IF IsDir(v.ext) THEN ValueAt(t, Slash(ResolvePath(t, v.ext)))
                  ELSE Get(t, v.ext)
    IN  v.kind = "ptr" =>
            \/ target.kind = "absent"
            \/ target.kind = "ptr" /\ IsDir(target.ext) = IsDir(v.ext)
            \/ target.kind = IF IsDir(v.ext) THEN "index" ELSE "data"

\* The resolved key of the next pair is checked.
SetPrepare(c) ==
    LET f == Top(c)
        v == Head(f.pairs).val
    IN  /\ Resolved(c, "Set")
        /\ IF (IsDir(f.path) \/ v.kind \notin DirKinds) /\ ValidPtr(db, v)
           THEN Continue(c, Ensuring(f, Parent(f.path)))
           ELSE Abort(c)
        /\ UNCHANGED <<db, undisturbed>>

\* Its parent exists: the pair is queued, unless a read-only file is in the way.
SetQueue(c) ==
    LET f == Top(c)
        rest == Tail(f.pairs)
        queued == [f EXCEPT !.pairs = rest,
                            !.pipe = Append(@, [key |-> f.path, val |-> Head(f.pairs).val]),
                            !.touched = @ \cup {f.path}]
    IN  /\ Ensured(c, "Set")
        /\ \/ ~ IsDir(f.path) /\ ExtRefused(db, f.path) /\ Abort(c)
           \/ /\ IsDir(f.path) \/ ExtPassed(c, db, f.path)
              /\ IF rest = << >>
                 THEN Continue(c, [queued EXCEPT !.pc = "parents",
                                                 !.todo = {Parent(p) : p \in queued.touched}])
                 ELSE Continue(c, [queued EXCEPT !.pc = "resolve", !.path = Head(rest).key])
        /\ UNCHANGED <<db, undisturbed>>

\* Mutant: the index is written without the names it had.
MutNamed(t, d, S) ==
    [key |-> d, val |-> [WithNames(t, d, {}) EXCEPT !.kids = {ChildName(p) : p \in S}]]

\* The index of d with the names of all paths of S that it holds.
Named(t, d, S) ==
    [key |-> d, val |-> WithNames(t, d, {ChildName(p) : p \in {q \in S : Parent(q) = d}})]

\* The index of one more parent, in the order of a Go map, is read and queued.
SetParent(c) ==
    LET f == Top(c)
    IN  /\ At(c, "parents")
        /\ \E d \in f.todo :
              IF NoIndex(db, d) THEN Abort(c)
              ELSE Continue(c, [f EXCEPT !.todo = @ \ {d},
                                         !.pipe = Append(@, Named(db, d, f.touched)),
                                         !.pc = IF f.todo = {d} THEN "exec" ELSE @])
        /\ UNCHANGED <<db, undisturbed>>

-----------------------------------------------------------------------------
(* Del and DelTree *)

DelFrame(keys) ==
    [Blank EXCEPT !.call = "Del", !.pc = "resolveParent", !.keys = keys, !.path = Head(keys)]

DelBegin(c) == \E keys \in DelCalls[c] : Enter(c, DelFrame(keys))

\* The resolved key is checked.
DelCheck(c) ==
    LET f == Top(c)
    IN  /\ ResolvedParent(c, "Del")
        /\ \/ ExtRefused(db, f.path) /\ Abort(c)
           \/ ExtPassed(c, db, f.path) /\ Continue(c, [f EXCEPT !.pc = "remove"])
        /\ UNCHANGED <<db, undisturbed>>

\* The frame of a Del with the pipeline that holds its first key's commands.
Removed(f, pipe) ==
    LET rest == Tail(f.keys)
        queued == [f EXCEPT !.keys = rest, !.pipe = pipe, !.touched = @ \cup {f.path}]
    IN  IF rest = << >> THEN [queued EXCEPT !.pc = "exec"]
        ELSE [queued EXCEPT !.pc = "resolveParent", !.path = Head(rest)]

\* Mutant: a key that is not there is taken for one that is not listed.
MutDelQueue(c) ==
    LET f == Top(c)
        p == f.path
        gone == IF Present(db, p) THEN <<DelKey(p)>> \o RemoveChild(db, p) ELSE << >>
    IN  /\ At(c, "remove")
        /\ IF NoIndex(db, Parent(p)) THEN Abort(c) ELSE Continue(c, Removed(f, f.pipe \o gone))
        /\ UNCHANGED <<db, undisturbed>>

\* The key is deleted, of a directory the link in its place as well, and its
\* name is taken out of the index, which is read for it once more.
DelQueue(c) ==
    LET f == Top(c)
        p == f.path
        gone == IF IsDir(p) THEN <<DelKey(AsFile(p)), DelKey(p)>> ELSE <<DelKey(p)>>
    IN  /\ At(c, "remove")
        /\ IF NoIndex(db, Parent(p)) THEN Abort(c)
           ELSE Continue(c, Removed(f, f.pipe \o gone \o RemoveChild(db, p)))
        /\ UNCHANGED <<db, undisturbed>>

DelTreeBegin(c) ==
    \E p \in DelTreeCalls[c] :
        Enter(c, [Blank EXCEPT !.call = "DelTree", !.pc = "link", !.path = p])

\* A link is deleted as Del does it.
DelTreeLink(c) ==
    LET f == Top(c)
    IN  /\ At(c, "link")
        /\ IF ValueAt(db, AsFile(f.path)).kind = "ptr" THEN Continue(c, DelFrame(<<f.path>>))
           ELSE Continue(c, [f EXCEPT !.pc = "resolve"])
        /\ UNCHANGED <<db, undisturbed>>

\* SCAN finds key q by the pattern p*.  The pattern is p as it is spelled, with
\* what a glob takes for a class of characters unescaped: "b[0]" is a name, and
\* a pattern that matches "b0" and not itself.  (No name holds "*" or "?", or a
\* class that "/" is in; those would match across directories.)
Matches(q, p) ==
    /\ Len(q) >= Len(p)
    /\ \A i \in 1 .. Len(p) :
          IF p[i].dir THEN q[i].dir /\ <<p[i].name, q[i].name>> \in Globs
          ELSE <<p[i].name, q[i].name>> \in Begins

\* Mutant: only what its indexes list is found.
MutDelTreeScan(c) ==
    LET f == Top(c)
    IN  /\ Resolved(c, "DelTree")
        /\ Continue(c, [f EXCEPT !.pc = "exec", !.touched = {f.path},
                                 !.pipe = <<DelKey(f.path)>>,
                                 !.doomed = {q \in Keys(db) : Parent(q) = f.path /\
                                                Last(q) \in DirIndex(db, f.path)}])
        /\ UNCHANGED <<db, undisturbed>>

DelTreeScan(c) ==
    LET f == Top(c)
    IN  /\ Resolved(c, "DelTree")
        /\ Continue(c, [f EXCEPT !.pc = "exec", !.touched = {f.path},
                                 !.pipe = <<DelKey(f.path)>>,
                                 !.doomed = {q \in Keys(db) : Matches(q, f.path)} \ {f.path}])
        /\ UNCHANGED <<db, undisturbed>>

\* The keys are gone: a second pipeline takes the name out of the index.
DelTreeUnlist(c) ==
    LET f == Top(c)
    IN  /\ At(c, "unlist")
        /\ IF NoIndex(db, Parent(f.path)) THEN Abort(c)
           ELSE Continue(c, [f EXCEPT !.pc = "exec", !.at = 2, !.pipe = RemoveChild(db, f.path)])
        /\ UNCHANGED <<db, undisturbed>>

-----------------------------------------------------------------------------
(* Mkindex, ExtIndex, DelExtIndex and Clear *)

MkindexBegin(c) ==
    \E d \in MkindexCalls :
        Enter(c, [Blank EXCEPT !.call = "Mkindex", !.pc = "resolve", !.path = d])

MkindexPrepare(c) ==
    /\ Resolved(c, "Mkindex")
    /\ Continue(c, [Top(c) EXCEPT !.pc = "mkindex"])
    /\ UNCHANGED <<db, undisturbed>>

\* One directory of the path: if it lists nothing, its parent is to list it.
\* It gets no key of its own.
MkindexNext(c) ==
    LET f == Top(c)
        cur == Slash(Ancestor(f.path, f.at))
    IN  /\ At(c, "mkindex")
        /\ IF f.at > Len(f.path) THEN Return(c, f)
           ELSE IF DirIndex(db, cur) # {} THEN Continue(c, [f EXCEPT !.at = @ + 1])
           ELSE IF NoIndex(db, cur) \/ NoIndex(db, Parent(cur)) THEN Abort(c)
           ELSE Continue(c, [f EXCEPT !.pc = "exec", !.at = @ + 1, !.pipe = AddChild(db, cur)])
        /\ UNCHANGED <<db, undisturbed>>

ExtIndexBegin(c) ==
    \E call \in ExtIndexCalls :
        Enter(c, [Blank EXCEPT !.call = "ExtIndex", !.pc = "target",
                               !.path = call[1], !.target = call[2]])

\* The target is no overlay itself.
ExtIndexTarget(c) ==
    LET f == Top(c)
    IN  /\ At(c, "target")
        /\ IF ValueAt(db, f.target).kind = "extindex" THEN Abort(c)
           ELSE Continue(c, [f EXCEPT !.pc = "resolveParent"])
        /\ UNCHANGED <<db, undisturbed>>

ExtIndexPrepare(c) ==
    LET f == Top(c)
    IN  /\ ResolvedParent(c, "ExtIndex")
        /\ Continue(c, Ensuring(f, Parent(f.path)))
        /\ UNCHANGED <<db, undisturbed>>

\* The overlay starts with no names of its own, whatever the directory held.
ExtIndexQueue(c) ==
    LET f == Top(c)
        bind == [key |-> f.path, val |-> ExtIndexOf({}, f.target)]
    IN  /\ Ensured(c, "ExtIndex")
        /\ IF NoIndex(db, Parent(f.path)) THEN Abort(c)
           ELSE Continue(c, [f EXCEPT !.pc = "exec", !.touched = {f.path},
                                      !.pipe = <<bind>> \o AddChild(db, f.path)])
        /\ UNCHANGED <<db, undisturbed>>

DelExtBegin(c) ==
    \E d \in DelExtCalls :
        Enter(c, [Blank EXCEPT !.call = "DelExtIndex", !.pc = "resolveParent", !.path = d])

\* The key goes, or the link that stands in its place; what is below stays.
DelExtQueue(c) ==
    LET f == Top(c)
        p == IF ValueAt(db, AsFile(f.path)).kind = "ptr" THEN AsFile(f.path) ELSE f.path
    IN  /\ ResolvedParent(c, "DelExtIndex")
        /\ IF NoIndex(db, Parent(p)) THEN Abort(c)
           ELSE Continue(c, [f EXCEPT !.pc = "exec", !.touched = {p},
                                      !.pipe = <<DelKey(p)>> \o RemoveChild(db, p)])
        /\ UNCHANGED <<db, undisturbed>>

\* FLUSHDB, one request.
Clear(c) ==
    /\ c \in ClearCalls
    /\ ~ Busy(c)
    /\ db' = [p \in Paths |-> Absent]
    /\ undisturbed' = undisturbed \cap {c}
    /\ Abort(c)

-----------------------------------------------------------------------------
(* The pipeline *)

\* The server executes the next command, or deletes one more key of the scan.
ExecCommand(c) ==
    LET f == Top(c)
    IN  /\ At(c, "exec") /\ f.pipe # << >>
        /\ db' = [db EXCEPT ![Head(f.pipe).key] = Head(f.pipe).val]
        /\ Continue(c, [f EXCEPT !.pipe = Tail(@)])
        /\ undisturbed' = undisturbed \cap {c}

ExecDoomed(c) ==
    LET f == Top(c)
    IN  /\ At(c, "exec") /\ f.pipe = << >>
        /\ \E q \in f.doomed :
              /\ db' = [db EXCEPT ![q] = Absent]
              /\ Continue(c, [f EXCEPT !.doomed = @ \ {q}])
        /\ undisturbed' = undisturbed \cap {c}

\* The replies are in: what the call does after this pipeline.
ExecDone(c) ==
    LET f == Top(c)
    IN  /\ At(c, "exec") /\ f.pipe = << >> /\ f.doomed = {}
        /\ CASE f.call = "DelTree" /\ f.at = 1 -> Continue(c, [f EXCEPT !.pc = "unlist"])
             [] f.call = "Mkindex"              -> Continue(c, [f EXCEPT !.pc = "mkindex"])
             [] OTHER                           -> Return(c, f)
        /\ UNCHANGED <<db, undisturbed>>

\* The connection fails: commands not yet executed are lost, and the call
\* returns the error.  MkIndexRecursive drops that of a Set it called.
ExecFails(c) ==
    /\ c \in Failing
    /\ At(c, "exec")
    /\ IF Len(stack[c]) > 1 THEN Return(c, Top(c)) ELSE Abort(c)
    /\ UNCHANGED <<db, undisturbed>>

\* The client's process dies, and another takes its place.
Crash(c) ==
    /\ c \in Failing
    /\ Busy(c)
    /\ Abort(c)
    /\ UNCHANGED <<db, undisturbed>>

-----------------------------------------------------------------------------
Init ==
    /\ db = Stored
    /\ stack = [c \in Clients |-> << >>]
    /\ undisturbed = {}

Begin(c) ==
    \/ SetBegin(c)      \/ DelBegin(c)     \/ DelTreeBegin(c) \/ MkindexBegin(c)
    \/ ExtIndexBegin(c) \/ DelExtBegin(c)  \/ Clear(c)

Step(c) ==
    \/ FollowLink(c)     \/ EnsureListed(c)    \/ EnsureMissing(c)
    \/ SetPrepare(c)     \/ SetQueue(c)        \/ SetParent(c)
    \/ DelCheck(c)       \/ DelQueue(c)        \/ DelTreeLink(c)
    \/ DelTreeScan(c)    \/ DelTreeUnlist(c)
    \/ MkindexPrepare(c) \/ MkindexNext(c)     \/ DelExtQueue(c)
    \/ ExtIndexTarget(c) \/ ExtIndexPrepare(c) \/ ExtIndexQueue(c)
    \/ ExecCommand(c)    \/ ExecDoomed(c)      \/ ExecDone(c)

Fault(c) == ExecFails(c) \/ Crash(c)

Next == \E c \in Clients : Begin(c) \/ Step(c) \/ Fault(c)

Spec == Init /\ [][Next]_vars
-----------------------------------------------------------------------------
(* Properties *)

\* Every variable, the frames of the running calls included, has its type.
TypeOK ==
    /\ db \in [Paths -> Value]
    /\ stack \in [Clients -> Seq(Frame)]
    /\ undisturbed \subseteq Clients

Quiet == \A c \in Clients : ~ Busy(c)

\* Every directory on the way to p lists the next, under its name or also as
\* what it is.
NamedUp(t, p) ==
    \A n \in 1 .. Len(p) :
        p[n].name \in {k.name : k \in DirIndex(t, Ancestor(p, n - 1))}
ListedUp(t, p) == \A n \in 1 .. Len(p) : p[n] \in DirIndex(t, Ancestor(p, n - 1))

\* Between calls the tree that List walks is the set of the keys: every key is
\* listed, step by step from the root, and every file that is listed is there
\* (Set "maintains the index", Del and DelTree take the names out).
Coherent ==
    Quiet =>
        /\ \A p \in Keys(db) : ListedUp(db, p)
        /\ \A d \in Dirs : \A k \in DirIndex(db, d) :
              ~ k.dir => Present(db, Append(d, k))

\* The last call of client c returned without an error, and no other client
\* wrote while it ran or since.
Did(c, call) ==
    c \in undisturbed /\ stack[c] # << >> /\ ~ Busy(c) /\ Top(c).call = call

HasStored(c) ==
    Did(c, "Set") => \A p \in Top(c).touched : Present(db, p) /\ NamedUp(db, p)

\* A Set that returns has stored its pairs where List finds them: it makes the
\* missing parents and gives every parent the name, whatever calls of other
\* clients were cut short before, by a crash, an error or a panic, while the
\* client's own connection works.
SetRepairs == \A c \in Clients \ Failing : HasStored(c)

\* Likewise a Del that returns has removed each key and its name.
DelForgets ==
    \A c \in Clients \ Failing : \A p \in Paths :
        Did(c, "Del") /\ p \in Top(c).touched =>
            ~ Present(db, p) /\ ChildName(p) \notin DirIndex(db, Parent(p))

\* And a DelTree that returns has left nothing below its prefix, neither what
\* was listed nor what an earlier call had lost from the indexes.
DelTreeClears ==
    \A c \in Clients \ Failing : \A p \in Paths :
        Did(c, "DelTree") /\ p \in Top(c).touched =>
            /\ \A q \in Keys(db) : ~ Under(q, p)
            /\ ChildName(p) \notin DirIndex(db, Parent(p))

\* Between calls a file is listed exactly where Get finds it, in an overlay
\* the files of its target included, and reached through links or not.
ListMatchesGet ==
    Quiet => \A p \in Paths \ Dirs :
        (ChildName(p) \in List(db, Parent(p))) <=> (Get(db, p).kind # "absent")
=============================================================================
