---------------------------- MODULE MCRedisStore ----------------------------
(***************************************************************************)
(* What the instances of RedisStore share, and the smallest of them:       *)
(* directories /a/, /a/s/, /b/ and /s/, the files x and y in them, a file  *)
(* /ab, links /l and /b/l, and directories /b0/ and /b[0]/.                *)
(***************************************************************************)
EXTENDS RedisStore

File(name) == [name |-> name, dir |-> FALSE]
Sub(name) == [name |-> name, dir |-> TRUE]

MCNames == {"a", "b", "s", "ab", "l", "x", "y", "b0", "b[0]"}

\* A name without brackets matches itself, and with a star what begins with it.
MCGlobs == {<<n, n>> : n \in MCNames \ {"b[0]"}} \cup {<<"b[0]", "b0">>}
MCBegins == MCGlobs \cup {<<"a", "ab">>, <<"b", "b0">>, <<"b", "b[0]">>}

A == <<Sub("a")>>
B == <<Sub("b")>>
AS == <<Sub("a"), Sub("s")>>
AB == <<File("ab")>>
L == <<File("l")>>
LDir == <<Sub("l")>>
X(dir) == Append(dir, File("x"))
Y(dir) == Append(dir, File("y"))

\* The paths that S leads along.
Along(S) == UNION {{Ancestor(p, n) : n \in 0 .. Len(p)} : p \in S}

\* S with the spellings of its members as files, and what links to the
\* directories T, each one below the root, make of them.
Reached(S, T) ==
    LET files == {AsFile(p) : p \in Along(S)}
        ends == UNION {{SubSeq(p, n + 1, Len(p)) : n \in 1 .. Len(p)} : p \in Along(S)}
        led == {t \o e : t \in T, e \in ends}
    IN  Along(S \cup files \cup led \cup {AsFile(p) : p \in led} \cup {Slash(p) : p \in led})

Put(p) == [key |-> p, val |-> Plain("data")]
PutLink(p, target) == [key |-> p, val |-> Link(target)]

\* A server on which one client has stored files F, links to directories K
\* and empty overlays O over other directories.
ServerWith(F, K, O) ==
    LET keys == F \cup DOMAIN K \cup DOMAIN O
        dirs == {p \in Along(keys) : IsDir(p)} \cup {K[p] : p \in DOMAIN K}
        kids(d) == {Last(p) : p \in {q \in Along(keys \cup dirs) \ {Root} : Parent(q) = d}}
    IN  [p \in Paths |->
           CASE p \in F -> Plain("data")
             [] p \in DOMAIN K -> Link(K[p])
             [] p \in DOMAIN O -> ExtIndexOf(kids(p), O[p])
             [] p \in dirs -> IndexOf(kids(p))
             [] OTHER -> Absent]

Nothing == [p \in Paths |-> Absent]

\* The calls of one client, and those of c1 and of c2.
One(calls) == "c1" :> calls
Each(calls, others) == "c1" :> calls @@ "c2" :> others
None == [c \in {"c1", "c2"} |-> {}]

-----------------------------------------------------------------------------
(* Two clients store a file each in the same directory.                    *)

LostPaths == Reached({X(A), Y(A)}, {})
LostBatches == Each({ <<Put(X(A))>> }, { <<Put(Y(A))>> })

-----------------------------------------------------------------------------
(* One client stores a file in each of two directories, of which the name  *)
(* of one is a pattern that matches the other, and deletes the one.        *)

BZero == <<Sub("b0")>>
BSlot == <<Sub("b[0]")>>

GlobPaths == Reached({X(BZero), X(BSlot)}, {})
GlobBatches == One({ <<Put(X(BZero)), Put(X(BSlot))>> })
GlobDels == One({})
GlobTrees == One({BSlot})
=============================================================================
