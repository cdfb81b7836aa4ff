------------------------------ MODULE KVPaths ------------------------------
(***************************************************************************)
(* The path algebra of kvspace.  A path of the code is a string:           *)
(*                                                                         *)
(*    "/"        the root directory                                        *)
(*    "/a/b/"    the key of a directory, which holds its index             *)
(*    "/a/b"     the key of a file in directory "/a/"                      *)
(*                                                                         *)
(* A directory's index names its children the way they are spelled in      *)
(* their key: "b" for the file, "b/" for the directory, and the two may    *)
(* coexist.  Here a child is the pair of its name and whether it is a      *)
(* directory, and a path is the sequence of children that leads to it, so  *)
(* that JoinPath appends, the parent drops the last child, and the string  *)
(* prefix test HasPrefix(path, dir) is IsPrefix.  Names hold neither "/"   *)
(* nor "." (member directories "a." are outside this module).              *)
(***************************************************************************)
EXTENDS Integers, SequencesExt

CONSTANTS Names,   \* the names of files and directories
          Paths,   \* the paths some client uses, with their ancestors
          NoPath   \* no path at all, as an operator's result

Child == [name: Names, dir: BOOLEAN]

Root == << >>

\* The path of the first n children of p.
Ancestor(p, n) == SubSeq(p, 1, n)

\* Every path below the last child runs through directories, and Paths has
\* the ancestors of its members: what validateAbsolutePath accepts, and what
\* is reached by walking up from it.
PathsAssumption ==
    /\ Paths \subseteq Seq(Child)
    /\ Root \in Paths
    /\ NoPath \notin Paths
    /\ \A p \in Paths : \A n \in 0 .. Len(p) : Ancestor(p, n) \in Paths
    /\ \A p \in Paths : \A i \in 1 .. Len(p) - 1 : p[i].dir

ASSUME PathsAssumption

IsDir(p) == IF p = Root THEN TRUE ELSE p[Len(p)].dir

Dirs == {p \in Paths : IsDir(p)}

\* parentName: the directory that lists p; the root is its own parent.
Parent(p) == IF p = Root THEN Root ELSE Ancestor(p, Len(p) - 1)

\* indexChild: the name under which the parent of p lists it.
ChildName(p) == Last(p)

\* strings.HasPrefix(path, dir): path is dir or lies below it.
Under(p, dir) == IsPrefix(dir, p)

\* strings.TrimPrefix(path, dir), for a path under dir.
Relative(p, dir) == SubSeq(p, Len(dir) + 1, Len(p))

\* prefix + PathSep: the directory with the name of file p.
AsDir(p) == [p EXCEPT ![Len(p)].dir = TRUE]

\* The directory whose ancestors extFallbackPath searches for an overlay.
DirOf(p) == IF IsDir(p) THEN p ELSE Parent(p)
=============================================================================
