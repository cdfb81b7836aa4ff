------------------------------ MODULE KVValues -----------------------------
(***************************************************************************)
(* The values that the backends store under the paths of KVPaths, and the  *)
(* contents of a store: a function from paths to values.                   *)
(*                                                                         *)
(* Of a value the model keeps what the code of the backends looks at: its  *)
(* kind, the children that a directory's index names, and the path that an *)
(* overlay reads or a link names.  Plain data are one kind, "data".  The   *)
(* order of the children of an index is left out.                          *)
(***************************************************************************)
EXTENDS KVPaths

Kinds == {"absent", "data", "ptr", "index", "extindex"}

\* A stored value: its kind, a directory's children, and the path that an
\* overlay reads or a link names.
Value == [kind: Kinds, kids: SUBSET Child, ext: Paths \cup {NoPath}]

Plain(kind) == [kind |-> kind, kids |-> {}, ext |-> NoPath]
Absent == Plain("absent")
IndexOf(kids) == [kind |-> "index", kids |-> kids, ext |-> NoPath]
ExtIndexOf(kids, target) == [kind |-> "extindex", kids |-> kids, ext |-> target]

Link(target) == [kind |-> "ptr", kids |-> {}, ext |-> target]

DirKinds == {"index", "extindex"}

\* The overlay target of a value.
Target(v) == IF v.kind = "extindex" THEN v.ext ELSE NoPath

\* A key outside Paths is one that no client writes.
ValueAt(t, p) == IF p \in Paths THEN t[p] ELSE Absent
Present(t, p) == ValueAt(t, p).kind # "absent"
Keys(t) == {p \in Paths : Present(t, p)}

Without(t, S) == [p \in Paths |-> IF p \in S THEN Absent ELSE t[p]]
============================================================================
