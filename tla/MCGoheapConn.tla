---------------------------- MODULE MCGoheapConn ----------------------------
(***************************************************************************)
(* Instances of GoheapConn: the goroutines are interchangeable, and so are *)
(* the connections, until liveness is asked for.                           *)
(***************************************************************************)
EXTENDS GoheapConn, TLC

Symmetry == Permutations(Threads) \cup Permutations(Backends)
=============================================================================
