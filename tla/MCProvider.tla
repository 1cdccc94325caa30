----------------------------- MODULE MCProvider -----------------------------
(* The instances of Provider that TLC checks.                              *)
EXTENDS Provider, TLC

\* Threads are interchangeable, and so are addresses; names are ordered.
Symmetry == Permutations(ULTs) \cup Permutations(Addrs)
=============================================================================
