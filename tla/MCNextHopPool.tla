--------------------------- MODULE MCNextHopPool ---------------------------
(* NextHopPool with interchangeable next hops.                             *)
EXTENDS NextHopPool, TLC

Symmetry == Permutations(NextHop)
=============================================================================
