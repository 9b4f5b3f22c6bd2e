-------------------------- MODULE MCNeighborSystem --------------------------
(* NeighborSystem with one address per client and interchangeable ports.   *)
EXTENDS NeighborSystem

CONSTANTS arp4, ndp6, arpd, ndpd, m1, m2

MCOwner == (arp4 :> arpd) @@ (ndp6 :> ndpd)
MovingMac == (arp4 :> {m1, m2}) @@ (ndp6 :> {m1})
Symmetry == Permutations(Port)
=============================================================================
