---------------------------- MODULE MCIntfSystem ----------------------------
(* IntfSystem with interchangeable ports and link handlers.                *)
EXTENDS IntfSystem, TLC

Symmetry == Permutations(Port) \cup Permutations(Handler)
=============================================================================
