----------------------------- MODULE MCLagSystem -----------------------------
(* LagSystem on a small instance; no symmetry, a liveness property is checked. *)
EXTENDS LagSystem

MCMaxLags == [s \in Schedule |-> IF s = "serial" THEN 2 ELSE 1]
=============================================================================
