----------------------------- MODULE MCL3System -----------------------------
(* L3System with a single client, which owns every address.                *)
EXTENDS L3System

CONSTANT arpd

MCOwner == [ip \in NextHop |-> arpd]
=============================================================================
