--------------------------- MODULE MCRouteSystem ---------------------------
(***************************************************************************)
(* RouteSystem on small instances: in each behaviour clients create and    *)
(* delete routes of one set of Announced only.  No symmetry, liveness is   *)
(* checked.                                                                *)
(***************************************************************************)
EXTENDS RouteSystem

CONSTANTS p1, p2, n1, n2, n3

VARIABLE announced

\* Two prefixes share next hops and groups; one goes through groups of three.
Announced == {{p1, p2} \X {n1, n2}, {p1} \X {n1, n2, n3}}

Allowed(op) == <<op.prefix, op.nh>> \in announced

MCInit == Init /\ announced \in Announced

MCNext == /\ Next
          /\ \A i \in DOMAIN routeOpChannel' : Allowed(routeOpChannel'[i])
          /\ UNCHANGED announced

MCSpec == MCInit /\ [][MCNext]_<<vars, announced>> /\ Fairness
=============================================================================
