------------------------------ MODULE MCIpv6Intf ------------------------------
(* Ipv6Intf with two ports. *)
EXTENDS Ipv6Intf

CONSTANTS p1, p2, g1, g2, g3, l1, l2, l3, auto1, auto2

MCAuto == (p1 :> auto1) @@ (p2 :> auto2)

On(i, ip, link) == [intf |-> i, ip |-> ip, link |-> link, admin |-> "UP"]

\* Ports that change between the calls, and a pool with an address to spare.
Calm ==
  [config |-> {On(p1, g1, FALSE), On(p1, g1, TRUE), On(p1, None, TRUE), On(p1, g2, TRUE),
               On(p2, g3, TRUE)},
   pool |-> {l1, l2, l3}, disabled |-> {}, calm |-> TRUE, restarts |-> 0]

\* Both ports ask for the same addresses, ports change and the process dies in
\* the middle of calls.
Stormy ==
  [config |-> {On(p1, g1, TRUE), [On(p1, g1, TRUE) EXCEPT !.admin = "DOWN"], On(p2, g1, TRUE),
              On(p2, None, TRUE)},
   pool |-> {l1, l2}, disabled |-> {p2}, calm |-> FALSE, restarts |-> 1]

MCScenes == {Calm, Stormy}
=============================================================================
