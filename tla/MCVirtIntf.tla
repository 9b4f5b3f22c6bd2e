----------------------------- MODULE MCVirtIntf -----------------------------
(* VirtIntf with two addresses that overlap and one that overlaps neither; two *)
(* clients create sub-interfaces and one of them deletes and updates.          *)
EXTENDS VirtIntf

CONSTANTS ip1, ip2, ip3, p1, q1

MCMaxId == [t \in IfType |-> IF t = "Loopback" THEN 2 ELSE 1]
MCOverlaps == {<<i, i>> : i \in Ip} \cup {<<ip1, ip2>>, <<ip2, ip1>>}
Sub(i, k, p) == [ip |-> i, kind |-> k, parent |-> p, enable |-> TRUE]
MCSubCfg == {Sub(ip1, "Secondary", p1), Sub(ip2, "Virtual", p1), Sub(ip3, "Virtual", q1)}
=============================================================================
