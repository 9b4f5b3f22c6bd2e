------------------------------ MODULE L3System ------------------------------
(***************************************************************************)
(* Routes and neighbours together: the route goroutine with the plugins'   *)
(* route servers, and the neighbour manager with its thrift clients and    *)
(* the FDB callback, share the next hop manager and the ASIC.  A next hop  *)
(* the neighbour manager releases may still be the target of a route whose *)
(* removal is queued: the route handler does not wait for the ASIC when    *)
(* somebody else holds a reference.                                        *)
(***************************************************************************)
EXTENDS RouteSystem, NeighborMgr

CONSTANTS
  Attached,       \* the next hops that become neighbours
  MaxListed,      \* bound on the addresses listed for a MAC
  MaxRef          \* no neighbour is created while a next hop counts more

ASSUME AttachedAssumption == Attached \subseteq NextHop
ASSUME MaxAssumption == MaxListed \in Nat /\ MaxRef \in Nat

l3Vars == <<nhMgrVars, routeVars, nbrMgrVars>>

L3Init == Init /\ NbrMgrInit

Neighbors ==
  \/ \E ip \in Attached, mac \in Mac :
       \/ /\ Len(xref[mac]) < MaxListed
          /\ refCount[ip] <= MaxRef
          /\ CreateIPNeighbor(ip, mac)
       \/ UpdateIPNeighbor(ip, mac)
       \/ DeleteIPNeighbor(ip)
  \/ \E mac \in Mac : MacAged(mac) \/ \E port \in Port : MacLearned(mac, port)
  \/ \E t \in Thread : \/ HwCreate(t) \/ TakeNextHop(t) \/ StoreNew(t) \/ Link(t)
                       \/ UpdNextHop(t) \/ HwUpdate(t) \/ StoreUpdated(t)
                       \/ HwDelete(t) \/ DropNextHop(t, BusyNextHops) \/ Forget(t)
                       \/ Unlist(t) \/ DropAdj(t) \/ Unlink(t) \/ Unkey(t)
  \/ ReadList
  \/ AgedEntry
  \/ MoveNext
  \/ MoveDone

\* A panic ends the process.
L3Next == /\ ~panicked
          /\ \/ Neighbors /\ UNCHANGED routeVars
             \/ Next /\ UNCHANGED nbrMgrVars

L3Spec == L3Init /\ [][L3Next]_l3Vars

-----------------------------------------------------------------------------
Held(p) == {nh \in nextHopMap[p] : Ordinary(nh)}

\* Whatever neighbours come and go, the next hops of a route of the database
\* are in the next hop table and in the ASIC, and so is its group.
RoutesHoldTheirNextHops ==
  pc = "idle" => \A p \in ipRouteDB :
    /\ Held(p) \subseteq nextHopDB \cap hwNextHop
    /\ ecmpGrpId[p] # NoGroup => ecmpGrpId[p] \in hwGroup

\* Once the queues are drained the ASIC and the kernel have the routes of the
\* database, also when the neighbour manager released next hops while routes
\* were queued.
PluginsAgree ==
  pc = "idle" =>
    /\ asicCh = <<>> => \A p \in Prefix : hwRoute[p].nhs = nextHopMap[p]
    /\ "linux" \in Plugins /\ linuxCh = <<>> =>
         \A p \in Prefix : kernelRoute[p] = nextHopMap[p] \ Connected

\* "Determine nh ref count/nhGroup ref count to determine if we have to block
\* on route del call" (routeMgr.go:520): the ASIC refuses no removal, which
\* would leave an entry with count zero.
NoRefusedRemoval == \A ip \in nextHopDB : refCount[ip] > 0
=============================================================================
