--------------------------- MODULE NeighborSystem ---------------------------
(***************************************************************************)
(* The neighbour manager, the MAC table and the next hop manager together: *)
(* thrift clients and the FDB callback thread interleave, and routes take  *)
(* and give back references on the same next hops.                         *)
(***************************************************************************)
EXTENDS NeighborMgr

CONSTANTS
  MacsOf,         \* the MACs the clients may report for each address
  Seen,           \* the MACs that FDB callbacks come for
  Routed,         \* the addresses that routes use as next hops
  MaxListed,      \* bound on the addresses listed for a MAC
  MaxRef          \* no neighbour is created while a next hop counts more

ASSUME MacsOfAssumption == MacsOf \in [NextHop -> SUBSET Mac]
ASSUME SeenAssumption == Seen \subseteq Mac
ASSUME RoutedAssumption == Routed \subseteq NextHop
ASSUME MaxAssumption == MaxListed \in Nat /\ MaxRef \in Nat

VARIABLE routeHolds   \* the next hops a route holds a reference on

vars == <<nhMgrVars, nbrMgrVars, routeHolds>>

Init == NHMgrInit /\ NbrMgrInit /\ routeHolds = {}

Calls ==
  \E ip \in NextHop : \E mac \in MacsOf[ip] :
    \/ /\ Len(xref[mac]) < MaxListed
       /\ refCount[ip] <= MaxRef
       /\ CreateIPNeighbor(ip, mac)
    \/ UpdateIPNeighbor(ip, mac)
    \/ DeleteIPNeighbor(ip)

Callbacks ==
  \E mac \in Seen : MacAged(mac) \/ \E port \in Port : MacLearned(mac, port)

Steps ==
  \/ \E t \in Thread : \/ HwCreate(t) \/ TakeNextHop(t) \/ StoreNew(t) \/ Link(t)
                       \/ UpdNextHop(t) \/ HwUpdate(t) \/ StoreUpdated(t)
                       \/ HwDelete(t) \/ DropNextHop(t, {}) \/ Forget(t)
                       \/ Unlist(t) \/ DropAdj(t) \/ Unlink(t) \/ Unkey(t)
  \/ ReadList
  \/ AgedEntry
  \/ MoveNext
  \/ MoveDone

RouteTakes(ip) ==
  /\ ip \notin routeHolds
  /\ CreateNextHop(ip, "RT_NBR_CREATE")
  /\ routeHolds' = routeHolds \cup {ip}
  /\ UNCHANGED nbrMgrVars

RouteReleases(ip) ==
  /\ ip \in routeHolds
  /\ DeleteNextHop(ip, {})
  /\ routeHolds' = routeHolds \ {ip}
  /\ UNCHANGED nbrMgrVars

\* A panic ends the process.
Next == /\ ~panicked
        /\ \/ (Calls \/ Callbacks \/ Steps) /\ UNCHANGED routeHolds
           \/ \E ip \in Routed : RouteTakes(ip) \/ RouteReleases(ip)

Spec == Init /\ [][Next]_vars

-----------------------------------------------------------------------------
(***************************************************************************)
(* Properties                                                              *)
(***************************************************************************)
WorkedOn(ip) == \E t \in Thread : at[t] \notin {"idle", "move"} /\ job[t].ip = ip

\* An address with a neighbour entry in the ASIC and no call in progress on it
\* is in the database and has a next hop in the ASIC: neither the callbacks nor
\* the routes that share the next hop can take it away.
HwNeighborsHeld ==
  \A ip \in NextHop : hwNbr[ip] # None /\ ~WorkedOn(ip) =>
    nbrDB[ip] # None /\ ip \in nextHopDB /\ ip \in hwNextHop

\* The client is past taking the address out of the database.
BeingForgotten(ip) ==
  LET c == Owner[ip] IN at[c] \in {"unlist", "dropAdj", "unlink", "unkey"} /\ job[c].ip = ip

\* The key list, which GetBulk walks, lists every neighbour of the ASIC that no
\* call is at work on, none twice, and none that is gone: creates and deletes
\* change it one table after the other while MAC moves store neighbours again,
\* and a neighbour stored again after its delete must not leave a second key.
KeysExact ==
  /\ IsInjective(nbrKeys)
  /\ \A i \in DOMAIN nbrKeys : nbrDB[nbrKeys[i]] # None \/ BeingForgotten(nbrKeys[i])
  /\ \A ip \in NextHop : hwNbr[ip] # None /\ ~WorkedOn(ip) => ip \in Range(nbrKeys)
=============================================================================
