---------------------------- MODULE NextHopPool ----------------------------
(***************************************************************************)
(* The next hop manager under clients that release only what they hold:    *)
(* routes (RT_NBR_CREATE, groups) and the neighbour manager (NBR_CREATE).  *)
(* routeUses, nbrUses and groupUses record what the clients hold; they are *)
(* the yardstick the reference counts are measured against.                *)
(***************************************************************************)
EXTENDS NextHopMgr

CONSTANTS
  MaxRoutes,        \* bound on routes per next hop
  MaxGroupRoutes,   \* bound on routes per group
  MaxCounted        \* bound on over-counted references per next hop

ASSUME BoundsAssumption ==
  MaxRoutes \in Nat /\ MaxGroupRoutes \in Nat /\ MaxCounted \in Nat

VARIABLES
  routeUses,        \* routes whose single next hop is ip
  nbrUses,          \* neighbours known to the neighbour manager
  groupUses,        \* routes that forward to group g
  counted           \* references an NBR_CREATE took beyond the neighbour's own

clientVars == <<routeUses, nbrUses, groupUses, counted>>
poolVars == <<nhMgrVars, clientVars>>

PoolTypeOK ==
  /\ NHMgrTypeOK
  /\ routeUses \in [NextHop -> Nat]
  /\ nbrUses \subseteq NextHop
  /\ groupUses \in [Group -> Nat]
  /\ counted \in [NextHop -> Nat]

PoolInit ==
  /\ NHMgrInit
  /\ routeUses = [ip \in NextHop |-> 0]
  /\ nbrUses = {}
  /\ groupUses = [g \in Group |-> 0]
  /\ counted = [ip \in NextHop |-> 0]

-----------------------------------------------------------------------------
\* A route with a single next hop is created (CreateIPRouteHdlr).
RouteTakes(ip) ==
  /\ routeUses[ip] < MaxRoutes
  /\ CreateNextHop(ip, "RT_NBR_CREATE")
  /\ routeUses' = [routeUses EXCEPT ![ip] = @ + 1]
  /\ UNCHANGED <<nbrUses, groupUses, counted>>

\* The last next hop of a route without a group is deleted.
RouteReleases(ip) ==
  /\ routeUses[ip] > 0
  /\ DeleteNextHop(ip, {})
  /\ routeUses' = [routeUses EXCEPT ![ip] = @ - 1]
  /\ UNCHANGED <<nbrUses, groupUses, counted>>

\* A neighbour the manager does not know is created (CreateIPNeighbor).  On a
\* next hop that exists, one of the two references it takes has no release.
NeighborTakes(ip) ==
  /\ ip \notin nbrUses
  /\ counted[ip] < MaxCounted
  /\ CreateNextHop(ip, "NBR_CREATE")
  /\ nbrUses' = nbrUses \cup {ip}
  /\ counted' = [counted EXCEPT ![ip] =
                   IF ip \in nextHopDB THEN @ + ReferencesTaken("NBR_CREATE") - 1
                                       ELSE @]
  /\ UNCHANGED <<routeUses, groupUses>>

NeighborReleases(ip) ==
  /\ ip \in nbrUses
  /\ DeleteNextHop(ip, {})
  /\ nbrUses' = IF DeleteNextHopFails(ip, {}) THEN nbrUses ELSE nbrUses \ {ip}
  /\ UNCHANGED <<routeUses, groupUses, counted>>

\* A route turns multipath: it takes the group of its next hops and drops its
\* reference on the one next hop it had.
RouteTurnsMultipath(ip, g) ==
  /\ routeUses[ip] > 0
  /\ ip \in g
  /\ Cardinality(g) > 1
  /\ groupUses[g] < MaxGroupRoutes
  /\ CreateNextHopGroup(g)
  /\ groupUses' = [groupUses EXCEPT ![g] = @ + 1]
  /\ UNCHANGED <<routeUses, nbrUses, counted>>

GroupReleases(g) ==
  /\ groupUses[g] > 0
  /\ DeleteNextHopGroup(g, {}, {})
  /\ groupUses' = [groupUses EXCEPT ![g] = @ - 1]
  /\ UNCHANGED <<routeUses, nbrUses, counted>>

\* The set of next hops of a multipath route changes.  A shared group is given
\* up at once; a last reference on g stays with the route, which releases it
\* in a GroupReleases step of its own once the ASIC route points to new.
RouteMovesGroup(g, new) ==
  /\ g # new
  /\ groupUses[g] > 0
  /\ groupUses[new] < MaxGroupRoutes
  /\ UpdateNextHopGroup(g, new)
  /\ groupUses' = [groupUses EXCEPT ![g] = IF @ > 1 THEN @ - 1 ELSE @,
                                    ![new] = @ + 1]
  /\ UNCHANGED <<routeUses, nbrUses, counted>>

PoolNext ==
  \/ \E ip \in NextHop : \/ RouteTakes(ip)
                         \/ RouteReleases(ip)
                         \/ NeighborTakes(ip)
                         \/ NeighborReleases(ip)
                         \/ \E g \in Group : RouteTurnsMultipath(ip, g)
  \/ \E g \in Group : \/ GroupReleases(g)
                      \/ \E new \in Group : RouteMovesGroup(g, new)

PoolSpec == PoolInit /\ [][PoolNext]_poolVars

-----------------------------------------------------------------------------
(***************************************************************************)
(* Properties                                                              *)
(***************************************************************************)
GroupsOf(ip, groups) == {g \in groups : ip \in g}

Users(ip) == routeUses[ip] + (IF ip \in nbrUses THEN 1 ELSE 0)
             + Cardinality(GroupsOf(ip, ipNextHopGroupDB))

\* The count of a next hop is exactly its users plus what neighbour creates
\* over-counted, and a group's count is exactly its users: no path of the
\* manager loses or invents a reference (CreateNextHop, DeleteNextHop, the
\* group operations and the sharing of groups among them).
CountsExact ==
  /\ \A ip \in NextHop : refCount[ip] = Users(ip) + counted[ip]
  /\ \A g \in Group : grpRefCount[g] = groupUses[g]

\* An entry exists exactly while its count is positive: in particular the
\* ASIC never refuses a removal, which would leave an entry with count zero
\* that the next release drives negative.
EntriesCounted ==
  /\ \A ip \in NextHop : ip \in nextHopDB <=> refCount[ip] > 0
  /\ \A g \in Group : g \in ipNextHopGroupDB <=> grpRefCount[g] > 0

\* The tables describe the ASIC: every entry has its object and no object is
\* without an entry (the caches are updated in the same call as the ASIC).
TablesMatchHw == hwNextHop = nextHopDB /\ hwGroup = ipNextHopGroupDB

\* An ASIC group never has a member whose next hop object is gone.
GroupMembersInHw == \A g \in hwGroup : g \subseteq hwNextHop

\* A step removes a next hop from the ASIC only when nobody uses it after the
\* step, and a group only when no route does ("Delete nexthop if refcount
\* reaches 0", nexthopMgr.go:203).
RemovedOnlyUnused ==
  [][/\ \A ip \in hwNextHop \ hwNextHop' : Users(ip)' = 0
     /\ \A g \in hwGroup \ hwGroup' : groupUses'[g] = 0]_poolVars
=============================================================================
