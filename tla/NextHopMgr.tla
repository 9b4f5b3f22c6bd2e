----------------------------- MODULE NextHopMgr -----------------------------
(***************************************************************************)
(* The next hop manager of asicd (src/pluginManager/nexthopMgr.go with the *)
(* per-family objects of ipv4Mgr.go and ipv6Mgr.go): the reference counted *)
(* table of next hops, the reference counted table of ECMP groups, and the *)
(* objects both own in the ASIC.                                           *)
(*                                                                         *)
(* This module is the state and one action per exported operation; it has  *)
(* no behaviour of its own.  NextHopPool runs it under disciplined         *)
(* clients, RouteMgr under the route goroutine, L3System under route and   *)
(* neighbour goroutines together.                                          *)
(*                                                                         *)
(* Abstractions.  A next hop is named by its IP address: the table holds   *)
(* at most one entry, hence one ASIC object, per address.  A group is      *)
(* named by its member set: CreateNextHopGroup never makes a second group  *)
(* with the members of an existing one.  One driver, the ASIC one, answers *)
(* the calls (the soft switch answers 0 to all of them).                   *)
(*                                                                         *)
(* The ASIC accepts every creation.  A creation it rejects is outside this *)
(* model: its status comes back as an unsigned id, so no caller sees it,   *)
(* and the entry is stored under an id that names no object (whatever the  *)
(* variable held for a next hop, saiL3.c:276, the one invalid id for every *)
(* group, saiL3.c:309), which a later removal is then refused for.         *)
(***************************************************************************)
EXTENDS Integers, FiniteSets

CONSTANT NextHop          \* the next hop IP addresses

ASSUME NextHopAssumption == IsFiniteSet(NextHop)

Group == (SUBSET NextHop) \ {{}}

\* The operation types a caller can put in PluginIPNeighborInfo.
Operation == {"RT_NBR_CREATE", "NBR_CREATE", "NH_GROUP_CREATE"}

VARIABLES
  nextHopDB,         \* keys of ipv4NextHopDB and ipv6NextHopDB
  refCount,          \* refCount of each entry, 0 where there is none
  ipNextHopGroupDB,  \* keys of ipNextHopGroupDB
  grpRefCount,       \* refCount of each group, 0 where there is none
  hwNextHop,         \* next hop objects that exist in the ASIC
  hwGroup            \* group objects that exist in the ASIC

nhVars == <<nextHopDB, refCount>>
grpVars == <<ipNextHopGroupDB, grpRefCount>>
nhMgrVars == <<nextHopDB, refCount, ipNextHopGroupDB, grpRefCount,
               hwNextHop, hwGroup>>

NHMgrTypeOK ==
  /\ nextHopDB \subseteq NextHop
  /\ refCount \in [NextHop -> Int]
  /\ ipNextHopGroupDB \subseteq Group
  /\ grpRefCount \in [Group -> Int]
  /\ hwNextHop \subseteq NextHop
  /\ hwGroup \subseteq Group

NHMgrInit ==
  /\ nextHopDB = {}
  /\ refCount = [ip \in NextHop |-> 0]
  /\ ipNextHopGroupDB = {}
  /\ grpRefCount = [g \in Group |-> 0]
  /\ hwNextHop = {}
  /\ hwGroup = {}

-----------------------------------------------------------------------------
(***************************************************************************)
(* The ASIC refuses to remove an object that is still referenced: a next   *)
(* hop by a group or a route, a group by a route.  Callers pass the next   *)
(* hops and groups that routes in the ASIC use.                            *)
(***************************************************************************)
NextHopInUse(ip, groups, busy) == ip \in busy \/ \E g \in groups : ip \in g

\* NextHopExists counts one reference for every create-like operation; a
\* neighbour create then calls UpdateNextHop, whose NextHopExists counts again.
\* (Mutants: neighbours count nothing; routes count nothing.)
ReferencesTakenByRoutes(op) == IF op = "NBR_CREATE" THEN 0 ELSE 1
ReferencesTakenByNeighbors(op) == IF op = "NBR_CREATE" THEN 2 ELSE 0

ReferencesTaken(op) == IF op = "NBR_CREATE" THEN 2 ELSE 1

(***************************************************************************)
(* CreateNextHop counts one more use of an entry, or stores a new one.     *)
(***************************************************************************)
CreateNextHop(ip, op) ==
  /\ nextHopDB' = nextHopDB \cup {ip}
  /\ refCount' = [refCount EXCEPT ![ip] =
                    IF ip \in nextHopDB THEN @ + ReferencesTaken(op) ELSE 1]
  /\ hwNextHop' = IF ip \in nextHopDB THEN hwNextHop ELSE hwNextHop \cup {ip}
  /\ UNCHANGED <<ipNextHopGroupDB, grpRefCount, hwGroup>>

(***************************************************************************)
(* DeleteNextHop.  The count is decremented before the ASIC is asked; when *)
(* the ASIC refuses, the entry stays with the decremented count.           *)
(***************************************************************************)
\* (Mutants: the count is compared one off; it is not looked at.)
DropsNextHopAtZero(ip, groups, busy) ==
  ip \in nextHopDB /\ refCount[ip] = 0 /\ ~NextHopInUse(ip, groups, busy)

DropsNextHopAlways(ip, groups, busy) ==
  ip \in nextHopDB /\ ~NextHopInUse(ip, groups, busy)

DropsNextHop(ip, groups, busy) ==
  /\ ip \in nextHopDB
  /\ refCount[ip] = 1
  /\ ~NextHopInUse(ip, groups, busy)

DeleteNextHop(ip, busy) ==
  /\ IF DropsNextHop(ip, hwGroup, busy)
     THEN /\ nextHopDB' = nextHopDB \ {ip}
          /\ hwNextHop' = hwNextHop \ {ip}
     ELSE UNCHANGED <<nextHopDB, hwNextHop>>
  /\ refCount' = [refCount EXCEPT ![ip] = IF ip \in nextHopDB THEN @ - 1 ELSE @]
  /\ UNCHANGED <<ipNextHopGroupDB, grpRefCount, hwGroup>>

\* What DeleteNextHop returns: no entry, or the ASIC refused.
DeleteNextHopFails(ip, busy) ==
  \/ ip \notin nextHopDB
  \/ refCount[ip] = 1 /\ NextHopInUse(ip, hwGroup, busy)

(***************************************************************************)
(* CreateNextHopGroup shares the group with exactly these members, else    *)
(* takes a reference on every member (creating those that are missing) and *)
(* creates the group in the ASIC.                                          *)
(***************************************************************************)
ShareGroup(g) ==
  /\ g \in ipNextHopGroupDB
  /\ grpRefCount' = [grpRefCount EXCEPT ![g] = @ + 1]
  /\ UNCHANGED <<nextHopDB, refCount, ipNextHopGroupDB, hwNextHop, hwGroup>>

\* (Mutants: members that exist are not counted; the ASIC is not called.)
TakeMembersMissingOnly(g) ==
  /\ nextHopDB' = nextHopDB \cup g
  /\ refCount' = [ip \in NextHop |-> IF ip \in g \ nextHopDB THEN 1 ELSE refCount[ip]]
  /\ hwNextHop' = hwNextHop \cup (g \ nextHopDB)

TakeMembersUnprogrammed(g) ==
  /\ nextHopDB' = nextHopDB \cup g
  /\ refCount' = [ip \in NextHop |->
                    IF ip \notin g THEN refCount[ip]
                    ELSE IF ip \in nextHopDB THEN refCount[ip] + 1 ELSE 1]
  /\ UNCHANGED hwNextHop

TakeMembers(g) ==
  /\ nextHopDB' = nextHopDB \cup g
  /\ refCount' = [ip \in NextHop |->
                    IF ip \notin g THEN refCount[ip]
                    ELSE IF ip \in nextHopDB THEN refCount[ip] + 1 ELSE 1]
  /\ hwNextHop' = hwNextHop \cup (g \ nextHopDB)

NewGroup(g) ==
  /\ g \notin ipNextHopGroupDB
  /\ TakeMembers(g)
  /\ ipNextHopGroupDB' = ipNextHopGroupDB \cup {g}
  /\ grpRefCount' = [grpRefCount EXCEPT ![g] = 1]
  /\ hwGroup' = hwGroup \cup {g}

CreateNextHopGroup(g) == ShareGroup(g) \/ NewGroup(g)

(***************************************************************************)
(* DeleteNextHopGroup.  At count zero the ASIC group goes first, then one  *)
(* reference on every member (errors are only logged), then the entry.     *)
(***************************************************************************)
ReleaseMembers(g, busy) ==
  LET gone == {ip \in g : DropsNextHop(ip, hwGroup \ {g}, busy)}
  IN /\ nextHopDB' = nextHopDB \ gone
     /\ hwNextHop' = hwNextHop \ gone
     /\ refCount' = [ip \in NextHop |->
                       IF ip \in g \cap nextHopDB THEN refCount[ip] - 1
                       ELSE refCount[ip]]

DeleteNextHopGroup(g, busyNextHops, busyGroups) ==
  IF /\ g \in ipNextHopGroupDB
     /\ grpRefCount[g] = 1
     /\ g \notin busyGroups
  THEN /\ ReleaseMembers(g, busyNextHops)
       /\ ipNextHopGroupDB' = ipNextHopGroupDB \ {g}
       /\ grpRefCount' = [grpRefCount EXCEPT ![g] = 0]
       /\ hwGroup' = hwGroup \ {g}
  ELSE /\ grpRefCount' = [grpRefCount EXCEPT ![g] =
                            IF g \in ipNextHopGroupDB THEN @ - 1 ELSE @]
       /\ UNCHANGED <<nextHopDB, refCount, ipNextHopGroupDB, hwNextHop, hwGroup>>

\* What DeleteNextHopGroup returns: no entry, or the ASIC refused.
DeleteNextHopGroupFails(g, busyGroups) ==
  \/ g \notin ipNextHopGroupDB
  \/ grpRefCount[g] = 1 /\ g \in busyGroups

(***************************************************************************)
(* UpdateNextHopGroup replaces group g by the group new.  It gives up the  *)
(* caller's reference on g only when others hold g too; a last reference   *)
(* stays for the caller to delete "after route is updated".                *)
(***************************************************************************)
UpdateNextHopGroup(g, new) ==
  LET kept == IF grpRefCount[g] > 1 THEN [grpRefCount EXCEPT ![g] = @ - 1]
                                    ELSE grpRefCount
  IN /\ g \in ipNextHopGroupDB
     /\ IF new \in ipNextHopGroupDB
        THEN /\ grpRefCount' = [kept EXCEPT ![new] = @ + 1]
             /\ UNCHANGED <<nextHopDB, refCount, ipNextHopGroupDB,
                            hwNextHop, hwGroup>>
        ELSE /\ TakeMembers(new)
             /\ ipNextHopGroupDB' = ipNextHopGroupDB \cup {new}
             /\ grpRefCount' = [kept EXCEPT ![new] = 1]
             /\ hwGroup' = hwGroup \cup {new}
=============================================================================
