---------------------------- MODULE RouteSystem ----------------------------
(***************************************************************************)
(* The route manager, the next hop manager and the plugins' route servers  *)
(* running together, with nobody else using the next hop manager.          *)
(***************************************************************************)
EXTENDS RouteMgr

CONSTANT MaxEcmpCnt   \* no create is queued while ecmpRouteCnt is above this

ASSUME MaxEcmpCntAssumption == MaxEcmpCnt \in Nat

vars == <<nhMgrVars, routeVars>>

Init == NHMgrInit /\ RouteInit

Handler == \/ TakeNoOp \/ TakeAddFirst \/ TakeAddSecond \/ DropSingle
           \/ TakeAddMore \/ Program
           \/ TakeDel \/ WaitDel \/ ReleaseLast \/ ReplaceGroup \/ WaitUpd

Next == \/ \E p \in Prefix, nh \in NextHop :
             \/ ecmpRouteCnt <= MaxEcmpCnt /\ CreateIPRoute(p, nh)
             \/ DeleteIPRoute(p, nh)
        \/ Handler
        \/ AsicServer
        \/ LinuxServer
        \/ KeyServer

\* The goroutines are scheduled; nothing makes a thrift client call.
Fairness == /\ WF_vars(Handler) /\ WF_vars(AsicServer)
            /\ WF_vars(LinuxServer) /\ WF_vars(KeyServer)

Spec == Init /\ [][Next]_vars
FairSpec == Spec /\ Fairness

-----------------------------------------------------------------------------
Idle == pc = "idle"

\* Every object an ASIC route uses, or a queued route message is going to use,
\* exists in the ASIC: the handler never lets go of a next hop or a group
\* before the route server has stopped needing it ("Determine nh ref
\* count/nhGroup ref count to determine if we have to block on route del
\* call", routeMgr.go:520).
NoDanglingRoute ==
  /\ \A p \in Prefix : Exists(hwRoute[p])
  /\ \A i \in DOMAIN asicCh : Exists(asicCh[i].target)

SingleUsers(ip) == {p \in ipRouteDB : ecmpGrpId[p] = NoGroup /\ nextHopMap[p] = {ip}}
GroupUsers(g) == {p \in ipRouteDB : ecmpGrpId[p] = g}
Memberships(ip) == {g \in ipNextHopGroupDB : ip \in g}

\* Between operations the count of a next hop is exactly the routes that have
\* it as their only next hop plus the groups it is in, and no group counts
\* fewer references than the routes that use it.
RouteCountsExact ==
  Idle => /\ \A ip \in NextHop : refCount[ip] =
               Cardinality(SingleUsers(ip)) + Cardinality(Memberships(ip))
          /\ \A g \in Group : grpRefCount[g] >= Cardinality(GroupUsers(g))

\* The group a route of the database refers to is in the group table:
\* UpdateNextHopGroup reads its count without checking (nexthopMgr.go:425).
RouteGroupsKnown ==
  \A p \in ipRouteDB : ecmpGrpId[p] # NoGroup => ecmpGrpId[p] \in ipNextHopGroupDB

\* Once its queue is drained the ASIC has, for every prefix, exactly the next
\* hops of the route database.
AsicAgrees ==
  Idle /\ asicCh = <<>> => \A p \in Prefix : hwRoute[p].nhs = nextHopMap[p]

\* Once its queue is drained the kernel has, for every prefix, the next hops of
\* the route database that are not connected routes, although the messages the
\* soft switch gets for a multipath route name one next hop at a time.
KernelAgrees ==
  Idle /\ linuxCh = <<>> =>
    \A p \in Prefix : kernelRoute[p] = nextHopMap[p] \ Connected

\* Once the key goroutine has caught up GetBulk walks every prefix of the
\* database exactly once.
KeysMatchDb ==
  (Idle /\ ipPrefixStateUpdCh = <<>>) =>
    /\ {ipRouteDBKeys[i] : i \in DOMAIN ipRouteDBKeys} = ipRouteDB
    /\ Len(ipRouteDBKeys) = Cardinality(ipRouteDB)

\* GetNumV4Routes and GetNumV6Routes count the (prefix, next hop) pairs.
RouteCountExact ==
  Idle => routeCnt = Cardinality({pn \in Prefix \X NextHop :
                                    pn[1] \in ipRouteDB /\ pn[2] \in nextHopMap[pn[1]]})

\* The ASIC follows the operations one by one, in order and eventually, whatever
\* the handler and the route server interleave (Fib).
Submitted == [i \in DOMAIN asicCh |->
                [prefix |-> asicCh[i].prefix, nhs |-> asicCh[i].target.nhs]]

FibOf == INSTANCE Fib WITH
           installed <- [p \in Prefix |-> hwRoute[p].nhs],
           pending <- Submitted

ImplementsFib == FibOf!FibSpec

\* The handler always finishes the operation it works on: a DoneChannel it
\* waits on is answered.
HandlerReturns == (pc # "idle") ~> (pc = "idle")
=============================================================================
