------------------------------ MODULE RouteMgr ------------------------------
(***************************************************************************)
(* The route manager of asicd (src/pluginManager/routeMgr.go): thrift      *)
(* calls put route operations on a channel; one goroutine takes them off,  *)
(* keeps the route database, takes and releases next hops and groups of    *)
(* the next hop manager, and queues the change on a channel of each        *)
(* plugin; each plugin's route server programs its target from its own     *)
(* channel (sai/saiIntf.go, softSwitch/softSwitch.go).  Another goroutine  *)
(* maintains the key list that GetBulk walks.                              *)
(*                                                                         *)
(* A handler is cut where it can be interleaved: after each call of the    *)
(* next hop manager and where it waits on a DoneChannel.                   *)
(*                                                                         *)
(* Abstractions.  A route operation carries a prefix and a next hop; the   *)
(* next hops in Connected are the zero address (a connected route) and     *)
(* those in Null the next hop of a null route.  The router interface of a  *)
(* next hop exists (GetRouterIfIndexInfo succeeds).                        *)
(***************************************************************************)
EXTENDS NextHopMgr, SequencesExt

CONSTANTS
  Prefix,        \* destination networks
  Connected,     \* next hops that mean "connected": the zero address
  Null,          \* next hops of null routes
  RouteOpCap,    \* capacity of routeOpChannel (2 * MAX_SCALE_ROUTES)
  RouteCap,      \* capacity of a plugin's routeChannel and of the key channel
  Plugins        \* the plugins with a route channel: "sai" and maybe "linux"

ASSUME PrefixAssumption == IsFiniteSet(Prefix)
ASSUME NextHopKinds ==
  Connected \subseteq NextHop /\ Null \subseteq NextHop /\ Connected \cap Null = {}
ASSUME ChannelCaps == RouteOpCap \in Nat \ {0} /\ RouteCap \in Nat \ {0}
ASSUME PluginsAssumption == {"sai"} \subseteq Plugins /\ Plugins \subseteq {"sai", "linux"}

VARIABLES
  routeOpChannel,      \* operations the handler goroutine has not taken
  ipRouteDB,           \* prefixes in the route database
  nextHopMap,          \* the next hops of each prefix
  ecmpGrpId,           \* its group, NoGroup for INVALID_OBJECT_ID
  routeCnt,            \* v4RouteCnt + v6RouteCnt
  ecmpRouteCnt,
  ipPrefixStateUpdCh,  \* key list updates not yet applied
  ipRouteDBKeys,       \* the key list
  pc,                  \* where the handler goroutine is
  cur,                 \* the operation it is working on
  doneChannel,         \* completions the asic plugin has sent it
  asicCh,              \* SaiPlugin.routeChannel
  hwRoute,             \* what each prefix resolves to in the ASIC
  linuxCh,             \* SoftSwitchPlugin.routeChannel
  kernelRoute          \* the next hops of each prefix in the kernel

NoGroup == {}

dbVars == <<ipRouteDB, nextHopMap, ecmpGrpId, routeCnt, ecmpRouteCnt>>
keyVars == <<ipPrefixStateUpdCh, ipRouteDBKeys>>
hwVars == <<hwRoute, kernelRoute>>
routeVars == <<routeOpChannel, dbVars, keyVars, pc, cur, doneChannel,
               asicCh, linuxCh, hwVars>>

\* What a prefix resolves to in the ASIC.
Target == [kind : {"none", "rif", "drop", "nh", "group"}, nhs : SUBSET NextHop]
NoRoute == [kind |-> "none", nhs |-> {}]
GroupTarget(g) == [kind |-> "group", nhs |-> g]
SingleTarget(nh) ==
  [kind |-> IF nh \in Connected THEN "rif" ELSE IF nh \in Null THEN "drop" ELSE "nh",
   nhs  |-> {nh}]
Ordinary(nh) == nh \notin Connected /\ nh \notin Null

\* Next hops and groups that routes in the ASIC refer to.
BusyNextHops == {ip \in NextHop :
                   \E p \in Prefix : hwRoute[p] = [kind |-> "nh", nhs |-> {ip}]}
BusyGroups == {hwRoute[p].nhs : p \in {q \in Prefix : hwRoute[q].kind = "group"}}

RouteInit ==
  /\ routeOpChannel = <<>>
  /\ ipRouteDB = {}
  /\ nextHopMap = [p \in Prefix |-> {}]
  /\ ecmpGrpId = [p \in Prefix |-> NoGroup]
  /\ routeCnt = 0 /\ ecmpRouteCnt = 0
  /\ ipPrefixStateUpdCh = <<>> /\ ipRouteDBKeys = <<>>
  /\ pc = "idle" /\ cur = <<>> /\ doneChannel = 0
  /\ asicCh = <<>> /\ linuxCh = <<>>
  /\ hwRoute = [p \in Prefix |-> NoRoute]
  /\ kernelRoute = [p \in Prefix |-> {}]

-----------------------------------------------------------------------------
(***************************************************************************)
(* Channels.  A full channel blocks its sender: the action is disabled.    *)
(***************************************************************************)
AsicMsg(op, p, target, update, done) ==
  [op |-> op, prefix |-> p, target |-> target, update |-> update, done |-> done]

\* (Mutant: a message overtakes those in the channel.)
ToAsicFront(m) == Len(asicCh) < RouteCap /\ asicCh' = <<m>> \o asicCh

ToAsic(m) == Len(asicCh) < RouteCap /\ asicCh' = Append(asicCh, m)

ToLinux(op, p, nh, multipath) ==
  IF "linux" \in Plugins
  THEN /\ Len(linuxCh) < RouteCap
       /\ linuxCh' = Append(linuxCh, [op |-> op, prefix |-> p, nh |-> nh,
                                      multipath |-> multipath])
  ELSE UNCHANGED linuxCh

ToKeys(op, p) ==
  /\ Len(ipPrefixStateUpdCh) < RouteCap
  /\ ipPrefixStateUpdCh' = Append(ipPrefixStateUpdCh, <<op, p>>)

-----------------------------------------------------------------------------
(***************************************************************************)
(* CreateIPRoute and DeleteIPRoute: a thrift call queues the operation.    *)
(***************************************************************************)
QueueOp(op, p, nh) ==
  /\ Len(routeOpChannel) < RouteOpCap
  /\ routeOpChannel' = Append(routeOpChannel, [op |-> op, prefix |-> p, nh |-> nh])
  /\ UNCHANGED <<nhMgrVars, dbVars, keyVars, pc, cur, doneChannel, asicCh,
                 linuxCh, hwVars>>

CreateIPRoute(p, nh) == QueueOp("Add", p, nh)
DeleteIPRoute(p, nh) == QueueOp("Del", p, nh)

-----------------------------------------------------------------------------
(***************************************************************************)
(* CreateIPRouteHdlr                                                       *)
(***************************************************************************)
Takes(op) ==
  /\ pc = "idle"
  /\ routeOpChannel # <<>>
  /\ Head(routeOpChannel).op = op
  /\ routeOpChannel' = Tail(routeOpChannel)

\* (Mutant: the next hop is not looked up.)
KnowsPrefix(p, nh) == p \in ipRouteDB

Knows(p, nh) == p \in ipRouteDB /\ nh \in nextHopMap[p]

\* The operation changes nothing: the next hop is already there (create), the
\* prefix or the next hop is not (delete).
TakeNoOp ==
  LET op == Head(routeOpChannel)
  IN /\ \/ Takes("Add") /\ Knows(op.prefix, op.nh)
        \/ Takes("Del") /\ ~Knows(op.prefix, op.nh)
     /\ UNCHANGED <<nhMgrVars, dbVars, keyVars, pc, cur, doneChannel, asicCh,
                    linuxCh, hwVars>>

\* The first next hop of a prefix: a next hop entry, except for connected and
\* null routes.
TakeAddFirst ==
  LET op == Head(routeOpChannel)
  IN /\ Takes("Add")
     /\ op.prefix \notin ipRouteDB
     /\ IF Ordinary(op.nh) THEN CreateNextHop(op.nh, "RT_NBR_CREATE")
                           ELSE UNCHANGED nhMgrVars
     /\ cur' = [prefix |-> op.prefix, nh |-> op.nh, nhs |-> {op.nh},
                grp |-> NoGroup, target |-> SingleTarget(op.nh)]
     /\ pc' = "program"
     /\ UNCHANGED <<dbVars, keyVars, doneChannel, asicCh, linuxCh, hwVars>>

\* The second next hop: the prefix gets a group.  The next hop map of the
\* database is updated in place, the group id in a copy of the entry.
TakeAddSecond ==
  LET op == Head(routeOpChannel)
      members == nextHopMap[op.prefix] \cup {op.nh}
  IN /\ Takes("Add")
     /\ op.prefix \in ipRouteDB
     /\ op.nh \notin nextHopMap[op.prefix]
     /\ ecmpGrpId[op.prefix] = NoGroup
     /\ nextHopMap' = [nextHopMap EXCEPT ![op.prefix] = members]
     /\ CreateNextHopGroup(members)
     /\ cur' = [prefix |-> op.prefix, nh |-> op.nh, nhs |-> members,
                grp |-> members, target |-> GroupTarget(members)]
     /\ pc' = "dropSingle"
     /\ UNCHANGED <<ipRouteDB, ecmpGrpId, routeCnt, ecmpRouteCnt, keyVars,
                    doneChannel, asicCh, linuxCh, hwVars>>

\* "Delete ref to singleton nexthop": oldNhIp is the other next hop, whatever
\* its kind; an error is only logged.
\* (Mutant: the single next hop keeps the reference.)
DropSingleSkipped ==
  /\ pc = "dropSingle"
  /\ pc' = "program"
  /\ UNCHANGED <<nhMgrVars, routeOpChannel, dbVars, keyVars, cur, doneChannel,
                 asicCh, linuxCh, hwVars>>

DropSingle ==
  /\ pc = "dropSingle"
  /\ \E old \in cur.nhs \ {cur.nh} : DeleteNextHop(old, BusyNextHops)
  /\ pc' = "program"
  /\ UNCHANGED <<routeOpChannel, dbVars, keyVars, cur, doneChannel, asicCh,
                 linuxCh, hwVars>>

\* A further next hop: the group is replaced by a larger one.
TakeAddMore ==
  LET op == Head(routeOpChannel)
      members == nextHopMap[op.prefix] \cup {op.nh}
  IN /\ Takes("Add")
     /\ op.prefix \in ipRouteDB
     /\ op.nh \notin nextHopMap[op.prefix]
     /\ ecmpGrpId[op.prefix] # NoGroup
     /\ nextHopMap' = [nextHopMap EXCEPT ![op.prefix] = members]
     /\ UpdateNextHopGroup(ecmpGrpId[op.prefix], members)
     /\ cur' = [prefix |-> op.prefix, nh |-> op.nh, nhs |-> members,
                grp |-> members, target |-> GroupTarget(members)]
     /\ pc' = "program"
     /\ UNCHANGED <<ipRouteDB, ecmpGrpId, routeCnt, ecmpRouteCnt, keyVars,
                    doneChannel, asicCh, linuxCh, hwVars>>

\* Queue the route on every plugin, queue the key of a new prefix, store the
\* entry and count it.  No completion is asked for.
Program ==
  LET update == cur.prefix \in ipRouteDB
  IN /\ pc = "program"
     /\ ToAsic(AsicMsg("Add", cur.prefix, cur.target, update, FALSE))
     /\ ToLinux("Add", cur.prefix, cur.nh, update)
     /\ IF update THEN UNCHANGED ipPrefixStateUpdCh ELSE ToKeys("Add", cur.prefix)
     /\ ipRouteDB' = ipRouteDB \cup {cur.prefix}
     /\ nextHopMap' = [nextHopMap EXCEPT ![cur.prefix] = cur.nhs]
     /\ ecmpGrpId' = [ecmpGrpId EXCEPT ![cur.prefix] = cur.grp]
     /\ routeCnt' = routeCnt + 1
     /\ ecmpRouteCnt' = IF update THEN ecmpRouteCnt + 1 ELSE ecmpRouteCnt
     /\ pc' = "idle" /\ cur' = <<>>
     /\ UNCHANGED <<nhMgrVars, routeOpChannel, ipRouteDBKeys, doneChannel, hwVars>>

-----------------------------------------------------------------------------
(***************************************************************************)
(* DeleteIPRouteHdlr                                                       *)
(***************************************************************************)
\* GetNextHopRefCount or GetNextHopGroupRefCount, read before the delete is
\* queued: with a count above one the handler does not wait for the ASIC.
References(p, nh) ==
  IF ecmpGrpId[p] = NoGroup THEN refCount[nh] ELSE grpRefCount[ecmpGrpId[p]]

\* (Mutant: it never waits.)
MustWaitNever(refs) == FALSE

MustWait(refs) == refs <= 1

TakeDel ==
  LET op == Head(routeOpChannel)
      left == nextHopMap[op.prefix] \ {op.nh}
      refs == References(op.prefix, op.nh)
  IN /\ Takes("Del")
     /\ Knows(op.prefix, op.nh)
     /\ nextHopMap' = [nextHopMap EXCEPT ![op.prefix] = left]
     /\ IF left = {}
        THEN ToAsic(AsicMsg("Del", op.prefix, NoRoute, FALSE, MustWait(refs)))
        ELSE UNCHANGED asicCh
     /\ ToLinux("Del", op.prefix, op.nh, FALSE)
     /\ cur' = [prefix |-> op.prefix, nh |-> op.nh, refs |-> refs]
     /\ pc' = IF left = {} /\ MustWait(refs) THEN "waitDel" ELSE "release"
     /\ UNCHANGED <<nhMgrVars, ipRouteDB, ecmpGrpId, routeCnt, ecmpRouteCnt,
                    keyVars, doneChannel, hwVars>>

WaitDel ==
  /\ pc = "waitDel" /\ doneChannel > 0
  /\ doneChannel' = doneChannel - 1
  /\ pc' = "release"
  /\ UNCHANGED <<nhMgrVars, routeOpChannel, dbVars, keyVars, cur, asicCh,
                 linuxCh, hwVars>>

\* The last next hop of the prefix went: release what it used, except for a
\* connected or null next hop, and remove the entry.
ReleaseLast ==
  LET p == cur.prefix
      g == ecmpGrpId[p]
      lastOfGroup == Ordinary(cur.nh) /\ g # NoGroup
  IN /\ pc = "release"
     /\ nextHopMap[p] = {}
     /\ IF ~Ordinary(cur.nh) THEN UNCHANGED nhMgrVars
        ELSE IF g = NoGroup THEN DeleteNextHop(cur.nh, BusyNextHops)
        ELSE DeleteNextHopGroup(g, BusyNextHops, BusyGroups)
     /\ ecmpRouteCnt' = IF lastOfGroup /\ ~DeleteNextHopGroupFails(g, BusyGroups)
                        THEN ecmpRouteCnt - 1 ELSE ecmpRouteCnt
     /\ ipRouteDB' = ipRouteDB \ {p}
     /\ ecmpGrpId' = [ecmpGrpId EXCEPT ![p] = NoGroup]
     /\ ToKeys("Del", p)
     /\ routeCnt' = routeCnt - 1
     /\ pc' = "idle" /\ cur' = <<>>
     /\ UNCHANGED <<routeOpChannel, nextHopMap, ipRouteDBKeys, doneChannel,
                    asicCh, linuxCh, hwVars>>

\* Next hops remain: replace the group and wait until the ASIC route uses the
\* new one.  (The two groups differ, so the route always has to be updated.)
ReplaceGroup ==
  LET p == cur.prefix
      members == nextHopMap[p]
  IN /\ pc = "release"
     /\ members # {}
     /\ UpdateNextHopGroup(ecmpGrpId[p], members)
     /\ ToAsic(AsicMsg("Add", p, GroupTarget(members), TRUE, TRUE))
     /\ pc' = "waitUpd"
     /\ UNCHANGED <<routeOpChannel, dbVars, keyVars, cur, doneChannel,
                    linuxCh, hwVars>>

\* "Delete old NhGroup if this was the last route pointing to it."
\* (Mutant: the entry keeps the id of the old group.)
WaitUpdKeepsId ==
  LET p == cur.prefix
  IN /\ pc = "waitUpd" /\ doneChannel > 0
     /\ doneChannel' = doneChannel - 1
     /\ IF cur.refs = 1
        THEN DeleteNextHopGroup(ecmpGrpId[p], BusyNextHops, BusyGroups)
        ELSE UNCHANGED nhMgrVars
     /\ routeCnt' = routeCnt - 1
     /\ pc' = "idle" /\ cur' = <<>>
     /\ UNCHANGED <<routeOpChannel, ipRouteDB, nextHopMap, ecmpGrpId,
                    ecmpRouteCnt, keyVars, asicCh, linuxCh, hwVars>>

WaitUpd ==
  LET p == cur.prefix
  IN /\ pc = "waitUpd" /\ doneChannel > 0
     /\ doneChannel' = doneChannel - 1
     /\ IF cur.refs = 1
        THEN DeleteNextHopGroup(ecmpGrpId[p], BusyNextHops, BusyGroups)
        ELSE UNCHANGED nhMgrVars
     /\ ecmpGrpId' = [ecmpGrpId EXCEPT ![p] = nextHopMap[p]]
     /\ routeCnt' = routeCnt - 1
     /\ pc' = "idle" /\ cur' = <<>>
     /\ UNCHANGED <<routeOpChannel, ipRouteDB, nextHopMap, ecmpRouteCnt, keyVars,
                    asicCh, linuxCh, hwVars>>

-----------------------------------------------------------------------------
(***************************************************************************)
(* SaiPlugin.StartRouteServer.  The ASIC rejects a create of a prefix it   *)
(* has, an update or a removal of one it does not have, and a route to an  *)
(* object that does not exist.  An update sets the next hop attribute      *)
(* only: a route created with the drop action keeps dropping.              *)
(***************************************************************************)
Exists(target) == CASE target.kind = "nh" -> target.nhs \subseteq hwNextHop
                    [] target.kind = "group" -> target.nhs \in hwGroup
                    [] OTHER -> TRUE

\* SaiCreateIPRoute
\* (Mutant: it sets the attribute of an existing route only.)
RouteAfterUpdate(m) ==
  LET old == hwRoute[m.prefix]
  IN IF old = NoRoute \/ ~Exists(m.target) \/ old.kind = "drop" THEN old ELSE m.target

RouteAfterAdd(m) ==
  LET old == hwRoute[m.prefix]
  IN IF (m.update <=> old = NoRoute) \/ ~Exists(m.target) THEN old
     ELSE IF m.update /\ old.kind = "drop" THEN old
     ELSE m.target

\* (Mutant: an update is not answered.)
AsicServerSilent ==
  LET m == Head(asicCh)
  IN /\ asicCh # <<>>
     /\ asicCh' = Tail(asicCh)
     /\ hwRoute' = [hwRoute EXCEPT ![m.prefix] =
                      IF m.op = "Add" THEN RouteAfterAdd(m) ELSE NoRoute]
     /\ doneChannel' = IF m.done /\ m.op = "Del" THEN doneChannel + 1 ELSE doneChannel
     /\ UNCHANGED <<nhMgrVars, routeOpChannel, dbVars, keyVars, pc, cur,
                    linuxCh, kernelRoute>>

AsicServer ==
  LET m == Head(asicCh)
  IN /\ asicCh # <<>>
     /\ asicCh' = Tail(asicCh)
     /\ hwRoute' = [hwRoute EXCEPT ![m.prefix] =
                      IF m.op = "Add" THEN RouteAfterAdd(m) ELSE NoRoute]
     /\ doneChannel' = IF m.done THEN doneChannel + 1 ELSE doneChannel
     /\ UNCHANGED <<nhMgrVars, routeOpChannel, dbVars, keyVars, pc, cur,
                    linuxCh, kernelRoute>>

(***************************************************************************)
(* SoftSwitchPlugin.StartRouteServer: connected routes are the kernel's    *)
(* own; RouteAdd fails on a prefix the kernel has, RouteAppend does not.   *)
(***************************************************************************)
\* (Mutant: RouteAppend is never used.)
NextHopsAfterAdd(m, nhs) ==
  CASE m.nh \in Connected -> nhs
    [] m.nh \notin Connected /\ m.op = "Del" -> nhs \ {m.nh}
    [] OTHER -> IF nhs = {} THEN {m.nh} ELSE nhs

NextHopsAfter(m, nhs) ==
  CASE m.nh \in Connected                -> nhs
    [] m.nh \notin Connected /\ m.op = "Del" -> nhs \ {m.nh}
    [] OTHER -> IF m.multipath \/ nhs = {} THEN nhs \cup {m.nh} ELSE nhs

LinuxServer ==
  LET m == Head(linuxCh)
  IN /\ linuxCh # <<>>
     /\ linuxCh' = Tail(linuxCh)
     /\ kernelRoute' = [kernelRoute EXCEPT ![m.prefix] = NextHopsAfter(m, @)]
     /\ UNCHANGED <<nhMgrVars, routeOpChannel, dbVars, keyVars, pc, cur,
                    doneChannel, asicCh, hwRoute>>

(***************************************************************************)
(* UpdateIpRouteStateDbInfo: a delete removes the first match.             *)
(***************************************************************************)
\* (Mutant: the slices leave out one key more.)
WithoutTwo(keys, p) ==
  LET i == SelectInSeq(keys, LAMBDA k : k = p)
  IN IF i = 0 THEN keys ELSE SubSeq(keys, 1, i - 1) \o SubSeq(keys, i + 2, Len(keys))

Without(keys, p) == RemoveFirst(keys, p)

KeyServer ==
  LET m == Head(ipPrefixStateUpdCh)
  IN /\ ipPrefixStateUpdCh # <<>>
     /\ ipPrefixStateUpdCh' = Tail(ipPrefixStateUpdCh)
     /\ ipRouteDBKeys' = IF m[1] = "Add" THEN Append(ipRouteDBKeys, m[2])
                         ELSE Without(ipRouteDBKeys, m[2])
     /\ UNCHANGED <<nhMgrVars, routeOpChannel, dbVars, pc, cur, doneChannel,
                    asicCh, linuxCh, hwVars>>
=============================================================================
