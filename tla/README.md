# A TLA+ model of asicd

asicd is the hardware abstraction daemon of FlexSwitch: routing, ARP/ND and L2
daemons call it over thrift, and it programs the ASIC (SAI plugin) and the
Linux kernel (soft switch plugin).  This directory models its core, checks the
models with TLC and proves theorems about them with TLAPS.

## 1. The system

```
 thrift clients (ribd, arpd, ndpd, vland, lacpd, confd ...)
      |   one goroutine per connection, no lock at this level (src/rpc)
      v
 PluginManager: resource managers that call one another (src/pluginManager)
      Route -> NextHop <- Neighbor <-> L2 (MAC table)
      L3Intf -> Vlan -> Port;  Lag -> Port;  Stp, Acl, Tunnel, Infra, Perf, Bst
      |   direct calls, and a route channel per plugin
      v
 plugins: sai (the ASIC driver), linux (soft switch)
      |   callbacks: FDB learn/age/move, link up/down
      v
 publisher goroutine -> nanomsg socket -> the daemons
```

| component | state | operations | what makes it correct |
|---|---|---|---|
| NextHopManager (`nexthopMgr.go`, `ipv4Mgr.go`, `ipv6Mgr.go`) | next hop tables, ECMP group table, a reference count in every entry | create/update/delete next hop, create/update/delete group | counts equal users; entries exist exactly while counted; nothing used leaves the ASIC |
| RouteManager (`routeMgr.go`) | route database, key list, counters, two channels | CreateIPRoute, DeleteIPRoute, handler goroutine, key goroutine | database, next hops, ASIC and kernel agree; no ASIC route to a removed object; the handler never hangs |
| route servers (`sai/saiIntf.go`, `softSwitch/softSwitch.go`) | a channel per plugin | StartRouteServer | operations take effect in order, each answered |
| NeighborManager (`neighborMgr.go`) | neighbour tables, key lists, MAC to address cross reference | create/update/delete neighbour, ProcessMacMove | a neighbour in the ASIC is in the database and holds a next hop; a MAC move reaches all its addresses |
| L2Manager (`l2Mgr.go`) | MAC table | learn, age, RemoveMacIpAdjEntry | an entry exists while the MAC is learned or has neighbours |
| VlanManager (`vlanMgr.go`) | VLAN table, port configuration modes, PVIDs | create/update/delete VLAN, reserved VLANs, link state | the ASIC has the members configured; a PVID has a VLAN behind it; a VLAN is up exactly while enabled with a member up |
| LagManager (`lagMgr.go`, `sai/saiChip.c`) | LAG table; the ASIC's LAGs, the kernel's bonds | create/update/delete LAG, port state change | table, bonds and ASIC have the same members; counts follow the links; no call hangs |
| L3IntfManager (`l3IntfMgr.go`, `ipv4Mgr.go`, `ipv6Mgr.go`) | IP interfaces, router interface reference counts, logical interfaces | create/update/delete IP interface, L2 state change; loopbacks, sub-interfaces | router interface exists while an address uses it; state follows the L2 interface; what is configured survives a crash |
| PortManager (`portMgr.go`) | port table | configuration, link state, breakout | a link event reaches VLANs and addresses |
| IfManager (`ifMgr.go`) | ifIndex allocator with free lists | AllocateIfIndex, FreeIfIndex | no ifIndex handed out twice |
| AclManager (`aclMgr.go`, `sai/saiAcl.c`) | map from rules to ACLs, ACL names; the ASIC's ACL tables | create/update/delete of rules and ACLs, restore | what was accepted is in the ASIC, nothing there is out of reach |
| TunnelManager (`tunnelMgr.go`, `softSwitch/vxlan.go`) | VXLANs with their VTEPs, VTEP table | create/delete VXLAN and VTEP | the two tables and the links agree |
| StpManager | group table | pass-through to plugins | |
| PerfManager, BstStat, Infra | counters | periodic reads | |
| publisher (`src/publisher`) | notification channels | forward to a socket | |

Start order: IfManager, plugins, Port, Lag, Vlan, NextHop, Neighbor, Route,
L3Intf, L2, Stp, Tunnel, Acl, Bst, Infra, Perf.

What is hard here: NextHopManager, NeighborManager and AclManager have no lock
although thrift goroutines, the route goroutine and the FDB callback use them;
route programming is asynchronous and the handler decides from a reference count
whether it must wait for it; the maps of several managers mirror each other, the
ASIC and the kernel; reference counts are spread over routes, groups and
neighbours; where there are locks, they are taken inside each other in different
orders, or given back between a look-up and its use; the process may die between
the steps of a call while the kernel's links and the configuration database live
on.  Every hazard is listed with its line in `PROJECT.json`.

## 2. Modules

| module | models | uses |
|---|---|---|
| `NextHopMgr` | state and operations of the next hop manager, with the ASIC objects it owns | |
| `NextHopPool` | the manager under clients that release only what they hold | `NextHopMgr` |
| `RouteMgr` | route goroutine, key goroutine, plugin route servers | `NextHopMgr` |
| `Fib` | abstract specification: a forwarding table that follows its operations in order | |
| `RouteSystem` | the route manager running, its properties, the refinement of `Fib` | `RouteMgr`, `Fib` |
| `RouteProofs` | theorems about `RouteSystem`: database, key list, kernel; next hops, groups, ASIC, each step of the refinement of `Fib` | |
| `NeighborMgr` | neighbour manager and MAC table, a program counter per thread | `NextHopMgr` |
| `NeighborSystem` | clients, FDB thread and routes on shared next hops | `NeighborMgr` |
| `NeighborProofs` | theorems about `NeighborSystem` | |
| `VlanMgr` | VLAN manager, with mode, PVID and state of the ports | |
| `L3IntfMgr` | IP addresses on VLANs and ports, reserved VLANs, router interfaces | `VlanMgr` |
| `IntfSystem` | configuration client and link handlers on both | `L3IntfMgr` |
| `IntfProofs` | theorems about `IntfSystem` | |
| `L3System` | routes and neighbours on one next hop manager and one ASIC | `RouteSystem`, `NeighborMgr` |
| `L3Proofs` | theorems about `L3System`, and in its last part about `NextHopPool` | `RouteProofs`, `NextHopPool` |
| `SaiAcl` | the ACL tables of the SAI plugin | |
| `AclMgr` | ACL manager and configuration client, crash and restore | `SaiAcl` |
| `AclProofs` | theorems about `AclMgr` | |
| `IfMgr` | ifIndex allocator and name maps | |
| `VirtIntf` | loopbacks, sub-interfaces and VTEPs, with the kernel's links, crash and restore | `IfMgr` |
| `VirtProofs` | theorems about `VirtIntf` | |
| `LagMgr` | LAG manager with both plugins and the lock on its table | |
| `LagSystem` | LAG client, link handlers and addresses on LAGs, with three mutexes | `LagMgr` |
| `LagProofs` | theorems about `LagSystem` | |
| `Ipv6Intf` | IPv6 addresses from the configuration to the kernel: link local pool, caches of the soft switch, restore | |
| `Ipv6Proofs` | theorems about `Ipv6Intf` | |
| `MC*` | instances for TLC | |

`NextHopMgr`, `RouteMgr`, `NeighborMgr`, `VlanMgr`, `L3IntfMgr`, `SaiAcl`, `IfMgr` and
`LagMgr` are components: variables, initial state and one action per operation or
per step.  The `*System` modules and `NextHopPool` add the environment, `Next`, the
specification and properties; `AclMgr`, `VirtIntf` and `Ipv6Intf`, which no other
module composes further, hold their own.
Operators named as mutants in a comment ("Mutant: ...") are plausible bugs; they
are never used by a specification and serve to test that each property can fail.

### NextHopMgr

`nextHopDB`/`refCount` are `ipv4NextHopDB`/`ipv6NextHopDB`, `ipNextHopGroupDB`/
`grpRefCount` the group table, `hwNextHop`/`hwGroup` the ASIC's objects.  A next
hop is named by its address and a group by its member set, which is what the
code looks them up by.  The count side effect of `NextHopExists` is
`ReferencesTaken`: a neighbour create on an existing entry counts twice, once in
CreateNextHop and once in the UpdateNextHop it calls.  The order "decrement, ask
the ASIC, return on refusal" is kept: a refused removal leaves count zero.  The
ASIC's refusal to remove an object in use is the vendor SAI's, external to
`src/`.  The ASIC accepts every creation: that of a next hop or a group it rejects
(`saiL3.c:276`; the entry then has no object, so that its delete fails at `saiL3.c:309`
and leaves it with count zero, `nexthopMgr.go:211`) is left out.

### RouteMgr

`TakeAddFirst`, `TakeAddSecond`, `DropSingle`, `TakeAddMore` and `Program` are
CreateIPRouteHdlr; `TakeDel`, `WaitDel`, `ReleaseLast`, `ReplaceGroup` and
`WaitUpd` are DeleteIPRouteHdlr, cut where another goroutine can run (a call of
the next hop manager, a channel send, a wait).  `nextHopMap` is the map inside a
database entry, which the handler changes in place; `cur` is its copy of the
rest.  `hwRoute` is what a prefix resolves to in the ASIC: its update path sets
the next hop attribute only.  `kernelRoute` is the kernel's.  Channels have
capacities `RouteOpCap` and `RouteCap`, standing for 200000 and 100000; a full
one disables the sender.

`Fib` has one table, in which each prefix goes through the targets it was given, in
the order in which they were submitted; operations on different prefixes are ordered
too.  `RouteSystem` maps it onto the ASIC's routes and what is still in its channel.

### NeighborMgr

A thread is a thrift client or the FDB callback "fdb"; `at` is its place in the
call and `job` what it works on.  `xref` is `macAddrToIPNbrXref` and `linked` the MACs
that have an entry in it, `macDB` the MAC table with its `ipAdj` mark, `learned` the
ASIC's FDB, `hwNbr` the ASIC's neighbour entries.  Clients own disjoint addresses (arpd
the IPv4 ones, ndpd the IPv6 ones).

Nothing is locked here, so a call is cut wherever it goes from one table to the next.
UpdateNbrDb is `StoreNew` and `Link` for a create (the neighbour and its key; the list of
its MAC), and `Forget`, `Unlist`, `DropAdj`, `Unlink` and `Unkey` for a delete: the
neighbour, its place in the list, the MAC entry when the list is empty, the cross
reference with whatever it lists by now, the key.  The callback is `MacLearned` and
`ReadList`, or `MacAged`, which looks whether the MAC has a cross reference, and
`AgedEntry`, which drops or marks its entry.  Only RemoveMacIpAdjEntry, which looks at
one entry of a map and deletes that entry, is one step.

`RemoveIp` is the loop of UpdateNbrDb that cuts a slice while
ranging over it; `panicked` is its slice bounds panic, after which nothing
happens.  ProcessMacMove walks the slice as it was (`todo`); the snapshot is
exact for lists of at most two addresses, which is what the bounds of the runs
allow: a longer slice shares its array with the cuts made by deletes, and the walk
may then meet an address twice or miss one.  Either way it only updates addresses
that are neighbours, so the theorems, which have lists of any length, do not
depend on it.

What one would like to say of the lists and of the MAC table is not so, and no
property says it.  An update to another MAC leaves the address under the old one
(`ipv4Mgr.go:410`): the lists go stale, a later create lists the address twice, and the
delete after it may slice out of range.  An aging that falls between the emptied list
and the delete of the cross reference marks an entry that nobody drops any more
(`l2Mgr.go:188`), and a learn on the port the MAC had leaves the mark, so that the entry of a
learned MAC goes with its last neighbour.  The model has all of it, and the
properties of the ASIC's neighbours and of the keys hold in spite of it.

### VlanMgr, L3IntfMgr, IntfSystem

`vlanDB` is the array of that name and `conf` the object the client configured
last, which it hands back as the old object of an update or a delete (the
manager takes the old members from there, not from its table).  `portMode`,
`pvid` and `operState` are fields of `portStateDB`.  `hwVlan` is the ASIC's VLANs
with their members.  `ipDB` is `ipv4IntfDB` and `ipv6IntfDB`, `refCount` is
`l3IntfRefCount`, `hwRif` the ASIC's router interfaces and `hwIp` the addresses it
has a route to the CPU for.

`call` is what is left of the configuration call in progress: CreateVlan and
UpdateVlan count active members and take the lock to store the entry afterwards
(`StoreVlan`), UpdateVlan then tells the IP interfaces (`NotifyL3`); CreateIPIntf
makes the reserved VLAN, calls the plugins (`AddIp`) and stores the address with
the state it has read (`StoreIp`).  A link event starts a handler:
`StorePortState`, `CopyVlans` (the array that `range` copies), then `ProcessVlan` and
`NotifyVlan` for every VLAN of the port and `NotifyPort`.  `ProcessVlan` writes back the
copied entry with a new count, as the code does.

With `Overlap` FALSE a configuration call and the link handlers wait for each
other; handlers of different ports always interleave.  With TRUE they all do, and
`AdminDownOverrides` fails.  Two assumptions: the client removes the addresses of a
VLAN before the VLAN (DeleteVlan does not look), and the second event of a port
comes when the first has been handled (nothing in the code orders them).  LAG
members, the mode "Internal", which nothing sets, and the PVID the ASIC keeps are
left out.  `UpdateVlan` of the SAI plugin panics when members leave one of its two
lists and none leaves the other (`UpdateVlanPanics`).  `VlanAssumption` keeps reserved
VLANs apart from the client's; the code also takes both ends of the reserved range for
ordinary ids (`vlanMgr.go:322`).

### SaiAcl, AclMgr

`aclTable` is `aclTableIdList` with the entries of each table, `rulesToAcls` is
`ruleToAclKeyMap`, `aclKnown` the names in `aclKeyToRulesMap`, `dbRule` and `dbAcl` the
configuration database, which the client writes when its call has succeeded
(`StoreRule`, `StoreAcl`, `UnstoreAcl`).  A call is cut at every access to a map, to
the database and to the ASIC: `AttachRule`, `LookupRule` and `ApplyRule` are the pass
over the new rules in processRuleFromAcl, `DetachRule` and `RemoveRule` the one over
the old, `UpdateInNextAcl` the loop of UpdateAclRuleConfig, each with its early
return.  `Restart` is a crash at any of these points; `RestoreAcl` runs the same
steps for the goroutine of Init.  `SaiProcessAcl` and its neighbours are saiAcl.c,
which searches by `strncmp` over the length of the name asked for (`Matches`;
`Prefix` says which names are prefixes of others) and never decrements
`aclTableCount`.  `Refused` contents are those the conversion of a rule rejects; the ASIC
itself accepts the entry made of any other, so that an update (`saiAcl.c:252`), which
deletes the entry and creates a new one, never stops between the two.  A content is
only refused when its rule is applied: a rule that an ACL loses was accepted before
(`aclMgr.go:299`, `347`), with calls one at a time.

`Overlap` TRUE lets calls of several clients meet, which nothing in the code
prevents; `RulesInHwKept` then fails (an update attaches a rule while a delete has
just looked), as it does with names in `Prefix`.  The run and the theorems are for
one call at a time and names that are not prefixes of each other.

### IfMgr, VirtIntf

`ifNameOf`, `ifIndexOf`, `nextIfId` and `freeIfIndex` are the maps of `ifMgr.go`; an
ifIndex is a type and an id, of which there are `MaxId` (the code takes ids without
end).  `logicalIntf`, `subIntf`, `vtepDb` and `vxlan` are the tables of loopbacks,
sub-interfaces, VTEPs and VXLANs, `links` the virtual links of the kernel, `loCfg`
and `subCfg` what the clients configured.  Calls are cut at the calls into the
kernel and where `dbMutex` is taken.  The create of a sub-interface is `StartSub` (the
ifIndex and its temporary name), `VerifySub` (the look at the list), `AddSubLink`,
`NameSub` (the new name) and `StoreSub`; the delete is a look that keeps the `place`,
`DelSubLink`, `FreeSub` (the ifIndex and its names, before the lock) and `RemoveSub`.
Between the last two the entry is still listed and its ifIndex may already be another
interface's (`Leaving`).
`Die` leaves the links and clears the maps, `Deinit` removes the
links it knows; `boot` is what InitLogicalIntf and InitIPIntf have still to apply.
The kernel may refuse a link to a client; the ifIndex then stays allocated, as in
the code.  It refuses no loopback of the restore (the code logs that and goes on,
and the loopback is missing).
A name collision of a secondary and a virtual sub-interface (both named
"<parent>.<id>") makes the second creation fail and its clean-up remove the link of
the first: `AddSubLink` has it.

Any number of clients create sub-interfaces, and one of them (`Editor`) deletes and
updates them.  So lists grow while a place is held, and two creates pass the look at the
list together (`l3IntfMgr.go:1261`): overlapping sub-interfaces are then both stored.  What
does not hold with one editor is not claimed: that sub-interfaces are disjoint, that a
sub-interface is found by its name, that the states of an entry and its link agree.  With
two editors a place goes stale (`l3IntfMgr.go:1335`), an ifIndex is freed twice, and
`IfIndexUnique` fails too.  Two assumptions: a VTEP is created in a
VXLAN that exists, and a VXLAN is deleted with at most one VTEP (the code follows a
nil pointer, or runs off a list it shortens, otherwise).

### LagMgr, LagSystem

`lagDB` is the table, `hwLags` the LAGs of the ASIC and `hwLagOf` the one it has each port
in, `bonds` and `master` the kernel's, `vlanActive` the count of active LAGs
of the VLAN each LAG has.  `hwLagOf` is not `port_lag_list` of saiChip.c, which a delete
never clears: the model takes the SDK to remove a LAG together with its members.
`lagLock`, `portLock` and `l3Lock` are the mutexes of
LagManager, PortManager and L3IntfManager where one is held while another is asked
for: `LockLags` to `LagDone` is LagProcessPortStateChange, `SetPvidLocks` and
`SetPvidReads` the read of a LAG's members under the port mutex, `UpdateIPIntf` and
`StoreIpState` the address update.  A critical section that asks for nothing else is
one step, enabled while its mutex is free.

Three schedules: "serial" (one call or event at a time), "lag" (LAG calls and link
events interleave), "any" (address updates too; this one deadlocks).  UpdateLag tells
neither the VLAN nor the address of a LAG that it makes active or inactive
(`lagMgr.go:357`); the history variable `silent` has the LAGs this happened to, until they
are deleted, under "serial".  DeleteLag removes the VLAN under the handler that has just
looked it up (`FindVlan`, `TellVlan`; `vlanMgr.go:868`, `885`): the handler follows a nil
pointer, which ends the process (`panicked`).  The ASIC keeps the LAG of a creation that the
kernel refused (`CreateLag`), as the code does.

### Ipv6Intf

`ipv6DB` is `ipv6IntfDB` with the admin state of each address, `linkLocal` is
`linkLocalMap`, `llStored` the LinkScopeIpState objects of the database, `refCount`
`l3IntfRefCount` and `sysVlan` the ports that have their reserved VLAN.  `linuxIp` is
`linuxIpAddrInfo` of the soft switch: per link how many addresses it was given and
which it puts back when the link comes up.  `kUp`, `kV6` and `kAddr` are the kernel's
links.  `cfg` is the client's objects, written when the thrift call has replied with
success.

`call` holds what a handler of `l3Services.go` has left to do, as operations
(`CreateOps`, `UpdateOps`, `DeleteOps`): an update to another address deletes the old
addresses and creates the new ones, one after the other, and the reply is that of
the last step; the database has the object in a step of its own after it (`StoreObject`), so
that a crash can fall between.  CreateIPIntf is cut once, before it stores the address
(`StoreAddress`).  `AdminPort` is UpdatePortConfig and what the kernel does to the
addresses of a link that goes down; `Restart` the death of the process at any step, with
the restore as a call of its own ("boot").  Abstractions: ports that are not in L2 mode,
global addresses match if they are equal, one daemon configures.

A scene (`Scenes`) says what a behaviour may contain: the objects, the size of the pool,
whether ports change in the middle of calls, crashes.  `amiss` is a history variable: the
ports of which a call went wrong half way (an address the kernel refused, a call that was
undone, a freed address that was taken for the one in use).  Nothing is claimed for
the addresses of such a port until the next start, only for the others, and for the pool.

What the code does here that its comments do not say: the look for a free link
local address goes on after the one the interface has (`l3IntfMgr.go:744`), so that
with a pool of two an update may take a second one; after a restart the marks of
the pool are inverted for addresses restored from the database (`ipv6Mgr.go:267`);
the kernel refuses a link local address that it gave the link itself, and the
address is then in the database only (`softSwitch.go:1177`); every update of port 0
disables its IPv6, because a list of disabled ports is compared with its own zeros
(`portMgr.go:629`, `softSwitch.go:562`); the reply of an update that failed half way
is that of the attempt to undo it (`l3Services.go:594`); the addresses to put back
are forgotten only with the last one of a link (`softSwitch.go:1253`).

## 3. Runs

| run | result | instance | states |
|---|---|---|---|
| `next_hop_pool` | pass | 3 next hops (7 groups), 1 route per next hop, 2 per group, 1 surplus reference; symmetric | 194472 |
| `route_system` | pass, with liveness and refinement | 2 prefixes and 2 next hops or 1 prefix and 3 next hops, both plugins, channels of 1 and 2 | 164636 |
| `neighbor_system` | pass | 2 addresses of 2 clients, 2 MACs of which one is learned, moves and ages, 2 ports, a route on one address; symmetric | 5123294 |
| `l3_system` | pass | 1 prefix, 2 next hops, one of them a neighbour, both plugins | 1857153 |
| `intf_system` | pass | 2 ports, 1 VLAN and 2 reserved ones, 2 link handlers, 2 addresses; symmetric | 1284136 |
| `acl_system` | pass | 2 ACLs, 2 rules, 3 contents of which 1 is refused, 3 tables of 3 entries; symmetric | 605911 |
| `virt_system` | pass | 1 loopback, 3 sub-interfaces on 3 addresses and 2 parents, 1 VTEP, 1 VNI, 4 clients, 1 death | 2307594 |
| `lag_system` | pass, with liveness | 2 ports, 2 LAG ids, 2 names, addresses on one, schedules "serial" and "lag" | 263708 |
| `ipv6_system` | pass | 2 ports, 3 global addresses, scenes `Calm` (pool of 3) and `Stormy` (pool of 2, 1 crash) | 4182534 |
| `l3_release` | `NoRefusedRemoval` violated | as `l3_system` | |
| `vlan_link_race` | `AdminDownOverrides` violated | 1 port, 1 VLAN, a handler beside the client | |
| `lag_deadlock` | `UpdatesNotified` violated | 1 port, 1 LAG, schedule "any" | |

Deadlock is checked except where the system really may stop: `intf_system` (a panic
ends the process), `neighbor_system` and `lag_system` (likewise), `virt_system` (no ids are
left at the bound `MaxId`), `vlan_link_race`, `l3_release` and `lag_deadlock` (stopped by
what they show).

* **next_hop_pool**.  Three next hops give groups that overlap without being
  equal, sharing of groups between routes and a replacement of one group by
  another.  `CountsExact` is the property the manager lives by; `EntriesCounted`
  says no removal is refused; `RemovedOnlyUnused` is its action form.  `TypeOK` and
  `TablesMatchHw` are proved for every instance and not checked here again.
* **route_system**.  Two prefixes over the same two next hops share next hops and
  groups; with three next hops one route grows and shrinks through groups of two and
  three (in each behaviour of `MCSpec` clients announce routes of one of these two sets).  `NoDanglingRoute` is the ordering of the
  asynchronous delete against the release; `ImplementsFib` says each prefix
  passes through exactly the sequence of next hop sets that was asked for;
  `HandlerReturns` that no wait on a DoneChannel is for ever.  The ASIC gets a
  whole target on each change, the kernel one next hop: `KernelAgrees` says that
  the increments add up.  `MaxEcmpCnt` stops
  clients from creating routes once `ecmpRouteCnt` is above it: that counter
  drifts upwards without bound (it counts an extra next hop at each create and a
  prefix at each delete).
* **neighbor_system**.  The client of one address moves it between two MACs; the other
  address has one of the two, so that the list of a MAC has both, one or none, and goes
  stale.  Learns, moves and agings of that MAC fall between any two steps of a call.  The
  ASIC's neighbours keep their next hops (`HwNeighborsHeld`), and the key list, which
  GetBulk walks, names each of them once (`KeysExact`), although a MAC move stores a
  neighbour again after its delete.  `MaxListed` and `MaxRef` bound lists and counts: the
  double count of a neighbour create accumulates.
* **l3_system**.  The interaction of both.  What fails in it, the release of a next
  hop while a route delete is queued, is the run `l3_release`; what holds despite
  it is `l3_system`.
* **intf_system**.  Two ports give VLANs with both as members, two handlers at once in
  one VLAN, and two reserved VLANs; one client VLAN is enough for every operation,
  a port going from it to an address and back included.  `MaxIps` (two addresses)
  is what shares a reserved VLAN between the families; `MaxMembers` bounds the
  memberships of the client's VLANs and does not bind with one VLAN of two ports.
  `HwFollowsConfig` covers members and admin state changed in one update;
  `PvidJustified` that a port that left its VLANs is accepted elsewhere;
  `SysVlansServePorts` the reserved VLAN against the reference count;
  `ActiveCountsExact` and `IpOperSound` that link events are neither lost nor counted
  twice when configuration does not overlap them; `TrapsFollowAdmin` the ASIC's
  routes to the CPU.
* **acl_system**.  Two ACLs share two rules; with three tables the count of tables
  ever created reaches its limit while a table is in use, and with three entries
  and `MaxAttach` 2 a table holds a rule twice and fills up (a failed update leaves
  a rule attached, which is how it is attached again).  `ConfiguredInHw` is what
  the client was told: an ACL it stored has an entry for each of its rules, after
  any crash, restore and partial failure, while fewer ACLs are configured than there
  may be tables (two of three here).  `TablesReachable` says no table is hidden behind another of its name,
  `RulesInHwKept` that a rule cannot be deleted under its entries, `UpdatesReachHw`
  that an update that succeeds has reached every entry.
* **virt_system**.  Loopbacks and secondary sub-interfaces share ids, so one loopback
  and three sub-interfaces, two of them overlapping and one on a parent without a
  link, meet every way of taking, freeing and losing an id; ids run out, which ends
  a behaviour.  Two clients create sub-interfaces, one of which also deletes and updates
  them: creates overtake each other and fall into the window of a delete in which the
  ifIndex is free and the entry still listed.  One death is enough for a crash in any step,
  with a restart that finds some links and not others; a second one would interrupt the
  restore.
* **lag_system**.  Two ports in two LAGs ("serial") and two ports moving through one
  LAG under two link handlers ("lag", `MaxLags` 1).  `MembersAgree` compares four
  mirrors of the membership; `CountsFollowLinks` that a LAG counts its links through
  every call and event, and that its VLAN and address were told, unless an update kept it
  from them; `CallsReturn` that the nested mutexes of LAG calls and link events
  are free of deadlock, up to the panic of `TellVlan`.  One LAG with an address is enough,
  as nothing is shared between addresses.  `MaxActive` keeps the count of the VLAN, which an
  update that overlaps an event lets drift, within a bound.

* **ipv6_system**.  In `Calm` one port changes between all shapes of object and both ask
  for a link local address of a pool with one to spare, so that a freed address which
  keeps the name of its interface is met (`l3IntfMgr.go:750`); ports change between calls.
  In `Stormy` both ports ask for the same global address and one object changes its admin
  state, so that calls are refused and undone half way; ports change in the middle of
  them, every update disables IPv6 of one port as it does for port 0, and the process dies
  at any step.  `KernelFollows` is that the addresses
  the kernel drops with a link come back with it; `ObjectsConfigured` that an
  interface has the addresses of its object, a reserved VLAN while it has any, and a
  count that is right; `RestoreComplete` that Init brings back what the database holds,
  wherever in a call the process died; `PoolAgrees` that
  the marks of the pool are those of the database, whatever was refused.  The first two
  speak of ports that are not `amiss`, and `KernelFollows` of objects that keep their admin
  state and scenes without disabled ports and without changes in the middle of calls.
  `KernelFollows`, `ObjectsConfigured` and `PoolAgrees` speak of the time before a
  restart: the restored marks are inverted (section 2).

Fairness.  `route_system`: the goroutines `RouteOpHandlerFunc`,
`UpdateIpRouteStateDbInfo` and the StartRouteServer of each plugin are endless
loops that the Go scheduler runs, so each has weak fairness.  `lag_system` and
`lag_deadlock`: a call that has begun and a link handler go on whenever they can,
with strong fairness, since what they wait for is a mutex others take in between and
Go's mutexes hand it to a waiter that was passed over.  No client is fair: nobody
has to make another call.

The three violated properties quote a comment or error text of the code; each is a
finding in `PROJECT.json` with its consequence.  Other disagreements are in the
models without a run of their own: the group that a changed route leaves behind
(`nexthopMgr.go:435`), the reference of a single next hop that gets a connected one
beside it (`routeMgr.go:386`, seen by TLC with a `Connected` that is not empty), the
MAC cross reference that an update to another MAC leaves as it was
(`ipv4Mgr.go:410`) and a MAC entry that is marked for neighbours that are gone
(`l2Mgr.go:188`), the neighbour that an update stores again after its delete
(`neighborMgr.go:197`), overlapping sub-interfaces of two creates (`l3IntfMgr.go:1261`), the
place of a sub-interface that goes stale (`l3IntfMgr.go:1335`), the VLAN and address of a
LAG that an update makes inactive (`lagMgr.go:357`), and the freed link local address that is
taken for the one in use (`l3IntfMgr.go:750`, `807`).

## 4. Proofs

The last part of `L3Proofs` proves of `NextHopPool`, for every finite set of next hops and
every bound, `PoolTypeCorrect`, `CountsAreExact`, `EntriesAreCounted`, `NeverRemovedInUse`,
`TablesDescribeHw` and `GroupsHaveTheirMembers`.  Assumptions: `NextHopAssumption` (finitely
many addresses) and `BoundsAssumption`.

The inductive invariant is `TablesInv == PoolTypeOK /\ CountsExact /\ EntriesCounted /\
GroupsInHw`.  `CountsExact` alone is not inductive: a refused removal would leave
an entry at count zero that the next create would count from; `EntriesCounted`
excludes it, and needs in turn that when a count reaches zero no group of the
ASIC still has the next hop.  That is `GroupsInHw` (the ASIC has exactly the
groups of the table) with `CountsExact`: a group of the table is a user.  The
lemmas `TakeMembersEffect` and `ReleaseMembersEffect` say what creating or deleting
a group does to all counts at once, `AddGroupCounts` and `RemoveGroupCounts` that
this matches the change in `Users`; cardinalities come from `GroupsAdd` and
`GroupsRemove`.

`IntfProofs` first proves two properties of `IntfSystem` for every set of ports, VLANs and
link handlers and for both values of `Overlap`.  `AsicFollowsConfig`
(`HwFollowsConfig`) rests on `UpdateReachesNew`, that the removals and additions of an
update lead from the old lists to the new ones in whatever way members and admin
state change together, and on `SysVlanIsReserved`, that the IP interface manager
only touches reserved VLANs; `VlanAssumption` keeps those apart from the client's.
`TrapsAreExact` (`TrapsFollowAdmin`) is not inductive alone: between the plugin call
and the store of a new address the ASIC is one address ahead, so `TrapInv` follows
the call (`NoIpPending`, `IpPending`, `IpAdded`) and keeps that the address being created is
not in the table; link handlers change operational states only
(`L2ChangeKeepsAdmin`).  `NoneAssumption`, `NoneIpAssumption` and `NoneLinkAssumption`
say that the empty entry is no entry, no call and no handler.

From `Overlap = FALSE` the same module proves `PvidsAreJustified` (`PvidJustified`),
`ReservedVlansServePorts` (`SysVlansServePorts`), `ActiveCountsAreExact`
(`ActiveCountsExact`) and `PortAddressesFollowLinks` (`IpOperSound`), for any finite
set of ports.  The hypothesis is needed: `vlan_link_race` shows what a handler stores
when the client changes the VLAN after the handler copied the table.  Handlers of
several links do interleave.  All four follow from one invariant, `HwInv /\ ApartInv`.
A call acts before it stores, so `ApartInv` speaks of the table with the entry in
hand stored (`Db`), and of an address as held by its port (`Holds`) from the moment
`l3IntfRefCount` counts it, and as awaited (`Awaits`) before: `ServeInv` says that a
reserved VLAN has one port, which holds or awaits an address, and that a port that
holds one has one reserved VLAN.  `PvidInv` follows PVIDs into both kinds of VLAN.
`LinkInv` says that the entries a handler has still to process differ from the table in
the active count and the operational state only, and that two handlers have different
ports; with it `CountInv` holds in every state: the count of a VLAN has seen the new
state of a link exactly when the handler of the link has processed the VLAN (`Late`,
`Seen`).  That a VLAN a handler has yet to process cannot vanish, so that
`ProcessVlanPanics` cannot happen, is part of `LinkInv` too.  `HwInv` is there for the
update of a VLAN, whose lists in the ASIC are worked out from those it has.

`AclProofs` first proves `TablesAreReachable`, `RulesAreKept` and `UpdatesAreApplied` for any
sets of ACLs, rules and contents, any sizes of the tables and any number of clients,
from `Prefix = {}`, `Overlap = FALSE` and the module's assumptions.  The properties
speak of states between calls; the inductive invariant has to say what each point
of a call knows.  `Held` (a rule with an entry is stored and attached, unless it is
just being removed) carries `RulesInHwKept`; a new entry needs that the rule being
applied is attached and stored (`Applies`), and no rule with an entry may be deleted
(`Stores`).  `Updates` says that every entry of a rule not yet updated is in a table
that is still on the list of the call; when the list is empty, `Stores` takes over.
`TablesReachable` is needed throughout: only if a name has one table does the search
of the plugin (`FoundIsTheTable`) find the entry the manager means.  `FirstIsFound`
and `WithoutAclKeeps` are the facts about least indices and list removal.

`ConfiguredAclsAreInHw` (`ConfiguredInHw`) adds that there are more places for tables
than ACLs.  It needs a second invariant, `CInv`, on top of the first: where that one says
that an entry of the ASIC is meant to be there, this one says that an entry that is
meant is there.  `Configured` says it of every stored ACL but those that are `Changing`:
waiting for Init, or losing rules in a call whose reply would change the database.
`Works` is what a call has done so far (each rule it has been through has its entry, and a
rule the ASIC can refuse has ended it), `Checks` that a content the ASIC would refuse is
stored for no rule of a stored ACL, so that Init, which gives up an ACL at the first error,
meets none (`Restorable`).  `Restoring` says that Init fills empty tables and applies each
rule once; with `Counted` (aclTableCount never falls behind the tables in use) it
follows by counting places that the ASIC refuses Init neither a table nor an entry: the
entries of a table are at most the rules of its ACL (`FS_Injection`).  With as
many ACLs as places the property fails: saiAcl.c never decrements aclTableCount, so
an ACL that was created and deleted uses up a place until the next restart, and a call
on another one then fails half way.

`RouteProofs` proves three theorems about `RouteSystem` for any prefixes and next hops,
connected and null ones included, and for every schedule of the goroutines.
`RInv` is the route database: what each phase of the handler knows of the prefix it
works on (`JobInv`: `Adds`, `Removes`), that every other prefix is `Settled` (its group is
that of its next hops, or it has none), that the counter is the number of pairs of
stored prefixes and their counted next hops (`CountInv`), and that the keys are the
prefixes once the last message about each is applied (`KeyInv`).  From it follow
`RouteCountIsExact` (`RouteCountExact`) and `KeysFollowDb` (`KeysMatchDb`).
`KernelFollowsDb` (`KernelAgrees`, when "linux" is a plugin) adds `LinuxInv`.  A receiver
that is behind is described by `Before`: the last message in its channel about a key,
the state of the receiver counting as message 0, so that an invariant compares the
database with the last message and a message with the one before it.
`PrefixAssumption`: finitely many prefixes.

The second half of the module is about next hops, groups and the ASIC: `NoRouteDangles`
(`NoDanglingRoute`), `RouteGroupsAreKnown` (`RouteGroupsKnown`), `RouteCountsAreExact`
(`RouteCountsExact`), `AsicFollowsDb` (`AsicAgrees`) and `AsicImplementsFib`, the
refinement of `Fib` without its fairness: initial states map to initial states and
every step to a step of `Fib` or a stutter.  The invariant is `AInv`: the database
(`DbInv`), the tables of the next hop manager (`NhInv`), a reference for each use of a
next hop or a group (`RefsInv`), the messages on the way to the ASIC with the group
each names (`ChannelInv`), `NoDanglingRoute` and what the signal on the DoneChannel
stands for (`DoneInv`).  A group the handler has given up is still named by the entry
of the ASIC until the plugin answers: `ChannelInv` with `DoneInv` says that the answer
comes after the last message that names it.  These theorems have the
hypothesis `OrdinaryOnly`, that no next hop is connected or null: a route through
such a next hop takes no reference, but gives one back when a second one joins it
(`routeMgr.go:386`), so the counts are wrong without it.

`L3Proofs` proves `RoutesKeepTheirNextHops` (`RoutesHoldTheirNextHops`) and
`PluginsFollowDb` (`PluginsAgree`) for any prefixes, next hops, clients, MACs and ports,
with `OrdinaryOnly`.  Its invariant `L3Inv` keeps what `RouteProofs` knows of the
database and of the kernel's channel, but `AInv` is false here: a neighbour of a next hop
that exists counts two references, the ASIC may refuse a removal and leave an entry
with count zero (`l3_release` shows it), and a create may reach the ASIC when its next
hop is gone, because the handler does not wait while somebody else counts the next hop.
So `Loose` only bounds the counts from below, by what routes (`SingleNh`, `HeldGroup`),
groups (`Memberships`) and neighbours (`NbrHolds`) hold; nobody but the route handler
takes groups, and the counts it has read of them stay true (`GroupRefs`).  `NbrInv` says
at every step of a call of the neighbour manager whether its address is held.
In the channel, a create whose next hop may be gone is always followed by a delete of its
prefix: `LiveInv` and `LiveHeld` ask consistency, and that what they refer to is held,
only of the creates no delete follows, and the ASIC's answer to any other is overtaken
before the queue is drained.  What the ASIC's routes use is never removed (`HwInv`,
`KeepsBusy`), as it refuses that.

`NeighborProofs` proves `NeighborsKeepTheirNextHops` (`HwNeighborsHeld`) and
`KeysAreExact` (`KeysExact`) for any clients, addresses, MACs and
ports, whatever MACs the clients report, with no hypothesis.  In `CoreInv`, `Where` is
the step the call of an address's owner has reached, and `HoldOf` relates it to the
references: an entry of the ASIC has a reference of its own from the step that takes it
to the one that gives it back (`NeighborHolds`).  `KeysInv` adds the key list: the key of an
address is there from the step that stores a created neighbour to the last one of its
delete (`KeyOf`), and so twice never, since a create begins only when the owner of the
address has finished its delete.  A neighbour that a MAC move stores again has lost its key
and its entry in the ASIC, which is why the list is compared with the ASIC.  The loop of
`RemoveIp` is a recursive function; `RemoveIpType`, that it
ends in a list of addresses or a panic, is proved from its defining
equation by the least counterexample (`IntervalInduction`).  Assumptions: each
address is configured by one client (`OwnerAssumption`), FDB events come from no
client (`FdbAssumption`), the empty entries are no entries (`NbrNoneAssumption`), and
`MacsOfAssumption`, `SeenAssumption`, `RoutedAssumption` for the other constants.

`LagProofs` proves `MembersAlwaysAgree` (`MembersAgree`) and `CountsAlwaysFollow`
(`CountsFollowLinks`) for any finite set of ports, any LAG ids and names; the first
for every schedule, "any" included: a deadlock stops the calls, it
does not make the mirrors disagree.  Its invariant has a part for each phase of a
call (`Settled`, `Creating`, `Updating`, `Updated`, `Deleting`, `Deleted`) that says which
table the plugins follow: the one there is (`PluginsFollow`) or the one the call will
store (`PluginsAhead`).  Link handlers change counts only, and the table is theirs
while they hold `lagLock` (`LinkInv`), so that the members a call has copied stay
those of the table.  `CountsAlwaysFollow` is about "serial" schedules, where a call or
an event runs alone.  In `SerialInv` either no event is handled (`Calling`: every LAG is
`Counted`, but for the one a creation or deletion is at) or one port's is (`Handling`):
it says how far the handler has come in telling the LAG, its VLAN and its address
(`Telling`), and that the count of each is one `Behind` until it is told.  What VLAN and
address know (`VlanTold`, `IpTold`) is claimed for a LAG that is not `silent`, and kept by
an event too: the handler tells them exactly when the count comes to or from zero.
`CountFollowsPort` is the step from the set of ports that are up to its cardinality.
`LinkNoneAssumption`: the empty entry is no call and no number.
`CreateEffect`, `UpdateEffect` and `DeleteEffect` say what the
plugins' operators make of membership.

`VirtProofs` proves `LoopbacksSurvive` (`LoopbacksKept`) for any interfaces, addresses,
tunnels and any number of crashes, if one client configures the loopbacks
(`OneLoClient`), `IfIndexesAreUnique` (`IfIndexUnique`) for any number of clients that
create sub-interfaces, if one of them deletes and updates (`OneEditor`), and `NamesAlwaysResolve`
(`NamesResolve`) from both.  A client here is a connection, whose calls `src/rpc` handles
one after the other; two editors free an ifIndex twice.
For the ids, `UInv` looks at the whole state as a set of ids with the places they are
kept in (free lists, databases, calls under way): an id is in one place (`Unique`) and
was given out (`Given`).  An entry whose delete has freed the id (`Leaving`) is no
place any more; that it is still the entry the delete found is what `OneEditor` gives.
Between calls a configured loopback is there; in the invariant (`LoInv`) it may also be
one the restore has still to apply (`boot`), is just creating (`Restoring`), or one
that is being deleted (`Deleting`), and `Made` says what a creation has reached, which
is what its return needs.  That clients wait for the restore is part of `CallType`.
`NamesInv` says of every interface, and of every call that carries an ifIndex (`Held`), that
the maps of `ifMgr.go` have its name (`Named`) and, if no other interface ever takes that
name (`Own`), lead back to it (`Found`), and that no free ifIndex has a name.
That a new allocation overwrites none of them is `UInv` for the ids and, for the names,
`FreshInv`: a loopback is created, also by the restore, only where there is none.
`NamesAssumption` keeps the names of loopbacks,
sub-interfaces and VTEPs, temporary ones included, apart, and the empty name.

`Ipv6Proofs` proves `PoolAlwaysAgrees` (`PoolAgrees`) for any ports, addresses and
scenes.  A mark and the entry it stands for are set and cleared by different functions;
`PoolInv` says which of the two the call has done, and that an address waiting to be
stored is free, in the pool and in no entry (`CallInv`); ports that change do not touch
either, which is why no hypothesis is needed.

`ObjectsAlwaysConfigured` (`ObjectsConfigured`) needs no hypothesis either: any scenes, pools
of any size, any number of ports that ask, ports that change in the middle of calls.  For
each port that is not `amiss`, `ObjInv` relates the addresses in the database,
`l3IntfRefCount` and the reserved VLAN: between calls they are those of the port's object
(`Settled`); for the port of the call, `PhaseOf` has a case for each phase: about to
delete the global address, or the link local one, or to add the first address, or the
second, or to set a state, each with what the tables have then (`Has`, and `Gets` while an
address is on its way) and with the operations that are left.  A call
that starts is in a phase, each operation leads to the next phase or to the end, or its
port is amiss from then on (`ProceedStays`), and an operation for one port leaves the
addresses of the others (`Same`), for which `PoolInv` is needed: a link local address that is
free is in no entry.

`RestoreAlwaysComplete` (`RestoreComplete`) holds after any number of crashes, at any step of
a call or of Init itself.  Init finds empty tables and links, the objects of the database
and the stored link local addresses, which need not agree (a crash between the two
writes).  `Boot`: what Init has left to do is a list without repetition of what the database
asks for, the stored addresses last, and each port has exactly the addresses that are off
the list (`Booted`, and `Booting` while one is on its way), with the count of them.  This is
for the ports that are `Fit`: no other object has the global address of the port's object,
which Init would refuse, and the kernel chooses no address of the pool for its link.
`FiniteAssumption`: there are finitely many ports and link local addresses, so that Init's
list exists; `NoneAssumption`: none is no call and no entry of the cache.

Only model-checked: liveness (`HandlerReturns`, `CallsReturn` and the fairness of
`Fib`: liveness and ENABLED are beyond the prover), and `KernelFollows`, which relates the
cache of the soft switch and the kernel's links as well.
Recursive operators are avoided; induction over data is beyond the provers
installed.

## 5. Not modelled

* **STP** passes group and port states on to the plugins; **MPLS**: the body of the
  manager is commented out; **performance**: the manager sets `enabled` only where it is
  asked to stop, so it never runs; **statistics and infrastructure** read counters that
  nothing else reads.
* **Publisher** and notifications: the channels are drained to a socket without
  condition.  A sender that blocks while it holds a lock is a listed hazard.
* **Plugin life cycle**, signals and start order (section 1); port **breakout**, speed
  and optics, which set attributes.
* **CoPP** sets counters and rates at start.  The soft switch answers every ACL call
  with a constant, as the SAI plugin does every call about loopbacks and VTEPs.
* **Warm boot** (restoring databases from the ASIC), and the restore of routes,
  VLANs, LAGs and IPv4 addresses at start.
* IPv6 sub-interfaces, IPv6 addresses on client VLANs, LAGs as members of other VLANs, hosts of
  a VXLAN's bridge; conversion of thrift objects, logging and the state database.
* Concurrent access to a Go map inside one operation has no defined outcome;
  operations on a table are atomic here.

## 6. Plan

1. (done) Next hop manager with proofs; route manager; neighbours and MAC table;
   their composition.
2. (done) VLAN manager, IP interfaces and link events: `VlanMgr`, `L3IntfMgr`,
   `IntfSystem`.
3. (done) ACLs with the tables of the SAI plugin, crash and restore: `SaiAcl`,
   `AclMgr`, `AclProofs`.
4. (done) ifIndexes, loopbacks, sub-interfaces and VTEPs: `IfMgr`, `VirtIntf`,
   `VirtProofs`.
5. (done) LAGs, link events and the mutexes taken inside each other: `LagMgr`,
   `LagSystem`, `LagProofs`.
6. (done) Proofs of `RouteSystem`, the step refinement of `Fib`, `NeighborSystem`,
   the link counts of `LagSystem`, the ids, names and links of `VirtIntf`, the VLANs and
   states of `IntfSystem`; `Ipv6Intf`.
7. (done) Proofs of `ConfiguredInHw`, of `L3System` and of `Ipv6Intf`.
8. LAGs as members of VLANs; the restore of VLANs and LAGs.
