------------------------------ MODULE Ipv6Intf ------------------------------
(***************************************************************************)
(* IPv6 addresses from the configuration down to the kernel: the calls of  *)
(* src/rpc/l3Services.go, the database and the pool of link local          *)
(* addresses of the IP interface manager (src/pluginManager/l3IntfMgr.go,  *)
(* ipv6Mgr.go) and the softswitch plugin                                   *)
(* (softSwitch/softSwitch.go), which caches the addresses of each link     *)
(* because the kernel drops them when the link goes down.                  *)
(*                                                                         *)
(* Abstractions.  The interfaces are ports that are not in L2 mode; two    *)
(* global addresses match if they are equal.  One daemon configures, one   *)
(* call at a time; the admin state of ports is another client's.  The      *)
(* other plugins answer every call (IntfSystem has them), and no file of   *)
(* /proc refuses a write.                                                  *)
(***************************************************************************)
EXTENDS Integers, FiniteSets, SequencesExt

CONSTANTS
  Port,
  Global,       \* global addresses
  LinkLocal,    \* link local addresses
  AutoAddr,     \* the one the kernel gives each link
  Scenes,       \* what may happen: the records of SceneType
  MaxCount,     \* bound on l3IntfRefCount from below, and on the count of a link
  None

Admin == {"UP", "DOWN"}
Addr == Global \cup LinkLocal
Object == {o \in [intf : Port, ip : Global \cup {None}, link : BOOLEAN, admin : Admin] :
             o.ip # None \/ o.link}

\* The objects that may be configured, the link local addresses of
\* autoGenSystemIpv6linklocalAddr, the ports whose IPv6 every port update
\* disables (AdminPort), whether ports change and the process dies between
\* calls only, and a bound on restarts.
SceneType == [config : SUBSET Object, pool : SUBSET LinkLocal, disabled : SUBSET Port,
              calm : BOOLEAN, restarts : Nat]

ASSUME FiniteAssumption == IsFiniteSet(Port) /\ IsFiniteSet(LinkLocal)
ASSUME AddrAssumption == None \notin Addr \cup Port \cup Object /\ Global \cap LinkLocal = {}
ASSUME AutoAssumption ==
  AutoAddr \in [Port -> LinkLocal] /\ \A i, j \in Port : AutoAddr[i] = AutoAddr[j] => i = j
ASSUME SceneAssumption == Scenes \subseteq SceneType

\* The operations a client's call consists of, and those of the call that
\* stands for Init after a restart.  No call and no cache entry is taken for
\* none.
Operation ==
  [do : {"addGlobal", "addLink", "delGlobal", "delLink", "setGlobal", "setLink", "undo"},
   object : Object]
InitOperation ==
  [do : {"addGlobal", "addStored"},
   object : [intf : Port, ip : Addr, link : BOOLEAN, admin : Admin]]
ASSUME NoneAssumption ==
  /\ None \notin [req : {"create", "update", "delete"}, intf : Port, object : Object \cup {None},
                todo : Seq(Operation), addr : Addr \cup {None}]
  /\ None \notin [req : {"boot"}, intf : {None}, object : {None},
                todo : Seq(InitOperation), addr : Addr \cup {None}]
  /\ None \notin [configured : Int, ls : Addr \cup {None}, gs : Addr \cup {None}]

VARIABLES
  ipv6DB,    \* the addresses, each with its port and admin state
  linkLocal, \* linkLocalMap
  llStored,  \* the LinkScopeIpState objects of the database
  refCount,  \* l3IntfRefCount, for the reserved VLAN of each port
  sysVlan,   \* ports that have one
  linuxIp,   \* linuxIpAddrInfo: count, link local and global address of a link
  kUp,       \* the kernel: links that are up,
  kV6,       \*   links with IPv6 enabled,
  kAddr,     \*   and the addresses of each
  cfg,       \* the IPv6Intf objects of the database, written when a call succeeds
  call,      \* the call in progress, with the operations it has left
  restarts,
  amiss,     \* ports of which a call went wrong half way (a history variable)
  scene      \* the scene of this behaviour

mgrVars == <<ipv6DB, linkLocal, llStored, refCount, sysVlan>>
linuxVars == <<linuxIp, kUp, kV6, kAddr>>
vars == <<mgrVars, linuxVars, cfg, call, restarts, amiss, scene>>

NoAddresses == [configured |-> 0, ls |-> None, gs |-> None]

\* autoGenSystemIpv6linklocalAddr.
FreshPool == [a \in scene.pool |-> [intf |-> None, used |-> FALSE]]

\* InitPortStateDB disables IPv6 on every link.
Init ==
  /\ scene \in Scenes
  /\ ipv6DB = {}
  /\ linkLocal = FreshPool
  /\ refCount = [i \in Port |-> 0]
  /\ sysVlan = {}
  /\ linuxIp = [i \in Port |-> None]
  /\ kV6 = {}
  /\ kAddr = [i \in Port |-> {}]
  /\ llStored = [a \in scene.pool |-> None]
  /\ kUp \in SUBSET Port
  /\ cfg = [i \in Port |-> None]
  /\ call = None
  /\ restarts = 0
  /\ amiss = {}

-----------------------------------------------------------------------------
(***************************************************************************)
(* Calls.  What CreateIPv6Intf, UpdateIPv6Intf and DeleteIPv6Intf do next, *)
(* given whether their last operation succeeded.                           *)
(***************************************************************************)
Op(do, object) == [do |-> do, object |-> object]
GlobalOp(do, object) == IF object.ip = None THEN << >> ELSE <<Op(do, object)>>
LinkOp(do, object) == IF object.link THEN <<Op(do, object)>> ELSE << >>

CreateOps(new) == GlobalOp("addGlobal", new) \o LinkOp("addLink", new)
DeleteOps(old) == GlobalOp("delGlobal", old) \o LinkOp("delLink", old)

\* (Mutant: the old link local address stays.)
UpdateOpsKeepLink(old, new) ==
  IF old.ip # new.ip \/ old.link # new.link
  THEN GlobalOp("delGlobal", old) \o CreateOps(new)
  ELSE <<Op("setGlobal", new)>> \o LinkOp("setLink", new)

UpdateOps(old, new) ==
  IF old.ip # new.ip \/ old.link # new.link
  THEN DeleteOps(old) \o CreateOps(new)
  ELSE <<Op("setGlobal", new)>> \o LinkOp("setLink", new)

Start(req, i, object, ops) ==
  /\ call = None
  /\ \A p \in Port : /\ refCount[p] > -MaxCount
                     /\ linuxIp[p] # None => linuxIp[p].configured <= MaxCount
  /\ call' = [req |-> req, intf |-> i, object |-> object, todo |-> ops, addr |-> None]
  /\ UNCHANGED <<mgrVars, linuxVars, cfg, restarts, amiss>>

CreateIPv6Intf ==
  \E new \in scene.config : /\ cfg[new.intf] = None
                      /\ Start("create", new.intf, new, CreateOps(new))

UpdateIPv6Intf ==
  \E new \in scene.config : /\ cfg[new.intf] \notin {None, new}
                      /\ Start("update", new.intf, new, UpdateOps(cfg[new.intf], new))

DeleteIPv6Intf ==
  \E i \in Port : /\ cfg[i] # None
                  /\ Start("delete", i, None, DeleteOps(cfg[i]))

Doing(op) ==
  call # None /\ call.todo # << >> /\ call.addr = None /\ Head(call.todo).do = op
Current == Head(call.todo).object

\* A failure ends the call, is undone, or is passed over.
Ends(op) ==
  \/ call.req = "create" /\ op = "addGlobal"
  \/ call.req = "update" /\ op \in {"delGlobal", "addGlobal", "setGlobal", "setLink"}
Undone(op) == call.req \in {"create", "update"} /\ op = "addLink" /\ call.object.ip # None

\* The reply is that of the last operation, or of an update that got there; it
\* reaches a client that then stores the object (StoreObject).
Reply(success) ==
  call' = IF success /\ call.req # "boot" THEN [call EXCEPT !.todo = << >>, !.addr = None] ELSE None

\* An operation has succeeded or not, and done all of what it is for and
\* nothing else, or not.
Proceed(ok, clean) ==
  LET op == Head(call.todo).do
      rest == Tail(call.todo)
  IN /\ \/ ~ok /\ Undone(op) /\ call' = [call EXCEPT !.todo = <<Op("undo", call.object)>>]
        \/ ~ok /\ Ends(op) /\ Reply(FALSE)
        \/ /\ ok \/ ~(Ends(op) \/ Undone(op))
           /\ rest # << >>
           /\ call' = [call EXCEPT !.todo = rest, !.addr = None]
        \/ /\ ok \/ ~(Ends(op) \/ Undone(op))
           /\ rest = << >>
           /\ Reply(ok \/ (call.req = "update" /\ op # "undo"))
     /\ amiss' = IF clean \/ call.req = "boot" THEN amiss ELSE amiss \cup {call.intf}
     /\ UNCHANGED <<cfg, restarts>>

StoreObject ==
  /\ call # None /\ call.todo = << >>
  /\ cfg' = [cfg EXCEPT ![call.intf] = call.object]
  /\ call' = None
  /\ UNCHANGED <<mgrVars, linuxVars, restarts, amiss>>

-----------------------------------------------------------------------------
(***************************************************************************)
(* CreateIPIntf, and CreateIPIntf of the plugin.                           *)
(***************************************************************************)
VerifyIPConfig(a, i) ==
  \A e \in ipv6DB : e.addr # a /\ (a \in Global => e.intf # i)

\* enableIPv6PerPortLinuxIntf: a link that is up gets a link local address.
Enabled(i) == IF i \in kUp \ kV6 THEN kAddr[i] \cup {AutoAddr[i]} ELSE kAddr[i]

\* getLinkLocalIp finds one link local address; a new one takes its place.
Cleared(i, a) ==
  LET found == Enabled(i) \cap LinkLocal
  IN IF a \in Global \/ found = {} THEN {Enabled(i)} ELSE {Enabled(i) \ ({l} \ {a}) : l \in found}

\* The addresses that are restored were not in use, and Init marks those it
\* could not create.
Refused(a, i, clean) ==
  /\ linkLocal' = IF Doing("addStored") THEN [linkLocal EXCEPT ![a] = [intf |-> i, used |-> TRUE]]
                                       ELSE linkLocal
  /\ Proceed(FALSE, clean)

AdminOf(a) == IF a \in Global THEN Current.admin ELSE "UP"

\* The operation is the first of a create, which is refused without a trace.
\* (The reply to an undone one is that of the undoing, and says success.)
First == call.req = "create" /\ ~Undone(Head(call.todo).do)

ToBeStored(a) == call' = [call EXCEPT !.addr = a] /\ UNCHANGED <<linkLocal, cfg, restarts, amiss>>

\* Up to AddrAdd, which fails for an address the link has.
CreateIPIntf(a) ==
  LET i == Current.intf
  IN /\ \/ /\ ~VerifyIPConfig(a, i)
           /\ Refused(a, i, First)
           /\ UNCHANGED <<sysVlan, kV6, kAddr>>
        \/ /\ VerifyIPConfig(a, i)
           /\ sysVlan' = sysVlan \cup {i}
           /\ \/ /\ AdminOf(a) = "DOWN"
                 /\ ToBeStored(a)
                 /\ UNCHANGED <<kV6, kAddr>>
              \/ /\ AdminOf(a) = "UP"
                 /\ kV6' = kV6 \cup {i}
                 /\ \E there \in Cleared(i, a) :
                      /\ kAddr' = [kAddr EXCEPT ![i] = there \cup {a}]
                      /\ \/ a \in there /\ Refused(a, i, FALSE)
                         \/ a \notin there /\ ToBeStored(a)
     /\ UNCHANGED <<ipv6DB, llStored, refCount, linuxIp, kUp>>

AddGlobal == Doing("addGlobal") /\ CreateIPIntf(Current.ip)

\* CreateIPv6LinkLocalIP.
AddLink ==
  LET unused == {a \in scene.pool : ~linkLocal[a].used}
  IN /\ Doing("addLink")
     /\ \/ \E a \in unused : CreateIPIntf(a)
        \/ unused = {} /\ Proceed(FALSE, First) /\ UNCHANGED <<mgrVars, linuxVars>>

\* IPv6IntfObj.Init for a link local address.
AddStored == Doing("addStored") /\ CreateIPIntf(Current.ip)

\* linuxIpAddrInfo, once the address is in the kernel.
Cached(i, a) ==
  LET info == IF linuxIp[i] = None THEN NoAddresses ELSE linuxIp[i]
  IN [configured |-> info.configured + 1,
      ls |-> IF a \in Global THEN info.ls ELSE a,
      gs |-> IF a \in Global THEN a ELSE info.gs]

\* The rest of CreateIPIntf, and of CreateIPv6LinkLocalIP.
StoreAddress ==
  LET a == call.addr
      i == Current.intf
      new == Head(call.todo).do = "addLink"
  IN /\ call # None /\ a # None
     /\ linuxIp' = IF AdminOf(a) = "UP" THEN [linuxIp EXCEPT ![i] = Cached(i, a)] ELSE linuxIp
     /\ refCount' = [refCount EXCEPT ![i] = @ + 1]
     /\ ipv6DB' = ipv6DB \cup {[addr |-> a, intf |-> i, admin |-> AdminOf(a)]}
     /\ linkLocal' = IF new THEN [linkLocal EXCEPT ![a] = [intf |-> i, used |-> TRUE]] ELSE linkLocal
     /\ llStored' = IF new THEN [llStored EXCEPT ![a] = i] ELSE llStored
     /\ Proceed(TRUE, TRUE)
     /\ UNCHANGED <<sysVlan, kUp, kV6, kAddr>>

-----------------------------------------------------------------------------
(***************************************************************************)
(* DeleteIPIntf, for an address that may not be there.                     *)
(***************************************************************************)
Entry(a, i) == {e \in ipv6DB : e.addr = a /\ e.intf = i}
IsUp(a, i) == \E e \in Entry(a, i) : e.admin = "UP"

\* AddrDel fails for an address the link does not have.
RefusedByKernel(a, i) == IsUp(a, i) /\ a \notin kAddr[i]

\* DeleteIPIntf of the plugin: the last address disables IPv6.
DeleteFromKernel(a, i) ==
  LET info == IF linuxIp[i] = None THEN NoAddresses ELSE linuxIp[i]
      last == linuxIp[i] = None \/ info.configured = 1
  IN /\ linuxIp' = [linuxIp EXCEPT ![i] =
                      IF last THEN NoAddresses ELSE [info EXCEPT !.configured = @ - 1]]
     /\ kV6' = IF last THEN kV6 \ {i} ELSE kV6
     /\ kAddr' = [kAddr EXCEPT ![i] = IF last THEN {} ELSE @ \ {a}]

LastAddress(n) == n = 1

\* The VLAN goes with the last address.  VlanId is -1 on a port that has
\* none, and the count of -1 is of no use to anyone.
DeleteIPIntf(a, i) ==
  /\ \/ IsUp(a, i) /\ DeleteFromKernel(a, i)
     \/ ~IsUp(a, i) /\ UNCHANGED <<linuxIp, kV6, kAddr>>
  /\ ipv6DB' = ipv6DB \ Entry(a, i)
  /\ refCount' = IF i \in sysVlan THEN [refCount EXCEPT ![i] = @ - 1] ELSE refCount
  /\ sysVlan' = IF LastAddress(refCount[i]) THEN sysVlan \ {i} ELSE sysVlan

Untouched == Proceed(FALSE, FALSE) /\ UNCHANGED <<mgrVars, linuxVars>>

DeleteGlobal ==
  LET a == Current.ip
      i == Current.intf
  IN /\ Doing("delGlobal") \/ Doing("undo")
     /\ \/ RefusedByKernel(a, i) /\ Untouched
        \/ /\ ~RefusedByKernel(a, i)
           /\ DeleteIPIntf(a, i)
           /\ Proceed(TRUE, TRUE)
           /\ UNCHANGED <<linkLocal, llStored, kUp>>

\* The addresses of the pool that carry the name of an interface, in use or
\* not: updatelinkLocalEntry writes the name when it frees one as well.
LinkLocalsOf(i) == {a \in scene.pool : linkLocal[a].intf = i}

\* (Mutant: the address is not freed.)
FreedNever(a, i) == [linkLocal EXCEPT ![a].intf = i]

Freed(a, i) == [linkLocal EXCEPT ![a] = [intf |-> i, used |-> FALSE]]

\* DeleteIPv6LinkLocalIP, which may find one that is not in use.
DeleteLink ==
  LET i == Current.intf
  IN /\ Doing("delLink")
     /\ \/ LinkLocalsOf(i) = {} /\ Untouched
        \/ \E a \in LinkLocalsOf(i) :
             \/ RefusedByKernel(a, i) /\ Untouched
             \/ /\ ~RefusedByKernel(a, i)
                /\ DeleteIPIntf(a, i)
                /\ linkLocal' = Freed(a, i)
                /\ llStored' = [llStored EXCEPT ![a] = None]
                /\ Proceed(TRUE, Entry(a, i) # {})
                /\ UNCHANGED kUp

\* UpdateIPIntf: the softswitch's does nothing, and an address that is in no
\* entry is no error.
SetAdmin(a, i) ==
  /\ ipv6DB' = (ipv6DB \ Entry(a, i)) \cup {[e EXCEPT !.admin = Current.admin] : e \in Entry(a, i)}
  /\ Proceed(TRUE, Entry(a, i) # {})
  /\ UNCHANGED <<linkLocal, llStored, refCount, sysVlan, linuxVars>>

\* An object without a global address has none to parse.
SetGlobal ==
  /\ Doing("setGlobal")
  /\ \/ Current.ip # None /\ SetAdmin(Current.ip, Current.intf)
     \/ Current.ip = None /\ Proceed(FALSE, TRUE) /\ UNCHANGED <<mgrVars, linuxVars>>

\* UpdateIPv6LinkLocalIP.
SetLink ==
  LET i == Current.intf
  IN /\ Doing("setLink")
     /\ \/ \E a \in LinkLocalsOf(i) : SetAdmin(a, i)
        \/ LinkLocalsOf(i) = {} /\ Untouched

-----------------------------------------------------------------------------
(***************************************************************************)
(* UpdatePortConfig of the plugin, for the admin state.  The ten zeros of  *)
(* breakOutPortsList stand for port 0 where the softswitch controls the    *)
(* ports, and the plugin disables IPv6 on the ports of the list.           *)
(***************************************************************************)
Quiet == scene.calm => call = None

\* main starts the server when Init is through.
Serving == call # None => call.req # "boot"

\* DeleteLinuxIPV6LSAddress, then AddIPv6AddressBack.
\* (Mutant: the address the kernel chose stays.)
RestoredBeside(i, there) ==
  IF linuxIp[i] = None THEN there
  ELSE there \cup ({linuxIp[i].ls, linuxIp[i].gs} \ {None})

Restored(i, there) ==
  IF linuxIp[i] = None THEN there
  ELSE (there \ LinkLocal) \cup (there \cap {linuxIp[i].ls})
         \cup IF i \in kV6' THEN {linuxIp[i].ls, linuxIp[i].gs} \ {None} ELSE {}

\* What the kernel does with the addresses of a link that goes up or down.
AfterUp(i, there) ==
  there \cup IF i \in kV6' \ kUp THEN {AutoAddr[i]} ELSE {}
AfterDown(i, there) == IF i \in kUp THEN {} ELSE there

AdminPort(i, state) ==
  LET kept == [p \in Port |-> IF p \in scene.disabled THEN {} ELSE kAddr[p]]
  IN /\ Quiet /\ Serving
     /\ kV6' = kV6 \ scene.disabled
     /\ kUp' = IF state = "UP" THEN kUp \cup {i} ELSE kUp \ {i}
     /\ kAddr' = [kept EXCEPT ![i] = IF state = "UP" THEN Restored(i, AfterUp(i, @))
                                                    ELSE AfterDown(i, @)]
     /\ UNCHANGED <<mgrVars, linuxIp, cfg, call, restarts, amiss>>

(***************************************************************************)
(* A restart: IPv6IntfObj.Init creates the addresses of the objects in the *)
(* database, then the link local ones.                                     *)
(***************************************************************************)
StoredObject(a) == [intf |-> llStored[a], ip |-> a, link |-> TRUE, admin |-> "UP"]

\* (Mutant: the link local addresses are left to the calls.)
BootOpsGlobal ==
  SetToSeq({Op("addGlobal", cfg[i]) : i \in {p \in Port : cfg[p] # None /\ cfg[p].ip # None}})

BootOps ==
  LET objects == {cfg[i] : i \in {p \in Port : cfg[p] # None /\ cfg[p].ip # None}}
      stored == {StoredObject(a) : a \in {b \in scene.pool : llStored[b] # None}}
  IN SetToSeq({Op("addGlobal", o) : o \in objects}) \o SetToSeq({Op("addStored", o) : o \in stored})

Restart ==
  /\ Quiet
  /\ restarts < scene.restarts
  /\ restarts' = restarts + 1
  /\ ipv6DB' = {}
  /\ linkLocal' = FreshPool
  /\ refCount' = [i \in Port |-> 0]
  /\ sysVlan' = {}
  /\ linuxIp' = [i \in Port |-> None]
  /\ kV6' = {}
  /\ kAddr' = [i \in Port |-> {}]
  /\ call' = IF BootOps = << >> THEN None
             ELSE [req |-> "boot", intf |-> None, object |-> None, todo |-> BootOps, addr |-> None]
  /\ UNCHANGED <<llStored, kUp, cfg, amiss>>

Next ==
  /\ \/ CreateIPv6Intf \/ UpdateIPv6Intf \/ DeleteIPv6Intf
     \/ AddGlobal \/ AddLink \/ AddStored \/ StoreAddress
     \/ DeleteGlobal \/ DeleteLink \/ SetGlobal \/ SetLink
     \/ StoreObject
     \/ \E i \in Port, state \in Admin : AdminPort(i, state)
     \/ Restart
  /\ UNCHANGED scene

Spec == Init /\ [][Next]_vars

-----------------------------------------------------------------------------
AddrsOf(i) == {e.addr : e \in {f \in ipv6DB : f.intf = i}}
LinksOf(i) == AddrsOf(i) \cap LinkLocal

\* l3IntfRefCount counts the addresses of a port, and the port has its
\* reserved VLAN exactly as long as it has some.
Counted(i) == refCount[i] = Cardinality(AddrsOf(i)) /\ (i \in sysVlan <=> AddrsOf(i) # {})

GlobalOf(o) == IF o = None THEN {} ELSE {o.ip} \ {None}

\* An interface has the addresses of its object: its global one, and one link
\* local address if it asks for one.
AsConfigured(i) ==
  /\ AddrsOf(i) \cap Global = GlobalOf(cfg[i])
  /\ Cardinality(LinksOf(i)) = IF cfg[i] # None /\ cfg[i].link THEN 1 ELSE 0
  /\ Counted(i)

\* Calls that delete and create two addresses each, with a reply that is the
\* last step's and a VLAN that goes with the last address (l3Services.go:607,
\* l3IntfMgr.go:686), leave every interface as its object says,
\* whatever the links of the kernel and the calls for other ports do: until a
\* call for this port goes wrong half way, by an address the kernel refuses, one
\* that is undone, or a freed one that is taken for the one in use.
ObjectsConfigured ==
  restarts = 0 /\ call = None => \A i \in Port \ amiss : AsConfigured(i)

\* The port's updates are not changes of the admin state: UpdateIPIntf of the
\* softswitch does nothing, and DeleteIPIntf believes the database.
SteadyAdmin(i) ==
  \A o, n \in scene.config :
    o.intf = i /\ n.intf = i /\ o.ip = n.ip /\ o.link = n.link => o.admin = n.admin

UpAddrsOf(i) == {e.addr : e \in {f \in ipv6DB : f.intf = i /\ f.admin = "UP"}}

\* Where ports change between calls only and none is disabled on the side, the
\* links of the kernel keep to the database through calls and ports that go up
\* and down: a link that is up has the addresses of the database, and beside
\* them no link local address of its own choice unless it has no other; a link
\* that is down has nothing but them.  "IPv6 address removed in linux when link
\* is shutdown" (softSwitch.go:579) is repaired.
KernelFollows ==
  scene.calm /\ scene.disabled = {} /\ restarts = 0 /\ call = None =>
    \A i \in Port \ amiss : SteadyAdmin(i) =>
      /\ i \in kUp => UpAddrsOf(i) \subseteq kAddr[i]
      /\ kAddr[i] \subseteq UpAddrsOf(i) \cup IF LinksOf(i) = {} THEN {AutoAddr[i]} ELSE {}

\* No other port's object has the global address of the object.
Unshared(i) == \A j \in Port \ {i} : GlobalOf(cfg[i]) \cap GlobalOf(cfg[j]) = {}

\* An interface has what the database holds for it.
AsStored(i) ==
  /\ AddrsOf(i) \cap Global = GlobalOf(cfg[i])
  /\ LinksOf(i) = {a \in scene.pool : llStored[a] = i}
  /\ Counted(i)

EachAsStored ==
  \A i \in Port : Unshared(i) /\ AutoAddr[i] \notin scene.pool => AsStored(i)

\* Wherever in a call the process died and whatever went wrong before: when
\* Init is through, every interface has the global address of its object and
\* the link local addresses stored for it, counted again (ipv6Mgr.go:228), if
\* the objects do not share a global address and the kernel chooses no address
\* of the pool.
RestoreComplete ==
  [][call # None /\ call.req = "boot" /\ call' = None => EachAsStored']_vars

\* Through calls that are refused or undone, and ports that change in the
\* middle of them, an address of the pool is marked as used exactly if it is in
\* the database, on the interface it is marked for (l3IntfMgr.go:763).
PoolAgrees ==
  restarts = 0 /\ call = None =>
    \A a \in scene.pool, i \in Port :
      Entry(a, i) # {} <=> linkLocal[a] = [intf |-> i, used |-> TRUE]
=============================================================================
