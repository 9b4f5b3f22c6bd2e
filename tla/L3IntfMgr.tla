----------------------------- MODULE L3IntfMgr -----------------------------
(***************************************************************************)
(* The IP interface manager (src/pluginManager/l3IntfMgr.go, with the      *)
(* per-family databases of ipv4Mgr.go and ipv6Mgr.go): addresses on VLANs  *)
(* and on physical ports.  The first address of a port makes the VLAN      *)
(* manager create a reserved VLAN with the port as its untagged member,    *)
(* the last one removes it; l3IntfRefCount counts the addresses of a VLAN  *)
(* and tells the plugin when to create and remove its router interface.    *)
(*                                                                         *)
(* Abstractions.  An interface has at most one address per family, which   *)
(* is what VerifyIPConfig enforces (link local addresses aside), and no    *)
(* two addresses overlap.  Loopbacks, sub-interfaces and LAGs are left     *)
(* out.  An update of the address is a delete and a create.                *)
(***************************************************************************)
EXTENDS VlanMgr

Family == {"v4", "v6"}
Intf == Port \cup ClientVlan
IpInfo == [admin : {"UP", "DOWN"}, oper : {"UP", "DOWN"}]
IpConfig == [family : Family, intf : Intf, admin : {"UP", "DOWN"}]

\* The rest of a CreateIPIntf: the VLAN is stored, the address added and stored.
IpVlan == [at : {"storeVlan", "addIp"}, vlan : SysRsvdVlan, info : VlanEntry,
           next : {"addIp"}, ip : IpConfig]
IpAdd == [at : {"addIp"}, vlan : Vlan, ip : IpConfig]
IpStore == [at : {"storeIp"}, ip : IpConfig, oper : {"UP", "DOWN"}]

ASSUME NoneIpAssumption == None \notin IpInfo \cup IpVlan \cup IpAdd \cup IpStore

VARIABLES
  ipDB,         \* ipv4IntfDB and ipv6IntfDB: admin and oper state
  refCount,     \* l3IntfRefCount
  hwRif,        \* VLANs with a router interface in the ASIC
  hwIp          \* addresses with a route to the CPU in the ASIC

l3Vars == <<ipDB, refCount, hwRif, hwIp>>

L3Init ==
  /\ ipDB = [a \in Family \X Intf |-> None]
  /\ refCount = [v \in Vlan \cup {NoVlan} |-> 0]
  /\ hwRif = {}
  /\ hwIp = {}

\* The VLAN of an interface; NoVlan if it is a port that has none yet.
VlanOf(i) == IF i \in Port THEN GetSysVlanContainingIf(i) ELSE i

\* DetermineL2IntfOperState looks at the active ports, not at admin states.
DetermineL2IntfOperState(i) ==
  UpDown(IF i \in Port THEN operState[i] = "UP"
         ELSE vlanDB[i] # None /\ vlanDB[i].active > 0)

\* L3IntfProcessL2IntfStateChange, for both families.
\* (Mutant: the addresses of the first family only.)
AfterL2StateChangeV4(i, state) ==
  [a \in DOMAIN ipDB |->
     IF a[1] = "v4" /\ a[2] = i /\ ipDB[a] # None
     THEN [ipDB[a] EXCEPT !.oper = UpDown(ipDB[a].admin = "UP" /\ state = "UP")]
     ELSE ipDB[a]]

AfterL2StateChange(i, state) ==
  [a \in DOMAIN ipDB |->
     IF a[2] = i /\ ipDB[a] # None
     THEN [ipDB[a] EXCEPT !.oper = UpDown(ipDB[a].admin = "UP" /\ state = "UP")]
     ELSE ipDB[a]]

\* The end of UpdateVlan.
NotifyL3 ==
  /\ call # None
  /\ call.at = "notify"
  /\ ipDB' = AfterL2StateChange(call.vlan, call.info.oper)
  /\ call' = None
  /\ UNCHANGED <<vlanVars, operState, panicked, refCount, hwRif, hwIp>>

-----------------------------------------------------------------------------
(***************************************************************************)
(* CreateIPIntf.  A name resolves to an interface if it exists.  A port    *)
(* must not be in L2 mode, and gets a reserved VLAN unless it has one.     *)
(***************************************************************************)
PortObject(p) == [admin |-> "UP", tagged |-> {}, untagged |-> {p}]

CreateIPIntf(f, i, admin) ==
  LET vlan == VlanOf(i)
      ip == [family |-> f, intf |-> i, admin |-> admin]
  IN /\ call = None
     /\ ipDB[<<f, i>>] = None
     /\ \/ i \in ClientVlan /\ vlanDB[i] # None
        \/ i \in Port /\ portMode[i] # "L2"
     /\ \/ /\ vlan # NoVlan
           /\ call' = [at |-> "addIp", vlan |-> vlan, ip |-> ip]
           /\ UNCHANGED <<hwVlan, pvid, portMode>>
        \/ LET next == GetNextAvailableSysVlan
           IN /\ vlan = NoVlan
              /\ next # NoVlan
              /\ InstallVlan(next, PortObject(i))
              /\ call' = [at |-> "storeVlan", vlan |-> next,
                          info |-> VlanInfo(PortObject(i)), next |-> "addIp", ip |-> ip]
     /\ UNCHANGED <<conf, vlanDB, operState, panicked, l3Vars>>

\* CreateIPIntfInternal and the rest of handleIPCreate.  The plugin is called
\* for an address that is up, and creates a router interface if no address,
\* up or down, came before it.
AddIp ==
  LET vlan == call.vlan
      ip == call.ip
  IN /\ call # None
     /\ call.at = "addIp"
     /\ hwRif' = IF ip.admin = "UP" /\ refCount[vlan] = 0 THEN hwRif \cup {vlan} ELSE hwRif
     /\ hwIp' = IF ip.admin = "UP" THEN hwIp \cup {<<ip.family, ip.intf>>} ELSE hwIp
     /\ portMode' = [p \in Port |-> IF p = ip.intf THEN "L3" ELSE portMode[p]]
     /\ refCount' = [refCount EXCEPT ![vlan] = @ + 1]
     /\ call' = [at |-> "storeIp", ip |-> ip, oper |-> DetermineL2IntfOperState(ip.intf)]
     /\ UNCHANGED <<conf, vlanDB, pvid, hwVlan, operState, panicked, ipDB>>

\* UpdateIpDb: the operational state is that of the layer below.
StoreIp ==
  LET ip == call.ip
  IN /\ call # None
     /\ call.at = "storeIp"
     /\ ipDB' = [ipDB EXCEPT ![<<ip.family, ip.intf>>] =
                   [admin |-> ip.admin, oper |-> call.oper]]
     /\ call' = None
     /\ UNCHANGED <<vlanVars, operState, panicked, refCount, hwRif, hwIp>>

-----------------------------------------------------------------------------
\* UpdateIPIntf with a new admin state: the route to the CPU follows it, the
\* router interface does not.
\* (Mutant: the plugin is told of an address that goes up only.)
HwIpAfterUpdateUp(f, i, admin) ==
  IF admin = "UP" THEN hwIp \cup {<<f, i>>} ELSE hwIp

HwIpAfterUpdate(f, i, admin) ==
  IF admin = "UP" THEN hwIp \cup {<<f, i>>} ELSE hwIp \ {<<f, i>>}

UpdateIPIntf(f, i, admin) ==
  /\ call = None
  /\ ipDB[<<f, i>>] # None
  /\ hwIp' = HwIpAfterUpdate(f, i, admin)
  /\ ipDB' = [ipDB EXCEPT ![<<f, i>>] =
                [admin |-> admin,
                 oper |-> UpDown(admin = "UP" /\ DetermineL2IntfOperState(i) = "UP")]]
  /\ UNCHANGED <<vlanVars, operState, call, panicked, refCount, hwRif>>

(***************************************************************************)
(* DeleteIPIntf.  The plugin is called for an address that is up and       *)
(* removes the router interface if it is the only address, up or down.     *)
(***************************************************************************)
\* (Mutant: the VLAN goes with the first address.)
LastAddressOneEarly(n) == n <= 2

LastAddress(n) == n = 1

DeleteIPIntf(f, i) ==
  LET vlan == VlanOf(i)
      up == ipDB[<<f, i>>].admin = "UP"
  IN /\ call = None
     /\ ipDB[<<f, i>>] # None
     /\ hwRif' = IF up /\ LastAddress(refCount[vlan]) THEN hwRif \ {vlan} ELSE hwRif
     /\ hwIp' = IF up THEN hwIp \ {<<f, i>>} ELSE hwIp
     /\ ipDB' = [ipDB EXCEPT ![<<f, i>>] = None]
     /\ refCount' = [refCount EXCEPT ![vlan] = @ - 1]
     /\ \/ /\ i \in Port /\ LastAddress(refCount[vlan]) /\ vlan # NoVlan
           /\ RemoveVlan(vlan, PortObject(i))
           /\ portMode' = [portMode EXCEPT ![i] = "Unconfigured"]
        \/ /\ i \notin Port \/ ~LastAddress(refCount[vlan]) \/ vlan = NoVlan
           /\ UNCHANGED <<vlanDB, hwVlan, pvid, portMode>>
     /\ UNCHANGED <<conf, operState, call, panicked>>
=============================================================================
