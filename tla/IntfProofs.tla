----------------------------- MODULE IntfProofs -----------------------------
(***************************************************************************)
(* Proofs about IntfSystem for every set of ports, VLANs and link          *)
(* handlers: what the ASIC has, whether or not calls and link handlers     *)
(* overlap, then the VLANs, the PVIDs, the reserved VLANs and the          *)
(* operational states while they keep apart.                               *)
(***************************************************************************)
EXTENDS IntfSystem, FiniteSetTheorems, WellFoundedInduction, TLAPS

\* What the ASIC has changes with the configuration only: link handlers and the
\* ends of calls leave it alone, IP interfaces touch reserved VLANs.
HwInv ==
  /\ conf \in [ClientVlan -> Object \cup {None}]
  /\ hwVlan \in [Vlan -> HwObject \cup {None}]
  /\ HwFollowsConfig

-----------------------------------------------------------------------------
\* The ranges of client and reserved VLANs, 0 and the default are all apart.
LEMMA VlanSets ==
  /\ Vlan \subseteq Nat /\ DefaultVlan \notin Vlan /\ NoVlan \notin Vlan
  /\ ClientVlan \subseteq Vlan /\ SysRsvdVlan \subseteq Vlan
  /\ \A v \in ClientVlan : v \notin SysRsvdVlan
  /\ \A p \in Port : p \notin Vlan
BY VlanAssumption, PortAssumption DEF Vlan, DefaultVlan, NoVlan

\* A search among VLANs finds nothing only if there is none.
LEMMA LeastOfVlans ==
  ASSUME NEW S \in SUBSET Vlan
  PROVE  /\ Least(S) = NoVlan => S = {}
         /\ Least(S) # NoVlan => Least(S) \in S
<1>1. CASE S = {}
  BY <1>1 DEF Least
<1>2. CASE S # {}
  <2>1. S \subseteq Nat /\ NoVlan \notin S
    BY VlanSets
  <2>2. PICK v \in S : \A w \in S : <<w, v>> \notin OpToRel(<, Nat)
    BY <1>2, <2>1, NatLessThanWellFounded, WFMin
  <2>3. OpToRel(<, Nat) = {ss \in Nat \X Nat : ss[1] < ss[2]}
    BY DEF OpToRel
  <2>4. ASSUME NEW w \in S, w < v
        PROVE  FALSE
    <3>1. <<w, v>> \in {ss \in Nat \X Nat : ss[1] < ss[2]}
      BY <2>1, <2>4
    <3> QED BY <2>2, <2>3, <3>1
  <2>5. \A w \in S : v <= w
    BY <2>1, <2>4
  <2>6. Least(S) \in S
    BY <1>2, <2>5 DEF Least
  <2> QED BY <1>2, <2>1, <2>6
<1> QED BY <1>1, <1>2

\* The two searches among the reserved VLANs return a reserved VLAN or none.
LEMMA SysVlanIsReserved ==
  /\ GetNextAvailableSysVlan # NoVlan => GetNextAvailableSysVlan \in SysRsvdVlan
  /\ \A p \in Port : GetSysVlanContainingIf(p) # NoVlan
                       => GetSysVlanContainingIf(p) \in SysRsvdVlan
<1>1. GetNextAvailableSysVlan # NoVlan => GetNextAvailableSysVlan \in SysRsvdVlan
  <2>1. {v \in SysRsvdVlan : vlanDB[v] = None} \in SUBSET Vlan
    BY VlanSets
  <2> QED BY <2>1, LeastOfVlans DEF GetNextAvailableSysVlan
<1>2. ASSUME NEW p \in Port, GetSysVlanContainingIf(p) # NoVlan
      PROVE  GetSysVlanContainingIf(p) \in SysRsvdVlan
  <2>1. {v \in SysRsvdVlan : vlanDB[v] # None /\ p \in vlanDB[v].untagged} \in SUBSET Vlan
    BY VlanSets
  <2> QED BY <1>2, <2>1, LeastOfVlans DEF GetSysVlanContainingIf
<1> QED BY <1>1, <1>2

\* The plugin is given lists of ports.
LEMMA InHwType ==
  ASSUME NEW o \in Object
  PROVE  InHw(o) \in HwObject
BY DEF InHw, Object, HwObject, NoMembers

\* The removals and additions of an update lead from the old lists to the new.
LEMMA UpdateReachesNew ==
  ASSUME NEW v, NEW old \in Object, NEW new \in Object, hwVlan[v] = InHw(old)
  PROVE  HwAfterUpdate(v, old, new) = InHw(new)
<1>1. ASSUME NEW was \in SUBSET Port, NEW is \in SUBSET Port
      PROVE  (was \ (was \ is)) \cup (is \ was) = is
  OBVIOUS
<1>2. InHw(old) \in HwObject /\ InHw(new) \in HwObject
  BY InHwType
<1>3. InHw(new) = [tagged |-> InHw(new).tagged, untagged |-> InHw(new).untagged]
  BY <1>2 DEF HwObject
<1>4. /\ InHw(old).tagged \in SUBSET Port /\ InHw(old).untagged \in SUBSET Port
      /\ InHw(new).tagged \in SUBSET Port /\ InHw(new).untagged \in SUBSET Port
  BY <1>2 DEF HwObject
<1>5. HwAfterUpdate(v, old, new)
        = [tagged   |-> (InHw(old).tagged \ (InHw(old).tagged \ InHw(new).tagged))
                          \cup (InHw(new).tagged \ InHw(old).tagged),
           untagged |-> (InHw(old).untagged \ (InHw(old).untagged \ InHw(new).untagged))
                          \cup (InHw(new).untagged \ InHw(old).untagged)]
  BY DEF HwAfterUpdate, HwUpdate
<1> QED BY <1>1, <1>3, <1>4, <1>5

-----------------------------------------------------------------------------
\* A step that sets one client VLAN in the ASIC and in the configuration alike.
LEMMA ClientStep ==
  ASSUME HwInv, NEW v \in ClientVlan, NEW o \in Object \cup {None},
         hwVlan' = [hwVlan EXCEPT ![v] = IF o = None THEN None ELSE InHw(o)],
         conf' = [conf EXCEPT ![v] = o]
  PROVE  HwInv'
<1>1. (IF o = None THEN None ELSE InHw(o)) \in HwObject \cup {None}
  BY InHwType
<1>2. hwVlan' \in [Vlan -> HwObject \cup {None}]
  BY <1>1 DEF HwInv
<1>3. conf' \in [ClientVlan -> Object \cup {None}]
  BY DEF HwInv
<1>4. HwFollowsConfig'
  <2> SUFFICES ASSUME NEW w \in ClientVlan
               PROVE  hwVlan'[w] = IF conf'[w] = None THEN None ELSE InHw(conf'[w])
    BY DEF HwFollowsConfig, InHw, NoMembers
  <2>1. w \in Vlan
    BY DEF Vlan
  <2> QED BY <2>1 DEF HwInv, HwFollowsConfig
<1> QED BY <1>2, <1>3, <1>4 DEF HwInv

\* A step that changes a reserved VLAN of the ASIC and no configuration.
LEMMA ReservedStep ==
  ASSUME HwInv, NEW v \in SysRsvdVlan, NEW h \in HwObject \cup {None},
         hwVlan' = [hwVlan EXCEPT ![v] = h], conf' = conf
  PROVE  HwInv'
<1>1. hwVlan' \in [Vlan -> HwObject \cup {None}]
  BY DEF HwInv
<1>2. HwFollowsConfig'
  <2> SUFFICES ASSUME NEW w \in ClientVlan
               PROVE  hwVlan'[w] = IF conf'[w] = None THEN None ELSE InHw(conf'[w])
    BY DEF HwFollowsConfig, InHw, NoMembers
  <2>1. w \in Vlan /\ w # v
    BY VlanAssumption DEF Vlan
  <2> QED BY <2>1 DEF HwInv, HwFollowsConfig
<1> QED BY <1>1, <1>2 DEF HwInv

\* A step that changes neither.
LEMMA QuietStep ==
  ASSUME HwInv, hwVlan' = hwVlan, conf' = conf
  PROVE  HwInv'
BY DEF HwInv, HwFollowsConfig, InHw, NoMembers

-----------------------------------------------------------------------------
LEMMA CreateVlanHw ==
  ASSUME HwInv, NEW v \in ClientVlan, NEW o \in Object, CreateVlan(v, o)
  PROVE  HwInv'
<1>1. /\ hwVlan' = [hwVlan EXCEPT ![v] = InHw(o)]
      /\ conf' = [conf EXCEPT ![v] = o]
  BY DEF CreateVlan, InstallVlan
<1> QED BY <1>1, ClientStep, NoneAssumption

LEMMA UpdateVlanHw ==
  ASSUME HwInv, NEW v \in ClientVlan, NEW o \in Object, UpdateVlan(v, o)
  PROVE  HwInv'
<1>1. /\ conf[v] # None
      /\ hwVlan' = [hwVlan EXCEPT ![v] = HwAfterUpdate(v, conf[v], o)]
      /\ conf' = [conf EXCEPT ![v] = o]
  BY DEF UpdateVlan
<1>2. conf[v] \in Object /\ hwVlan[v] = InHw(conf[v])
  BY <1>1 DEF HwInv, HwFollowsConfig
<1>3. HwAfterUpdate(v, conf[v], o) = InHw(o)
  BY <1>2, UpdateReachesNew
<1> QED BY <1>1, <1>3, ClientStep, NoneAssumption

LEMMA DeleteVlanHw ==
  ASSUME HwInv, NEW v \in ClientVlan, DeleteVlan(v)
  PROVE  HwInv'
<1>1. /\ hwVlan' = [hwVlan EXCEPT ![v] = None]
      /\ conf' = [conf EXCEPT ![v] = None]
  BY DEF DeleteVlan, RemoveVlan
<1> QED BY <1>1, ClientStep

LEMMA CreateIPIntfHw ==
  ASSUME HwInv, NEW f \in Family, NEW i \in Intf, NEW admin, CreateIPIntf(f, i, admin)
  PROVE  HwInv'
<1>1. conf' = conf
  BY DEF CreateIPIntf
<1>2. CASE hwVlan' = hwVlan
  BY <1>1, <1>2, QuietStep
<1>3. CASE /\ VlanOf(i) = NoVlan
           /\ GetNextAvailableSysVlan # NoVlan
           /\ InstallVlan(GetNextAvailableSysVlan, PortObject(i))
  <2>1. GetNextAvailableSysVlan \in SysRsvdVlan
    BY <1>3, SysVlanIsReserved
  <2>2. i \in Port
    BY <1>3, VlanAssumption DEF VlanOf, Intf, NoVlan
  <2>3. InHw(PortObject(i)) \in HwObject
    BY <2>2, InHwType DEF PortObject, Object
  <2>4. hwVlan' = [hwVlan EXCEPT ![GetNextAvailableSysVlan] = InHw(PortObject(i))]
    BY <1>3 DEF InstallVlan
  <2> QED BY <1>1, <2>1, <2>3, <2>4, ReservedStep
<1> QED BY <1>2, <1>3 DEF CreateIPIntf

LEMMA DeleteIPIntfHw ==
  ASSUME HwInv, NEW f \in Family, NEW i \in Intf, DeleteIPIntf(f, i)
  PROVE  HwInv'
<1>1. conf' = conf
  BY DEF DeleteIPIntf
<1>2. CASE hwVlan' = hwVlan
  BY <1>1, <1>2, QuietStep
<1>3. CASE /\ i \in Port
           /\ VlanOf(i) # NoVlan
           /\ RemoveVlan(VlanOf(i), PortObject(i))
  <2>1. VlanOf(i) \in SysRsvdVlan
    BY <1>3, SysVlanIsReserved DEF VlanOf
  <2>2. hwVlan' = [hwVlan EXCEPT ![VlanOf(i)] = None]
    BY <1>3 DEF RemoveVlan
  <2> QED BY <1>1, <2>1, <2>2, ReservedStep
<1> QED BY <1>2, <1>3 DEF DeleteIPIntf

LEMMA LinksHw ==
  ASSUME HwInv, Links
  PROVE  HwInv'
<1>1. hwVlan' = hwVlan /\ conf' = conf
  BY DEF Links, LinkEvent, StorePortState, CopyVlans, ProcessVlan, ProcessVlanPanics,
         NotifyVlan, NotifyPort, vlanVars
<1> QED BY <1>1, QuietStep

LEMMA ReturnsHw ==
  ASSUME HwInv, Returns
  PROVE  HwInv'
<1>1. hwVlan' = hwVlan /\ conf' = conf
  BY DEF Returns, StoreVlan, NotifyL3, AddIp, StoreIp, vlanVars
<1> QED BY <1>1, QuietStep

LEMMA CallsHw ==
  ASSUME HwInv, Calls
  PROVE  HwInv'
<1>1. CASE \E v \in ClientVlan :
             \/ \E o \in Offered(v) : \/ CreateVlan(v, o)
                                      \/ UpdateVlan(v, o)
                                      \/ UpdateVlanPanics(v, o)
             \/ DeleteVlan(v)
  <2>1. PICK v \in ClientVlan :
             \/ \E o \in Offered(v) : \/ CreateVlan(v, o)
                                      \/ UpdateVlan(v, o)
                                      \/ UpdateVlanPanics(v, o)
             \/ DeleteVlan(v)
    BY <1>1
  <2>2. Offered(v) \subseteq Object
    BY DEF Offered
  <2>3. ASSUME NEW o \in Offered(v), UpdateVlanPanics(v, o)
        PROVE  hwVlan' = hwVlan /\ conf' = conf
    BY <2>3 DEF UpdateVlanPanics, vlanVars
  <2> QED BY <2>1, <2>2, <2>3, CreateVlanHw, UpdateVlanHw, DeleteVlanHw, QuietStep
<1>2. CASE \E f \in Family, i \in Intf :
             \/ \E admin \in {"UP", "DOWN"} : \/ CreateIPIntf(f, i, admin)
                                              \/ UpdateIPIntf(f, i, admin)
             \/ DeleteIPIntf(f, i)
  <2>1. PICK f \in Family, i \in Intf :
             \/ \E admin \in {"UP", "DOWN"} : \/ CreateIPIntf(f, i, admin)
                                              \/ UpdateIPIntf(f, i, admin)
             \/ DeleteIPIntf(f, i)
    BY <1>2
  <2>2. ASSUME NEW admin, UpdateIPIntf(f, i, admin)
        PROVE  hwVlan' = hwVlan /\ conf' = conf
    BY <2>2 DEF UpdateIPIntf, vlanVars
  <2> QED BY <2>1, <2>2, CreateIPIntfHw, DeleteIPIntfHw, QuietStep
<1> QED BY <1>1, <1>2 DEF Calls

LEMMA InitHw == Init => HwInv
BY DEF Init, VlanInit, HwInv, HwFollowsConfig, Vlan

LEMMA NextHw ==
  ASSUME HwInv, [Next]_vars
  PROVE  HwInv'
<1>1. CASE Calls
  BY <1>1, CallsHw
<1>2. CASE Returns
  BY <1>2, ReturnsHw
<1>3. CASE Links
  BY <1>3, LinksHw
<1>4. CASE UNCHANGED vars
  BY <1>4, QuietStep DEF vars, vlanVars
<1> QED BY <1>1, <1>2, <1>3, <1>4 DEF Next

\* HwFollowsConfig: however calls and link handlers interleave, the ASIC has the
\* members of the object the client configured last.
THEOREM AsicFollowsConfig == Spec => []HwFollowsConfig
<1>1. HwInv /\ [Next]_vars => HwInv'
  BY NextHw
<1>2. HwInv => HwFollowsConfig
  BY DEF HwInv
<1> QED BY <1>1, <1>2, InitHw, PTL DEF Spec

-----------------------------------------------------------------------------
(***************************************************************************)
(* The routes to the CPU.  A create calls the plugin and stores the        *)
(* address later, so between the two the ASIC is one address ahead: the    *)
(* invariant follows the call.  It also needs that the address being       *)
(* created is still not in the table when the plugin is called.            *)
(***************************************************************************)
UpIps == {a \in Family \X Intf : ipDB[a] # None /\ ipDB[a].admin = "UP"}
Key(ip) == <<ip.family, ip.intf>>
Ahead(ip) == IF ip.admin = "UP" THEN {Key(ip)} ELSE {}

NoIpPending ==
  \/ call = None
  \/ \E v, info, next : /\ next \in {"return", "notify"}
                        /\ call = [at |-> "storeVlan", vlan |-> v, info |-> info, next |-> next]
  \/ \E v, info, next : call = [at |-> "notify", vlan |-> v, info |-> info, next |-> next]

IpPending(ip) ==
  \/ \E v, info : call = [at |-> "storeVlan", vlan |-> v, info |-> info,
                          next |-> "addIp", ip |-> ip]
  \/ \E v, info : call = [at |-> "addIp", vlan |-> v, info |-> info,
                          next |-> "addIp", ip |-> ip]
  \/ \E v : call = [at |-> "addIp", vlan |-> v, ip |-> ip]

IpAdded(ip) ==
  \E oper \in {"UP", "DOWN"} : call = [at |-> "storeIp", ip |-> ip, oper |-> oper]

NewIp == {ip \in IpConfig : ipDB[Key(ip)] = None}

TrapInv ==
  /\ ipDB \in [Family \X Intf -> IpInfo \cup {None}]
  /\ \/ NoIpPending /\ hwIp = UpIps
     \/ \E ip \in NewIp : IpPending(ip) /\ hwIp = UpIps
     \/ \E ip \in NewIp : IpAdded(ip) /\ hwIp = UpIps \cup Ahead(ip)

\* A change of the layer below changes operational states only.
LEMMA L2ChangeKeepsAdmin ==
  ASSUME TrapInv, NEW i, NEW state, ipDB' = AfterL2StateChange(i, state)
  PROVE  /\ ipDB' \in [Family \X Intf -> IpInfo \cup {None}]
         /\ UpIps' = UpIps
         /\ NewIp' = NewIp
<1>1. ipDB \in [Family \X Intf -> IpInfo \cup {None}]
  BY DEF TrapInv
<1>2. ASSUME NEW a \in Family \X Intf
      PROVE  /\ ipDB'[a] \in IpInfo \cup {None}
             /\ ipDB'[a] = None <=> ipDB[a] = None
             /\ ipDB[a] # None => ipDB'[a].admin = ipDB[a].admin
  <2>1. CASE a[2] = i /\ ipDB[a] # None
    <3>1. ipDB[a] \in IpInfo
      BY <1>1, <2>1
    <3>2. ipDB'[a] = [ipDB[a] EXCEPT !.oper = UpDown(ipDB[a].admin = "UP" /\ state = "UP")]
      BY <1>1, <2>1 DEF AfterL2StateChange
    <3>3. UpDown(ipDB[a].admin = "UP" /\ state = "UP") \in {"UP", "DOWN"}
      BY DEF UpDown
    <3>4. ipDB'[a] \in IpInfo /\ ipDB'[a].admin = ipDB[a].admin
      BY <3>1, <3>2, <3>3 DEF IpInfo
    <3> QED BY <2>1, <3>4, NoneIpAssumption
  <2>2. CASE ~(a[2] = i /\ ipDB[a] # None)
    <3>1. ipDB'[a] = ipDB[a]
      BY <1>1, <2>2 DEF AfterL2StateChange
    <3> QED BY <1>1, <3>1
  <2> QED BY <2>1, <2>2
<1>3. ipDB' = [a \in Family \X Intf |-> ipDB'[a]]
  BY <1>1 DEF AfterL2StateChange
<1>4. UpIps' = UpIps
  BY <1>2 DEF UpIps
<1>5. NewIp' = NewIp
  <2>1. \A ip \in IpConfig : Key(ip) \in Family \X Intf
    BY DEF IpConfig, Key
  <2> QED BY <1>2, <2>1 DEF NewIp, Key
<1> QED BY <1>2, <1>3, <1>4, <1>5

\* A step that leaves addresses, traps and the call alone keeps the invariant.
LEMMA TrapsUntouched ==
  ASSUME TrapInv, hwIp' = hwIp, call' = call,
         ipDB' \in [Family \X Intf -> IpInfo \cup {None}],
         UpIps' = UpIps, NewIp' = NewIp
  PROVE  TrapInv'
BY DEF TrapInv, NoIpPending, IpPending, IpAdded, Ahead, Key

\* At most one stage of a call holds, told by what the call does next.
LEMMA StageOfCall ==
  ASSUME TrapInv
  PROVE  /\ call = None => NoIpPending /\ hwIp = UpIps
         /\ call # None /\ call.at = "storeVlan" =>
              \/ NoIpPending /\ hwIp = UpIps
              \/ \E ip \in NewIp : IpPending(ip) /\ hwIp = UpIps
         /\ call # None /\ call.at = "notify" => NoIpPending /\ hwIp = UpIps
         /\ call # None /\ call.at = "addIp" =>
              \E ip \in NewIp : IpPending(ip) /\ call.ip = ip /\ hwIp = UpIps
         /\ call # None /\ call.at = "storeIp" =>
              \E ip \in NewIp : IpAdded(ip) /\ call.ip = ip /\ hwIp = UpIps \cup Ahead(ip)
<1>1. ASSUME NEW ip \in NewIp, IpAdded(ip)
      PROVE  call # None /\ call.at = "storeIp" /\ call.ip = ip
  <2>1. call \in IpStore
    BY <1>1 DEF IpAdded, NewIp, IpStore
  <2>2. call.at = "storeIp" /\ call.ip = ip
    BY <1>1 DEF IpAdded
  <2> QED BY <2>1, <2>2, NoneIpAssumption
<1>2. ASSUME NEW ip \in NewIp, IpPending(ip)
      PROVE  call.at \in {"storeVlan", "addIp"} /\ call.ip = ip
  BY <1>2 DEF IpPending
<1>3. NoIpPending /\ call # None => call.at \in {"storeVlan", "notify"}
  BY DEF NoIpPending
<1>4. call = None => NoIpPending
  BY DEF NoIpPending
<1>5. ASSUME NEW ip \in NewIp, IpPending(ip), call = None
      PROVE  NoIpPending /\ hwIp = UpIps
  BY <1>4, <1>5, <1>1, <1>2 DEF TrapInv
<1> QED BY <1>1, <1>2, <1>3, <1>4, <1>5 DEF TrapInv

\* Steps that change neither the addresses nor the traps.
LEMMA AddressesUntouched ==
  ASSUME ipDB' = ipDB
  PROVE  UpIps' = UpIps /\ NewIp' = NewIp
BY DEF UpIps, NewIp, Key

LEMMA StartVlanTraps ==
  ASSUME TrapInv, call = None, UNCHANGED l3Vars,
         \E v, info, next : /\ next \in {"return", "notify"}
                            /\ call' = [at |-> "storeVlan", vlan |-> v, info |-> info,
                                        next |-> next]
  PROVE  TrapInv'
<1>1. ipDB' = ipDB /\ hwIp' = hwIp
  BY DEF l3Vars
<1>2. hwIp = UpIps
  BY StageOfCall
<1>3. NoIpPending'
  BY DEF NoIpPending
<1> QED BY <1>1, <1>2, <1>3, AddressesUntouched DEF TrapInv

LEMMA StoreVlanTraps ==
  ASSUME TrapInv, StoreVlan, UNCHANGED l3Vars
  PROVE  TrapInv'
<1>1. ipDB' = ipDB /\ hwIp' = hwIp
  BY DEF l3Vars
<1>2. /\ call # None /\ call.at = "storeVlan"
      /\ call' = IF call.next = "return" THEN None ELSE [call EXCEPT !.at = call.next]
  BY DEF StoreVlan
<1>3. CASE NoIpPending /\ hwIp = UpIps
  <2>1. PICK v, info, next : /\ next \in {"return", "notify"}
                             /\ call = [at |-> "storeVlan", vlan |-> v, info |-> info,
                                       next |-> next]
    BY <1>2, <1>3 DEF NoIpPending
  <2>2. CASE next = "return"
    <3>1. call' = None
      BY <1>2, <2>1, <2>2
    <3> QED BY <1>1, <1>3, <3>1, AddressesUntouched DEF TrapInv, NoIpPending
  <2>3. CASE next = "notify"
    <3>1. call' = [at |-> "notify", vlan |-> v, info |-> info, next |-> "notify"]
      BY <1>2, <2>1, <2>3
    <3> QED BY <1>1, <1>3, <3>1, AddressesUntouched DEF TrapInv, NoIpPending
  <2> QED BY <2>1, <2>2, <2>3
<1>4. CASE \E ip \in NewIp : IpPending(ip) /\ hwIp = UpIps
  <2>1. PICK ip \in NewIp : IpPending(ip) /\ hwIp = UpIps
    BY <1>4
  <2>2. PICK v, info : call = [at |-> "storeVlan", vlan |-> v, info |-> info,
                               next |-> "addIp", ip |-> ip]
    BY <1>2, <2>1 DEF IpPending
  <2>3. call' = [at |-> "addIp", vlan |-> v, info |-> info, next |-> "addIp", ip |-> ip]
    BY <1>2, <2>2
  <2>4. IpPending(ip)'
    BY <2>3 DEF IpPending
  <2> QED BY <1>1, <2>1, <2>4, AddressesUntouched DEF TrapInv
<1> QED BY <1>2, <1>3, <1>4, StageOfCall

LEMMA NotifyL3Traps ==
  ASSUME TrapInv, NotifyL3
  PROVE  TrapInv'
<1>1. /\ call # None /\ call.at = "notify" /\ call' = None /\ hwIp' = hwIp
      /\ ipDB' = AfterL2StateChange(call.vlan, call.info.oper)
  BY DEF NotifyL3
<1>2. hwIp = UpIps
  BY <1>1, StageOfCall
<1>3. NoIpPending'
  BY <1>1 DEF NoIpPending
<1> QED BY <1>1, <1>2, <1>3, L2ChangeKeepsAdmin DEF TrapInv

LEMMA CreateIPIntfTraps ==
  ASSUME TrapInv, NEW f \in Family, NEW i \in Intf, NEW admin \in {"UP", "DOWN"},
         CreateIPIntf(f, i, admin)
  PROVE  TrapInv'
<1> DEFINE ip == [family |-> f, intf |-> i, admin |-> admin]
<1>1. /\ call = None /\ ipDB[<<f, i>>] = None
      /\ ipDB' = ipDB /\ hwIp' = hwIp
  BY DEF CreateIPIntf, l3Vars
<1>2. ip \in NewIp
  BY <1>1 DEF NewIp, IpConfig, Key
<1>3. IpPending(ip)'
  BY DEF CreateIPIntf, IpPending
<1>4. hwIp = UpIps
  BY <1>1, StageOfCall
<1> QED BY <1>1, <1>2, <1>3, <1>4, AddressesUntouched DEF TrapInv

LEMMA AddIpTraps ==
  ASSUME TrapInv, AddIp
  PROVE  TrapInv'
<1>1. /\ call # None /\ call.at = "addIp" /\ ipDB' = ipDB
      /\ hwIp' = IF call.ip.admin = "UP"
                 THEN hwIp \cup {<<call.ip.family, call.ip.intf>>} ELSE hwIp
      /\ call' = [at |-> "storeIp", ip |-> call.ip,
                  oper |-> DetermineL2IntfOperState(call.ip.intf)]
  BY DEF AddIp
<1>2. PICK ip \in NewIp : IpPending(ip) /\ call.ip = ip /\ hwIp = UpIps
  BY <1>1, StageOfCall
<1>3. hwIp' = UpIps \cup Ahead(ip)
  BY <1>1, <1>2 DEF Ahead, Key
<1>4. DetermineL2IntfOperState(call.ip.intf) \in {"UP", "DOWN"}
  BY DEF DetermineL2IntfOperState, UpDown
<1>5. IpAdded(ip)'
  BY <1>1, <1>2, <1>4 DEF IpAdded
<1>6. Ahead(ip)' = Ahead(ip)
  BY DEF Ahead, Key
<1> QED BY <1>1, <1>2, <1>3, <1>5, <1>6, AddressesUntouched DEF TrapInv

LEMMA StoreIpTraps ==
  ASSUME TrapInv, StoreIp
  PROVE  TrapInv'
<1>1. /\ call # None /\ call.at = "storeIp" /\ call' = None /\ hwIp' = hwIp
      /\ ipDB' = [ipDB EXCEPT ![<<call.ip.family, call.ip.intf>>] =
                    [admin |-> call.ip.admin, oper |-> call.oper]]
  BY DEF StoreIp
<1>2. PICK ip \in NewIp : IpAdded(ip) /\ call.ip = ip /\ hwIp = UpIps \cup Ahead(ip)
  BY <1>1, StageOfCall
<1>3. [admin |-> ip.admin, oper |-> call.oper] \in IpInfo
  BY <1>2 DEF IpAdded, NewIp, IpConfig, IpInfo
<1>4. Key(ip) \in Family \X Intf /\ ipDB[Key(ip)] = None
  BY DEF NewIp, IpConfig, Key
<1>5. ipDB' = [ipDB EXCEPT ![Key(ip)] = [admin |-> ip.admin, oper |-> call.oper]]
  BY <1>1, <1>2 DEF Key
<1>6. ipDB' \in [Family \X Intf -> IpInfo \cup {None}]
  BY <1>3, <1>5 DEF TrapInv
<1>7. UpIps' = UpIps \cup Ahead(ip)
  <2>1. ASSUME NEW a \in Family \X Intf
        PROVE  a \in UpIps' <=> a \in UpIps \/ a \in Ahead(ip)
    <3>1. CASE a = Key(ip)
      BY <1>3, <1>4, <1>5, <3>1, NoneIpAssumption DEF TrapInv, UpIps, Ahead
    <3>2. CASE a # Key(ip)
      BY <1>5, <3>2 DEF TrapInv, UpIps, Ahead
    <3> QED BY <3>1, <3>2
  <2>2. Ahead(ip) \subseteq Family \X Intf
    BY <1>4 DEF Ahead
  <2> QED BY <2>1, <2>2 DEF UpIps
<1>8. NoIpPending'
  BY <1>1 DEF NoIpPending
<1> QED BY <1>1, <1>2, <1>6, <1>7, <1>8 DEF TrapInv

LEMMA UpdateIPIntfTraps ==
  ASSUME TrapInv, NEW f \in Family, NEW i \in Intf, NEW admin \in {"UP", "DOWN"},
         UpdateIPIntf(f, i, admin)
  PROVE  TrapInv'
<1> DEFINE a == <<f, i>>
           oper == UpDown(admin = "UP" /\ DetermineL2IntfOperState(i) = "UP")
<1>1. /\ call = None /\ call' = None
      /\ hwIp' = IF admin = "UP" THEN hwIp \cup {a} ELSE hwIp \ {a}
      /\ ipDB' = [ipDB EXCEPT ![a] = [admin |-> admin, oper |-> oper]]
  BY DEF UpdateIPIntf, HwIpAfterUpdate
<1>2. hwIp = UpIps /\ a \in Family \X Intf
  BY <1>1, StageOfCall
<1>3. [admin |-> admin, oper |-> oper] \in IpInfo
  BY DEF IpInfo, UpDown
<1>4. ipDB' \in [Family \X Intf -> IpInfo \cup {None}]
  BY <1>1, <1>3 DEF TrapInv
<1>5. ASSUME NEW b \in Family \X Intf
      PROVE  b \in UpIps' <=> b \in hwIp'
  <2>1. CASE b = a
    BY <1>1, <1>2, <1>3, <2>1, NoneIpAssumption DEF TrapInv, UpIps
  <2>2. CASE b # a
    BY <1>1, <1>2, <2>2 DEF TrapInv, UpIps
  <2> QED BY <2>1, <2>2
<1>6. hwIp' \subseteq Family \X Intf
  BY <1>1, <1>2 DEF UpIps
<1>7. hwIp' = UpIps'
  BY <1>5, <1>6 DEF UpIps
<1> QED BY <1>1, <1>4, <1>7 DEF TrapInv, NoIpPending

LEMMA DeleteIPIntfTraps ==
  ASSUME TrapInv, NEW f \in Family, NEW i \in Intf, DeleteIPIntf(f, i)
  PROVE  TrapInv'
<1> DEFINE a == <<f, i>>
<1>1. /\ call = None /\ call' = None
      /\ hwIp' = IF ipDB[a].admin = "UP" THEN hwIp \ {a} ELSE hwIp
      /\ ipDB' = [ipDB EXCEPT ![a] = None]
  BY DEF DeleteIPIntf
<1>2. hwIp = UpIps /\ a \in Family \X Intf
  BY <1>1, StageOfCall
<1>3. ipDB' \in [Family \X Intf -> IpInfo \cup {None}]
  BY <1>1 DEF TrapInv
<1>4. ASSUME NEW b \in Family \X Intf
      PROVE  b \in UpIps' <=> b \in hwIp'
  <2>1. CASE b = a
    BY <1>1, <1>2, <2>1 DEF TrapInv, UpIps
  <2>2. CASE b # a
    BY <1>1, <1>2, <2>2 DEF TrapInv, UpIps
  <2> QED BY <2>1, <2>2
<1>5. hwIp' \subseteq Family \X Intf
  BY <1>1, <1>2 DEF UpIps
<1>6. hwIp' = UpIps'
  BY <1>4, <1>5 DEF UpIps
<1> QED BY <1>1, <1>3, <1>6 DEF TrapInv, NoIpPending

LEMMA LinksTraps ==
  ASSUME TrapInv, Links
  PROVE  TrapInv'
<1>1. call' = call /\ hwIp' = hwIp
  BY DEF Links, LinkEvent, StorePortState, CopyVlans, ProcessVlan, ProcessVlanPanics,
         NotifyVlan, NotifyPort, l3Vars
<1>2. CASE ipDB' = ipDB
  BY <1>1, <1>2, TrapsUntouched, AddressesUntouched DEF TrapInv
<1>3. CASE \E i, state : ipDB' = AfterL2StateChange(i, state)
  BY <1>1, <1>3, TrapsUntouched, L2ChangeKeepsAdmin
<1>4. ipDB' = ipDB \/ \E i, state : ipDB' = AfterL2StateChange(i, state)
  BY DEF Links, LinkEvent, StorePortState, CopyVlans, ProcessVlan, ProcessVlanPanics,
         NotifyVlan, NotifyPort, l3Vars
<1> QED BY <1>2, <1>3, <1>4

LEMMA CallsTraps ==
  ASSUME TrapInv, Calls
  PROVE  TrapInv'
<1>1. ASSUME NEW v \in ClientVlan, NEW o, CreateVlan(v, o) \/ UpdateVlan(v, o),
             UNCHANGED l3Vars
      PROVE  TrapInv'
  <2>1. \E info, next : /\ next \in {"return", "notify"}
                        /\ call' = [at |-> "storeVlan", vlan |-> v, info |-> info,
                                    next |-> next]
    BY <1>1 DEF CreateVlan, UpdateVlan
  <2>2. call = None
    BY <1>1 DEF CreateVlan, UpdateVlan
  <2> QED BY <1>1, <2>1, <2>2, StartVlanTraps
<1>2. ASSUME NEW v \in ClientVlan, NEW o, UpdateVlanPanics(v, o) \/ DeleteVlan(v),
             UNCHANGED l3Vars
      PROVE  TrapInv'
  <2>1. call' = call /\ hwIp' = hwIp /\ ipDB' = ipDB
    BY <1>2 DEF UpdateVlanPanics, DeleteVlan, l3Vars
  <2> QED BY <2>1, TrapsUntouched, AddressesUntouched DEF TrapInv
<1> QED BY <1>1, <1>2, CreateIPIntfTraps, UpdateIPIntfTraps, DeleteIPIntfTraps DEF Calls

\* TrapsFollowAdmin: between calls the ASIC has a route to the CPU for exactly the
\* addresses that are enabled, whatever link handlers do meanwhile.
THEOREM TrapsAreExact == Spec => []TrapsFollowAdmin
<1>1. Init => TrapInv
  BY DEF Init, VlanInit, L3Init, TrapInv, NoIpPending, UpIps
<1>2. TrapInv /\ [Next]_vars => TrapInv'
  <2> SUFFICES ASSUME TrapInv, [Next]_vars
               PROVE  TrapInv'
    OBVIOUS
  <2>1. CASE Calls
    BY <2>1, CallsTraps
  <2>2. CASE Returns
    BY <2>2, StoreVlanTraps, NotifyL3Traps, AddIpTraps, StoreIpTraps DEF Returns
  <2>3. CASE Links
    BY <2>3, LinksTraps
  <2>4. CASE UNCHANGED vars
    BY <2>4, TrapsUntouched, AddressesUntouched DEF vars, l3Vars, TrapInv
  <2> QED BY <2>1, <2>2, <2>3, <2>4 DEF Next
<1>3. TrapInv => TrapsFollowAdmin
  <2> SUFFICES ASSUME TrapInv, call = None
               PROVE  hwIp = {a \in DOMAIN ipDB : ipDB[a] # None /\ ipDB[a].admin = "UP"}
    BY DEF TrapsFollowAdmin
  <2>1. hwIp = UpIps
    BY StageOfCall
  <2>2. DOMAIN ipDB = Family \X Intf
    BY DEF TrapInv
  <2> QED BY <2>1, <2>2 DEF UpIps
<1> QED BY <1>1, <1>2, <1>3, PTL DEF Spec
-----------------------------------------------------------------------------
(***************************************************************************)
(* The VLANs, the reserved ones among them, the PVIDs and the operational  *)
(* states, while calls and link handlers keep apart.  A call stores the    *)
(* entry of a VLAN, and an address, after it has acted on them: the        *)
(* invariants speak of the table with the entry stored, and of an address  *)
(* that is still to be counted or is counted and still to be stored.       *)
(***************************************************************************)
Stored(c, db) ==
  IF c # None /\ c.at = "storeVlan" THEN [db EXCEPT ![c.vlan] = c.info] ELSE db
ComingIn(c) == IF c \in IpVlan \cup IpAdd THEN {Key(c.ip)} ELSE {}
CountedIn(c) == IF c \in IpStore THEN {Key(c.ip)} ELSE {}

Db == Stored(call, vlanDB)
Coming == ComingIn(call)
Counted == CountedIn(call)

\* The addresses of a port that l3IntfRefCount counts, and the one it will.
Holds(p) == {a \in Family \X {p} : ipDB[a] # None \/ a \in Counted}
Awaits(p) == {a \in Family \X {p} : a \in Coming}

VlanType ==
  /\ conf \in [ClientVlan -> Object \cup {None}]
  /\ vlanDB \in [Vlan -> VlanEntry \cup {None}]
  /\ pvid \in [Port -> Vlan \cup {DefaultVlan}]
  /\ hwVlan \in [Vlan -> HwObject \cup {None}]
  /\ operState \in [Port -> {"UP", "DOWN"}]
  /\ hwLink \in [Port -> {"UP", "DOWN"}]
  /\ ipDB \in [Family \X Intf -> IpInfo \cup {None}]
  /\ refCount \in [Vlan \cup {NoVlan} -> Int]

\* v is the reserved VLAN of p.
Serves(v, p) == v \in SysRsvdVlan /\ Db[v] # None /\ p \in Db[v].untagged

\* The VLAN of the address that is being created.
ComingInv ==
  call \in IpVlan \cup IpAdd =>
    IF call.ip.intf \in Port THEN Serves(call.vlan, call.ip.intf)
    ELSE call.vlan = call.ip.intf

CallInv ==
  /\ call \in VlanCall \cup IpVlan \cup IpAdd \cup IpStore \cup {None}
  /\ \A a \in Coming \cup Counted : ipDB[a] = None
  /\ ComingInv

ServeInv ==
  /\ \A v \in SysRsvdVlan : Db[v] # None => \E p \in Port : Serves(v, p)
  /\ \A v \in SysRsvdVlan : Db[v] = None => refCount[v] = 0
  /\ \A v \in SysRsvdVlan, p \in Port : Serves(v, p) =>
       /\ Db[v].tagged = {} /\ Db[v].untagged = {p}
       /\ hwVlan[v] = [tagged |-> {}, untagged |-> {p}]
       /\ refCount[v] = Cardinality(Holds(p))
       /\ Holds(p) \cup Awaits(p) # {}
  /\ \A v, w \in SysRsvdVlan, p \in Port : (Serves(v, p) /\ Serves(w, p)) => v = w
  /\ \A p \in Port : Holds(p) # {} => \E v \in SysRsvdVlan : Serves(v, p)

PvidInv ==
  \A p \in Port :
    /\ pvid[p] \in ClientVlan => p \in UntaggedIn(conf[pvid[p]])
    /\ pvid[p] \in SysRsvdVlan => p \in UntaggedIn(Db[pvid[p]])

\* The VLANs a link handler has still to process: they have not changed since.
CopyOf(h) == IF At(h, "vlans") \/ At(h, "notify") THEN link[h].copy
             ELSE [v \in {} |-> None]

LinkInv ==
  /\ link \in [Handler -> LinkStage \cup {None}]
  /\ \A h \in Handler : link[h] # None =>
       /\ call = None
       /\ link[h].state = hwLink[link[h].port]
       /\ \A v \in DOMAIN CopyOf(h) :
            /\ vlanDB[v] # None
            /\ CopyOf(h)[v].admin = vlanDB[v].admin
            /\ CopyOf(h)[v].tagged = vlanDB[v].tagged
            /\ CopyOf(h)[v].untagged = vlanDB[v].untagged
            /\ link[h].port \in Members(vlanDB[v])
  /\ \A g, h \in Handler :
       (link[g] # None /\ link[h] # None /\ link[g].port = link[h].port) => g = h
  /\ \A p \in Port :
       (\A h \in Handler : At(h, "port") => link[h].port # p) => operState[p] = hwLink[p]

\* What the count of v says of p: the link before the event while v is not processed.
Late(h, v) == At(h, "port") \/ At(h, "range") \/ v \in DOMAIN CopyOf(h)
Seen(p, v) ==
  IF \E h \in Handler : Late(h, v) /\ link[h].port = p THEN hwLink[p] # "UP"
  ELSE hwLink[p] = "UP"

CountInv ==
  \A v \in Vlan : Db[v] # None =>
    /\ Db[v].active = Cardinality({p \in Members(Db[v]) : Seen(p, v)})
    /\ Db[v].oper = UpDown(Db[v].admin = "UP" /\ Db[v].active > 0)

OperInv ==
  /\ \A f \in Family, p \in Port :
       (ipDB[<<f, p>>] # None /\ (\A h \in Handler : link[h] # None => link[h].port # p)) =>
         /\ ipDB[<<f, p>>].oper = "UP" => hwLink[p] = "UP"
         /\ (ipDB[<<f, p>>].admin = "UP" /\ hwLink[p] = "UP") => ipDB[<<f, p>>].oper = "UP"
  /\ (call \in IpStore /\ call.ip.intf \in Port) => call.oper = hwLink[call.ip.intf]

ApartInv ==
  VlanType /\ CallInv /\ ServeInv /\ PvidInv /\ LinkInv /\ CountInv /\ OperInv

-----------------------------------------------------------------------------
\* The kinds of call are told apart by what they have in hand.
LEMMA CallKinds ==
  /\ \A db : Stored(None, db) = db
  /\ ComingIn(None) = {} /\ CountedIn(None) = {}
  /\ \A c \in VlanCall : c # None /\ ComingIn(c) = {} /\ CountedIn(c) = {}
  /\ \A c \in IpVlan \cup IpAdd : c # None /\ ComingIn(c) = {Key(c.ip)} /\ CountedIn(c) = {}
  /\ \A c \in IpStore : c # None /\ ComingIn(c) = {} /\ CountedIn(c) = {Key(c.ip)}
<1>1. \A c \in VlanCall : c.at \in {"storeVlan", "notify"} /\ c.next # "addIp"
  BY DEF VlanCall
<1>2. \A c \in IpVlan : c.at \in {"storeVlan", "addIp"} /\ c.next = "addIp"
  BY DEF IpVlan
<1>3. \A c \in IpAdd : c.at = "addIp"
  BY DEF IpAdd
<1>4. \A c \in IpStore : c.at = "storeIp"
  BY DEF IpStore
<1>5. None \notin VlanCall \cup IpVlan \cup IpAdd \cup IpStore
  BY NoneAssumption, NoneIpAssumption
<1>6. \A db : Stored(None, db) = db
  BY DEF Stored
<1>7. \A c \in VlanCall : c \notin IpVlan /\ c \notin IpAdd /\ c \notin IpStore
  BY <1>1, <1>2, <1>3, <1>4
<1>8. \A c \in IpVlan \cup IpAdd : c \notin IpStore
  BY <1>2, <1>3, <1>4
<1> QED BY <1>5, <1>6, <1>7, <1>8 DEF ComingIn, CountedIn

\* GetSysVlanContainingIf finds the VLAN of the port if there is one.
LEMMA SysVlanOfPort ==
  ASSUME call = None, NEW p \in Port
  PROVE  /\ GetSysVlanContainingIf(p) = NoVlan => \A v \in SysRsvdVlan : ~Serves(v, p)
         /\ GetSysVlanContainingIf(p) # NoVlan => Serves(GetSysVlanContainingIf(p), p)
<1> DEFINE S == {v \in SysRsvdVlan : vlanDB[v] # None /\ p \in vlanDB[v].untagged}
<1>1. S \in SUBSET Vlan
  BY VlanSets
<1>2. GetSysVlanContainingIf(p) = Least(S)
  BY DEF GetSysVlanContainingIf
<1>3. \A v : v \in S <=> Serves(v, p)
  BY CallKinds DEF Serves, Db
<1> HIDE DEF S
<1> QED BY <1>1, <1>2, <1>3, LeastOfVlans

\* The entry that is going to be stored counts the active members of the object.
LEMMA EntryType ==
  ASSUME VlanType, NEW o \in Object
  PROVE  /\ VlanInfo(o) \in VlanEntry /\ VlanInfo(o) # None
         /\ VlanInfo(o).tagged = o.tagged /\ VlanInfo(o).untagged = o.untagged
         /\ VlanInfo(o).admin = o.admin
         /\ VlanInfo(o).active = Cardinality({p \in Members(o) : operState[p] = "UP"})
         /\ VlanInfo(o).oper = UpDown(o.admin = "UP" /\ VlanInfo(o).active > 0)
<1> DEFINE active == Cardinality({p \in Members(o) : operState[p] = "UP"})
<1>1. active \in Nat
  <2>1. {p \in Members(o) : operState[p] = "UP"} \in SUBSET Port
    BY DEF Members, Object
  <2> QED BY <2>1, PortAssumption, FS_Subset, FS_CardinalityType
<1>2. VlanInfo(o) = [admin |-> o.admin, oper |-> UpDown(active > 0 /\ o.admin = "UP"),
                     active |-> active, tagged |-> o.tagged, untagged |-> o.untagged]
  BY DEF VlanInfo, GetActiveIntfCount
<1> HIDE DEF active
<1>3. VlanInfo(o) \in VlanEntry
  BY <1>1, <1>2 DEF VlanEntry, Object, UpDown
<1>4. VlanInfo(o) # None
  BY <1>3, NoneAssumption
<1>5. UpDown(active > 0 /\ o.admin = "UP") = UpDown(o.admin = "UP" /\ active > 0)
  BY DEF UpDown
<1> QED BY <1>2, <1>3, <1>4, <1>5 DEF active

-----------------------------------------------------------------------------
(***************************************************************************)
(* What each part of the invariant depends on.                             *)
(***************************************************************************)
\* The reserved VLANs: a step that leaves them and the addresses held alone.
LEMMA ServeFrame ==
  ASSUME ServeInv,
         \A v \in SysRsvdVlan :
           /\ Db'[v] = None <=> Db[v] = None
           /\ Db[v] # None => Db'[v].tagged = Db[v].tagged /\ Db'[v].untagged = Db[v].untagged
           /\ hwVlan'[v] = hwVlan[v]
           /\ refCount'[v] = refCount[v],
         \A p \in Port : /\ Holds(p)' = Holds(p)
                         /\ Awaits(p) \subseteq Holds(p)' \cup Awaits(p)'
  PROVE  ServeInv'
<1>1. \A v, p : Serves(v, p)' <=> Serves(v, p)
  BY DEF Serves
<1> HIDE DEF Holds, Awaits
<1>2. \A p \in Port : Holds(p) \cup Awaits(p) # {} => Holds(p)' \cup Awaits(p)' # {}
  OBVIOUS
<1>3. \A v \in SysRsvdVlan, p \in Port : Serves(v, p)' =>
       /\ Db'[v].tagged = {} /\ Db'[v].untagged = {p}
       /\ hwVlan'[v] = [tagged |-> {}, untagged |-> {p}]
       /\ refCount'[v] = Cardinality(Holds(p)')
       /\ Holds(p)' \cup Awaits(p)' # {}
  BY <1>1, <1>2 DEF ServeInv, Serves
<1>4. /\ \A v \in SysRsvdVlan : Db'[v] # None => \E p \in Port : Serves(v, p)'
      /\ \A v \in SysRsvdVlan : Db'[v] = None => refCount'[v] = 0
      /\ \A v, w \in SysRsvdVlan, p \in Port : (Serves(v, p)' /\ Serves(w, p)') => v = w
      /\ \A p \in Port : Holds(p)' # {} => \E v \in SysRsvdVlan : Serves(v, p)'
  BY <1>1 DEF ServeInv
<1> QED BY <1>3, <1>4 DEF ServeInv

\* No call runs beside a link handler.
LEMMA NoHandlerState ==
  ASSUME VlanType, LinkInv, NoHandler
  PROVE  /\ \A p \in Port : operState[p] = hwLink[p]
         /\ \A p, v : Seen(p, v) <=> hwLink[p] = "UP"
<1>1. \A h \in Handler : \A step : ~At(h, step)
  BY DEF NoHandler, At
<1>2. \A h \in Handler : \A v : ~Late(h, v)
  BY <1>1 DEF Late, CopyOf
<1>3. \A p \in Port : operState[p] = hwLink[p]
  BY <1>1 DEF LinkInv
<1>4. \A p, v : Seen(p, v) <=> hwLink[p] = "UP"
  BY <1>2 DEF Seen
<1> QED BY <1>3, <1>4

\* A call that has started, or that starts, finds no link handler at work.
LEMMA CallsMeetNoHandler ==
  ASSUME Overlap = FALSE, LinkInv, call # None \/ Calls
  PROVE  NoHandler
BY DEF LinkInv, NoHandler, Calls

\* A step of a call leaves the links alone.
LEMMA CallKeepsLinks ==
  ASSUME LinkInv, NoHandler, UNCHANGED <<link, hwLink, operState>>
  PROVE  LinkInv' /\ NoHandler'
<1>1. NoHandler'
  BY DEF NoHandler
<1>2. link' \in [Handler -> LinkStage \cup {None}]
  BY DEF LinkInv
<1>3. \A h \in Handler : link'[h] = None
  BY <1>1 DEF NoHandler
<1>4. \A p \in Port : operState'[p] = hwLink'[p]
  <2>1. \A h \in Handler : ~At(h, "port")
    BY DEF NoHandler, At
  <2> QED BY <2>1 DEF LinkInv
<1> QED BY <1>1, <1>2, <1>3, <1>4 DEF LinkInv

\* The table with the entry in hand stored is a table of entries.
LEMMA DbType ==
  ASSUME VlanType, CallInv
  PROVE  Db \in [Vlan -> VlanEntry \cup {None}]
<1>1. CASE call # None /\ call.at = "storeVlan"
  <2>1. call \in VlanCall \cup IpVlan
    BY <1>1 DEF CallInv, IpAdd, IpStore
  <2>2. call.vlan \in Vlan /\ call.info \in VlanEntry
    BY <2>1, VlanSets DEF VlanCall, IpVlan
  <2> QED BY <1>1, <2>2 DEF Db, Stored, VlanType
<1>2. CASE ~(call # None /\ call.at = "storeVlan")
  BY <1>2 DEF Db, Stored, VlanType
<1> QED BY <1>1, <1>2

\* The addresses counted are those stored and the one about to be.
LEMMA HoldsFrame ==
  ASSUME \A f \in Family, p \in Port :
           (ipDB'[<<f, p>>] # None \/ <<f, p>> \in Counted')
             <=> (ipDB[<<f, p>>] # None \/ <<f, p>> \in Counted)
  PROVE  \A p \in Port : Holds(p)' = Holds(p)
BY DEF Holds

\* The active counts: a step that leaves the entries and what the counts have seen alone.
LEMMA CountFrame ==
  ASSUME CountInv,
         \A v \in Vlan : Db'[v] = Db[v],
         \A v \in Vlan : Db[v] # None =>
           \A p \in Members(Db[v]) : Seen(p, v)' <=> Seen(p, v)
  PROVE  CountInv'
<1> SUFFICES ASSUME NEW v \in Vlan, Db'[v] # None
             PROVE  /\ Db'[v].active = Cardinality({p \in Members(Db'[v]) : Seen(p, v)'})
                    /\ Db'[v].oper = UpDown(Db'[v].admin = "UP" /\ Db'[v].active > 0)
  BY DEF CountInv, Members, UpDown
<1>1. {p \in Members(Db'[v]) : Seen(p, v)'} = {p \in Members(Db[v]) : Seen(p, v)}
  OBVIOUS
<1> QED BY <1>1 DEF CountInv

\* While no link handler runs.
LEMMA CountStep ==
  ASSUME VlanType, CallInv, LinkInv, CountInv, NoHandler, NoHandler', LinkInv', VlanType',
         hwLink' = hwLink, NEW v \in Vlan, NEW e \in VlanEntry \cup {None},
         \A w \in Vlan : Db'[w] = IF w = v THEN e ELSE Db[w],
         e # None =>
           /\ e.active = Cardinality({p \in Members(e) : hwLink[p] = "UP"})
           /\ e.oper = UpDown(e.admin = "UP" /\ e.active > 0)
  PROVE  CountInv'
<1>1. \A p, w : Seen(p, w) <=> hwLink[p] = "UP"
  BY NoHandlerState
<1>2. \A p, w : Seen(p, w)' <=> hwLink[p] = "UP"
  <2>1. \A h \in Handler : \A step : ~At(h, step)'
    BY DEF NoHandler, At
  <2>2. \A h \in Handler : \A w : ~Late(h, w)'
    BY <2>1 DEF Late, CopyOf
  <2> QED BY <2>2 DEF Seen
<1> SUFFICES ASSUME NEW w \in Vlan, Db'[w] # None
             PROVE  /\ Db'[w].active = Cardinality({p \in Members(Db'[w]) : Seen(p, w)'})
                    /\ Db'[w].oper = UpDown(Db'[w].admin = "UP" /\ Db'[w].active > 0)
  BY DEF CountInv, Members, UpDown
<1>3. {p \in Members(Db'[w]) : Seen(p, w)'} = {p \in Members(Db'[w]) : hwLink[p] = "UP"}
  BY <1>2
<1>4. CASE w = v
  BY <1>3, <1>4
<1>5. CASE w # v
  <2>1. {p \in Members(Db[w]) : Seen(p, w)} = {p \in Members(Db[w]) : hwLink[p] = "UP"}
    BY <1>1
  <2> QED BY <1>3, <1>5, <2>1 DEF CountInv
<1> QED BY <1>4, <1>5

\* The states of addresses: a step that leaves those on ports and the links alone.
LEMMA OperFrame ==
  ASSUME OperInv, NoHandler, NoHandler', hwLink' = hwLink, call' \notin IpStore,
         \A f \in Family, p \in Port : ipDB'[<<f, p>>] = ipDB[<<f, p>>]
  PROVE  OperInv'
BY DEF OperInv, NoHandler
-----------------------------------------------------------------------------
(***************************************************************************)
(* The calls.                                                              *)
(***************************************************************************)
\* CreateVlan and UpdateVlan up to the store, and DeleteVlan: one client VLAN
\* changes, and with it the PVIDs of its untagged ports.
LEMMA ClientVlanApart ==
  ASSUME ApartInv, NoHandler, call = None,
         UNCHANGED <<operState, l3Vars, link, hwLink>>,
         NEW v \in ClientVlan, NEW o \in Object \cup {None},
         conf' = [conf EXCEPT ![v] = o],
         hwVlan' \in [Vlan -> HwObject \cup {None}],
         \A w \in SysRsvdVlan : hwVlan'[w] = hwVlan[w],
         pvid' \in [Port -> Vlan \cup {DefaultVlan}],
         \A p \in Port : /\ pvid'[p] \in {pvid[p], v, DefaultVlan}
                         /\ pvid'[p] = v => p \in UntaggedIn(o),
         call' \in VlanCall \cup {None},
         vlanDB' \in [Vlan -> VlanEntry \cup {None}],
         \A w \in Vlan : Db'[w] = IF w = v THEN IF o = None THEN None ELSE VlanInfo(o)
                                  ELSE Db[w]
  PROVE  ApartInv'
<1> DEFINE e == IF o = None THEN None ELSE VlanInfo(o)
<1>1. /\ VlanType /\ CallInv /\ ServeInv /\ PvidInv /\ LinkInv /\ CountInv /\ OperInv
      /\ v \in Vlan /\ v \notin SysRsvdVlan
  BY VlanSets DEF ApartInv
<1>2. ipDB' = ipDB /\ refCount' = refCount
  BY DEF l3Vars
<1>3. Coming = {} /\ Counted = {} /\ Coming' = {} /\ Counted' = {}
  BY CallKinds DEF Coming, Counted
<1>4. VlanType'
  BY <1>1, <1>2 DEF VlanType
<1>5. LinkInv' /\ NoHandler'
  BY <1>1, CallKeepsLinks
<1>6. CallInv'
  <2>1. call' \notin IpVlan \cup IpAdd
    <3>1. \A c \in IpVlan \cup IpAdd : ComingIn(c) # {}
      BY CallKinds
    <3>2. ComingIn(call') = {}
      BY CallKinds
    <3> QED BY <3>1, <3>2
  <2> QED BY <1>3, <2>1 DEF CallInv, ComingInv
<1>7. ServeInv'
  <2>1. \A p \in Port : Holds(p)' = Holds(p)
    BY <1>2, <1>3, HoldsFrame
  <2>2. \A p \in Port : Awaits(p) = {}
    BY <1>3 DEF Awaits
  <2>3. \A w \in SysRsvdVlan : Db'[w] = Db[w]
    BY <1>1, VlanSets
  <2> QED BY <1>1, <1>2, <2>1, <2>2, <2>3, ServeFrame
<1>8. PvidInv'
  <2> SUFFICES ASSUME NEW p \in Port
               PROVE  /\ pvid'[p] \in ClientVlan => p \in UntaggedIn(conf'[pvid'[p]])
                      /\ pvid'[p] \in SysRsvdVlan => p \in UntaggedIn(Db'[pvid'[p]])
    BY DEF PvidInv, UntaggedIn
  <2>1. CASE pvid'[p] = v
    BY <1>1, <2>1 DEF VlanType
  <2>2. CASE pvid'[p] # v
    <3>1. pvid'[p] = pvid[p] \/ pvid'[p] \notin Vlan
      BY <2>2, VlanSets
    <3> QED BY <1>1, <2>2, <3>1, VlanSets DEF VlanType, PvidInv
  <2> QED BY <2>1, <2>2
<1>9. CountInv'
  <2>1. e # None =>
           /\ e.active = Cardinality({p \in Members(e) : hwLink[p] = "UP"})
           /\ e.oper = UpDown(e.admin = "UP" /\ e.active > 0)
    <3> SUFFICES ASSUME o # None
                 PROVE  /\ e.active = Cardinality({p \in Members(e) : hwLink[p] = "UP"})
                        /\ e.oper = UpDown(e.admin = "UP" /\ e.active > 0)
      OBVIOUS
    <3>1. e = VlanInfo(o) /\ o \in Object
      OBVIOUS
    <3>2. Members(e) = Members(o) /\ Members(o) \subseteq Port
      BY <1>1, <3>1, EntryType DEF Members, Object
    <3>3. {p \in Members(e) : hwLink[p] = "UP"} = {p \in Members(o) : operState[p] = "UP"}
      BY <1>1, <3>2, NoHandlerState
    <3> QED BY <1>1, <3>1, <3>3, EntryType
  <2>2. e \in VlanEntry \cup {None}
    BY <1>1, EntryType
  <2> QED BY <1>1, <1>4, <1>5, <2>1, <2>2, CountStep
<1>10. OperInv'
  <2>1. call' \notin IpStore
    <3>1. \A c \in IpStore : CountedIn(c) # {}
      BY CallKinds
    <3>2. CountedIn(call') = {}
      BY CallKinds
    <3> QED BY <3>1, <3>2
  <2> QED BY <1>1, <1>2, <1>5, <2>1, OperFrame
<1> QED BY <1>4, <1>5, <1>6, <1>7, <1>8, <1>9, <1>10 DEF ApartInv

\* A PVID that is set is a VLAN or the default.
LEMMA SetPvidType ==
  ASSUME NEW f \in [Port -> Vlan \cup {DefaultVlan}], NEW v \in Vlan \cup {DefaultVlan},
         NEW ports
  PROVE  SetPvid(f, v, ports) \in [Port -> Vlan \cup {DefaultVlan}]
BY DEF SetPvid

LEMMA StartVlanApart ==
  ASSUME ApartInv, HwInv, NoHandler, NEW v \in ClientVlan, NEW o \in Object,
         CreateVlan(v, o) \/ UpdateVlan(v, o), UNCHANGED <<l3Vars, link, hwLink>>
  PROVE  ApartInv'
<1>1. /\ VlanType /\ PvidInv /\ v \in Vlan /\ v # DefaultVlan
  BY VlanSets DEF ApartInv
<1>2. /\ call = None /\ conf' = [conf EXCEPT ![v] = o] /\ vlanDB' = vlanDB
      /\ operState' = operState
      /\ \E next \in {"return", "notify"} :
           call' = [at |-> "storeVlan", vlan |-> v, info |-> VlanInfo(o), next |-> next]
  BY DEF CreateVlan, UpdateVlan
<1>3. VlanInfo(o) \in VlanEntry
  BY <1>1, EntryType
<1>4. call' \in VlanCall
  BY <1>2, <1>3 DEF VlanCall
<1>5. Db = vlanDB
  BY <1>2, CallKinds DEF Db
<1>6. Db' = [vlanDB EXCEPT ![v] = VlanInfo(o)]
  <2>1. call' # None
    BY <1>4, CallKinds
  <2>2. call'.at = "storeVlan" /\ call'.vlan = v /\ call'.info = VlanInfo(o)
    BY <1>2
  <2> QED BY <1>2, <2>1, <2>2 DEF Db, Stored
<1>7. \A w \in Vlan : Db'[w] = IF w = v THEN VlanInfo(o) ELSE Db[w]
  BY <1>1, <1>5, <1>6 DEF VlanType
<1>8. o # None /\ UntaggedIn(o) = o.untagged
  BY NoneAssumption DEF UntaggedIn
<1>9. /\ hwVlan' \in [Vlan -> HwObject \cup {None}]
      /\ \A w \in SysRsvdVlan : hwVlan'[w] = hwVlan[w]
  <2>1. \E h \in HwObject : hwVlan' = [hwVlan EXCEPT ![v] = h]
    <3>1. CASE CreateVlan(v, o)
      BY <3>1, InHwType DEF CreateVlan, InstallVlan
    <3>2. CASE UpdateVlan(v, o)
      <4>1. conf[v] # None /\ hwVlan' = [hwVlan EXCEPT ![v] = HwAfterUpdate(v, conf[v], o)]
        BY <3>2 DEF UpdateVlan
      <4>2. conf[v] \in Object /\ hwVlan[v] = InHw(conf[v])
        BY <4>1 DEF HwInv, HwFollowsConfig
      <4> QED BY <4>1, <4>2, UpdateReachesNew, InHwType
    <3> QED BY <3>1, <3>2
  <2> QED BY <1>1, <2>1, VlanSets DEF VlanType
<1>10. /\ pvid' \in [Port -> Vlan \cup {DefaultVlan}]
       /\ \A p \in Port : /\ pvid'[p] \in {pvid[p], v, DefaultVlan}
                          /\ pvid'[p] = v => p \in UntaggedIn(o)
  <2>1. \A p \in Port : pvid[p] = v => p \in UntaggedIn(conf[v])
    BY <1>1 DEF PvidInv
  <2>2. CASE CreateVlan(v, o)
    <3>1. pvid' = SetPvid(pvid, v, o.untagged) /\ conf[v] = None
      BY <2>2 DEF CreateVlan, InstallVlan
    <3>2. \A p \in Port : pvid[p] # v
      BY <2>1, <3>1 DEF UntaggedIn
    <3> QED BY <1>1, <1>8, <3>1, <3>2, SetPvidType DEF SetPvid, VlanType
  <2>3. CASE UpdateVlan(v, o)
    <3>1. /\ conf[v] # None
          /\ pvid' = SetPvid(SetPvid(pvid, v, o.untagged), DefaultVlan, conf[v].untagged)
      BY <2>3 DEF UpdateVlan, PvidAfterUpdate
    <3>2. \A p \in Port : pvid[p] = v => p \in conf[v].untagged
      BY <2>1, <3>1 DEF UntaggedIn
    <3>3. pvid' \in [Port -> Vlan \cup {DefaultVlan}]
      BY <1>1, <3>1, SetPvidType DEF VlanType
    <3> QED BY <1>1, <1>8, <3>1, <3>2, <3>3 DEF SetPvid
  <2> QED BY <2>2, <2>3
<1>11. /\ conf' = [conf EXCEPT ![v] = o] /\ UNCHANGED operState
       /\ vlanDB' \in [Vlan -> VlanEntry \cup {None}]
  BY <1>1, <1>2 DEF VlanType
<1>12. \A w \in Vlan : Db'[w] = IF w = v THEN IF o = None THEN None ELSE VlanInfo(o)
                                ELSE Db[w]
  BY <1>7, <1>8
<1> QED BY <1>2, <1>4, <1>9, <1>10, <1>11, <1>12, ClientVlanApart

LEMMA DeleteVlanApart ==
  ASSUME ApartInv, NoHandler, NEW v \in ClientVlan, DeleteVlan(v),
         UNCHANGED <<l3Vars, link, hwLink>>
  PROVE  ApartInv'
<1>1. VlanType /\ PvidInv /\ v \in Vlan /\ v # DefaultVlan
  BY VlanSets DEF ApartInv
<1>2. /\ call = None /\ call' = None /\ conf[v] # None
      /\ conf' = [conf EXCEPT ![v] = None]
      /\ hwVlan' = [hwVlan EXCEPT ![v] = None]
      /\ vlanDB' = [vlanDB EXCEPT ![v] = None]
      /\ pvid' = SetPvid(pvid, DefaultVlan, conf[v].untagged)
      /\ operState' = operState
  BY DEF DeleteVlan, RemoveVlan
<1>3. Db = vlanDB /\ Db' = vlanDB'
  BY <1>2, CallKinds DEF Db
<1>4. \A w \in Vlan : Db'[w] = IF w = v THEN None ELSE Db[w]
  BY <1>1, <1>2, <1>3 DEF VlanType
<1>5. pvid' \in [Port -> Vlan \cup {DefaultVlan}]
  BY <1>1, <1>2, SetPvidType DEF VlanType
<1>6. \A p \in Port : pvid'[p] \in {pvid[p], v, DefaultVlan} /\ pvid'[p] # v
  <2>1. \A p \in Port : pvid[p] = v => p \in conf[v].untagged
    BY <1>1, <1>2 DEF PvidInv, UntaggedIn
  <2> QED BY <1>1, <1>2, <2>1 DEF SetPvid
<1>7. /\ vlanDB' \in [Vlan -> VlanEntry \cup {None}]
      /\ hwVlan' \in [Vlan -> HwObject \cup {None}]
      /\ \A w \in SysRsvdVlan : hwVlan'[w] = hwVlan[w]
  BY <1>1, <1>2, VlanSets DEF VlanType
<1> QED BY <1>2, <1>4, <1>5, <1>6, <1>7, ClientVlanApart
\* A step of a call that leaves the table of VLANs, with the entry to be stored, alone.
LEMMA TableKept ==
  ASSUME ApartInv, NoHandler,
         UNCHANGED <<conf, pvid, hwVlan, operState, hwLink, link>>,
         vlanDB' \in [Vlan -> VlanEntry \cup {None}],
         ipDB' \in [Family \X Intf -> IpInfo \cup {None}],
         refCount' \in [Vlan \cup {NoVlan} -> Int],
         Db' = Db, CallInv', ServeInv', OperInv'
  PROVE  ApartInv'
<1>1. VlanType /\ PvidInv /\ LinkInv /\ CountInv
  BY DEF ApartInv
<1>2. VlanType'
  BY <1>1 DEF VlanType
<1>3. LinkInv' /\ NoHandler'
  BY <1>1, CallKeepsLinks
<1>4. PvidInv'
  BY <1>1 DEF PvidInv, UntaggedIn
<1>5. CountInv'
  <2>1. \A p, v : Seen(p, v)' <=> Seen(p, v)
    BY DEF Seen, Late, CopyOf, At
  <2> QED BY <1>1, <2>1, CountFrame
<1> QED BY <1>2, <1>3, <1>4, <1>5 DEF ApartInv

\* No VLAN of the ports is touched, and no address of theirs.
LEMMA PortsKept ==
  ASSUME ServeInv, Db' = Db, hwVlan' = hwVlan,
         \A v \in SysRsvdVlan : refCount'[v] = refCount[v],
         \A f \in Family, p \in Port :
           /\ (ipDB'[<<f, p>>] # None \/ <<f, p>> \in Counted')
                <=> (ipDB[<<f, p>>] # None \/ <<f, p>> \in Counted)
           /\ <<f, p>> \in Coming => <<f, p>> \in Coming'
  PROVE  ServeInv'
<1>1. \A p \in Port : Holds(p)' = Holds(p)
  BY HoldsFrame
<1>2. \A p \in Port : Awaits(p) \subseteq Awaits(p)'
  BY DEF Awaits
<1> QED BY <1>1, <1>2, ServeFrame

\* The stage of a call, told by what it does next.
LEMMA StageOf ==
  ASSUME CallInv, call # None
  PROVE  /\ call.at = "storeVlan" => call \in VlanCall \cup IpVlan
         /\ call.at = "notify" => call \in VlanCall
         /\ call.at = "addIp" => call \in IpVlan \cup IpAdd
         /\ call.at = "storeIp" => call \in IpStore
BY DEF CallInv, VlanCall, IpVlan, IpAdd, IpStore

LEMMA StoreVlanApart ==
  ASSUME ApartInv, NoHandler, StoreVlan, UNCHANGED <<l3Vars, hwLink, link>>
  PROVE  ApartInv'
<1>1. VlanType /\ CallInv /\ ServeInv /\ OperInv /\ LinkInv
  BY DEF ApartInv
<1>2. /\ call # None /\ call.at = "storeVlan" /\ call \in VlanCall \cup IpVlan
      /\ vlanDB' = [vlanDB EXCEPT ![call.vlan] = call.info]
      /\ call' = IF call.next = "return" THEN None ELSE [call EXCEPT !.at = call.next]
      /\ UNCHANGED <<conf, pvid, hwVlan, operState, ipDB, refCount>>
  BY <1>1, StageOf DEF StoreVlan, l3Vars
<1>3. vlanDB' = Db
  BY <1>2 DEF Db, Stored
<1>4. /\ call' = None \/ (call'.at # "storeVlan" /\ call'.vlan = call.vlan)
      /\ call \in VlanCall => call' \in VlanCall \cup {None}
      /\ call \in IpVlan => call' \in IpVlan /\ call'.ip = call.ip
  <2>1. CASE call \in VlanCall
    <3>1. CASE call.next = "notify"
      BY <1>2, <2>1, <3>1, CallKinds DEF VlanCall, IpVlan
    <3>2. CASE call.next = "return"
      BY <1>2, <2>1, <3>2 DEF VlanCall, IpVlan
    <3> QED BY <2>1, <3>1, <3>2 DEF VlanCall
  <2>2. CASE call \in IpVlan
    BY <1>2, <2>2 DEF VlanCall, IpVlan
  <2> QED BY <1>2, <2>1, <2>2
<1>5. Db' = Db
  BY <1>3, <1>4 DEF Db, Stored
<1>6. Coming' = Coming /\ Counted' = Counted
  <2>1. CASE call \in VlanCall
    BY <1>4, <2>1, CallKinds DEF Coming, Counted
  <2>2. CASE call \in IpVlan
    BY <1>4, <2>2, CallKinds DEF Coming, Counted
  <2> QED BY <1>2, <2>1, <2>2
<1>7. CallInv'
  <2>1. call' \in VlanCall \cup IpVlan \cup {None}
    BY <1>2, <1>4
  <2>2. ComingInv'
    <3>1. CASE call \in VlanCall
      <4>1. call' \notin IpVlan \cup IpAdd
        <5>1. call' \in VlanCall \cup {None}
          BY <1>4, <3>1
        <5>2. ComingIn(call') = {}
          BY <5>1, CallKinds
        <5>3. \A c \in IpVlan \cup IpAdd : ComingIn(c) # {}
          BY CallKinds
        <5> QED BY <5>2, <5>3
      <4> QED BY <4>1 DEF ComingInv
    <3>2. CASE call \in IpVlan
      <4>1. call'.ip = call.ip /\ call'.vlan = call.vlan
        BY <1>4, <3>2, CallKinds
      <4> QED BY <1>1, <1>5, <3>2, <4>1 DEF CallInv, ComingInv, Serves
    <3> QED BY <1>2, <3>1, <3>2
  <2> QED BY <1>1, <1>2, <1>6, <2>1, <2>2 DEF CallInv
<1>8. ServeInv'
  BY <1>1, <1>2, <1>5, <1>6, PortsKept
<1>9. OperInv'
  <2>1. call' \notin IpStore
    BY <1>2, <1>4, CallKinds, NoneIpAssumption DEF VlanCall, IpVlan, IpStore
  <2>2. NoHandler'
    BY <1>1, <1>2, CallKeepsLinks
  <2> QED BY <1>1, <1>2, <2>1, <2>2, OperFrame
<1>10. vlanDB' \in [Vlan -> VlanEntry \cup {None}]
  BY <1>1, <1>3, DbType
<1> QED BY <1>1, <1>2, <1>5, <1>7, <1>8, <1>9, <1>10, TableKept DEF VlanType

\* A change of the layer below writes operational states of that interface.
LEMMA L2ChangeEffect ==
  ASSUME VlanType, NEW i, NEW state, ipDB' = AfterL2StateChange(i, state)
  PROVE  /\ ipDB' \in [Family \X Intf -> IpInfo \cup {None}]
         /\ \A a \in Family \X Intf :
              /\ ipDB'[a] = None <=> ipDB[a] = None
              /\ a[2] # i => ipDB'[a] = ipDB[a]
              /\ (a[2] = i /\ ipDB[a] # None) =>
                   /\ ipDB'[a].admin = ipDB[a].admin
                   /\ ipDB'[a].oper = UpDown(ipDB[a].admin = "UP" /\ state = "UP")
<1>1. ipDB \in [Family \X Intf -> IpInfo \cup {None}]
  BY DEF VlanType
<1>2. ASSUME NEW a \in Family \X Intf
      PROVE  /\ ipDB'[a] \in IpInfo \cup {None}
             /\ ipDB'[a] = None <=> ipDB[a] = None
             /\ a[2] # i => ipDB'[a] = ipDB[a]
             /\ (a[2] = i /\ ipDB[a] # None) =>
                  /\ ipDB'[a].admin = ipDB[a].admin
                  /\ ipDB'[a].oper = UpDown(ipDB[a].admin = "UP" /\ state = "UP")
  <2>1. CASE a[2] = i /\ ipDB[a] # None
    <3>1. ipDB[a] \in IpInfo
      BY <1>1, <2>1
    <3>2. ipDB'[a] = [ipDB[a] EXCEPT !.oper = UpDown(ipDB[a].admin = "UP" /\ state = "UP")]
      BY <1>1, <2>1 DEF AfterL2StateChange
    <3>3. UpDown(ipDB[a].admin = "UP" /\ state = "UP") \in {"UP", "DOWN"}
      BY DEF UpDown
    <3>4. /\ ipDB'[a] \in IpInfo /\ ipDB'[a].admin = ipDB[a].admin
          /\ ipDB'[a].oper = UpDown(ipDB[a].admin = "UP" /\ state = "UP")
      BY <3>1, <3>2, <3>3 DEF IpInfo
    <3> QED BY <2>1, <3>4, NoneIpAssumption
  <2>2. CASE ~(a[2] = i /\ ipDB[a] # None)
    <3>1. ipDB'[a] = ipDB[a]
      BY <1>1, <2>2 DEF AfterL2StateChange
    <3> QED BY <1>1, <2>2, <3>1
  <2> QED BY <2>1, <2>2
<1>3. ipDB' = [a \in Family \X Intf |-> ipDB'[a]]
  BY <1>1 DEF AfterL2StateChange
<1> QED BY <1>2, <1>3

LEMMA NotifyL3Apart ==
  ASSUME ApartInv, NoHandler, NotifyL3, UNCHANGED <<hwLink, link>>
  PROVE  ApartInv'
<1>1. VlanType /\ CallInv /\ ServeInv /\ OperInv /\ LinkInv
  BY DEF ApartInv
<1>2. /\ call # None /\ call.at = "notify" /\ call \in VlanCall /\ call' = None
      /\ ipDB' = AfterL2StateChange(call.vlan, call.info.oper)
      /\ UNCHANGED <<conf, vlanDB, pvid, hwVlan, operState, refCount>>
  BY <1>1, StageOf DEF NotifyL3, vlanVars
<1>3. call.vlan \in ClientVlan
  BY <1>2 DEF VlanCall
<1>4. Db' = Db
  BY <1>2 DEF Db, Stored
<1>5. Coming = {} /\ Counted = {} /\ Coming' = {} /\ Counted' = {}
  BY <1>2, CallKinds DEF Coming, Counted
<1>6. \A f \in Family, p \in Port : ipDB'[<<f, p>>] = ipDB[<<f, p>>]
  <2> SUFFICES ASSUME NEW f \in Family, NEW p \in Port
               PROVE  ipDB'[<<f, p>>] = ipDB[<<f, p>>]
    OBVIOUS
  <2>1. <<f, p>> \in Family \X Intf /\ p # call.vlan
    BY <1>3, VlanSets DEF Intf
  <2> QED BY <1>1, <1>2, <2>1, L2ChangeEffect
<1>7. CallInv'
  BY <1>2, <1>5, NoneIpAssumption DEF CallInv, ComingInv
<1>8. ServeInv'
  BY <1>1, <1>2, <1>4, <1>5, <1>6, PortsKept
<1>9. OperInv'
  <2>1. NoHandler'
    BY <1>1, <1>2, CallKeepsLinks
  <2> QED BY <1>1, <1>2, <1>6, <2>1, OperFrame, NoneIpAssumption
<1> QED BY <1>1, <1>2, <1>4, <1>7, <1>8, <1>9, TableKept, L2ChangeEffect DEF VlanType
\* CreateIPIntf on an interface that has its VLAN.
LEMMA CreateOnVlanApart ==
  ASSUME ApartInv, NoHandler, call = None,
         NEW f \in Family, NEW i \in Intf, NEW admin \in {"UP", "DOWN"},
         ipDB[<<f, i>>] = None,
         i \in Port \/ i \in ClientVlan,
         VlanOf(i) # NoVlan,
         call' = [at |-> "addIp", vlan |-> VlanOf(i),
                  ip |-> [family |-> f, intf |-> i, admin |-> admin]],
         UNCHANGED <<conf, vlanDB, pvid, hwVlan, operState, hwLink, link, ipDB, refCount>>
  PROVE  ApartInv'
<1> DEFINE ip == [family |-> f, intf |-> i, admin |-> admin]
<1>1. VlanType /\ CallInv /\ ServeInv /\ OperInv /\ LinkInv
  BY DEF ApartInv
<1>2. /\ i \in Port => Serves(VlanOf(i), i)
      /\ i \notin Port => VlanOf(i) = i
      /\ VlanOf(i) \in Vlan
  <2>1. i \in Port => Serves(VlanOf(i), i)
    BY SysVlanOfPort DEF VlanOf
  <2>2. i \notin Port => VlanOf(i) = i /\ i \in ClientVlan
    BY DEF VlanOf
  <2> QED BY <2>1, <2>2, VlanSets DEF Serves
<1>3. ip \in IpConfig /\ Key(ip) = <<f, i>> /\ ip.intf = i
  BY DEF IpConfig, Key
<1> HIDE DEF ip
<1>4. call' \in IpAdd /\ call'.at = "addIp" /\ call'.vlan = VlanOf(i) /\ call'.ip = ip
  BY <1>2, <1>3 DEF IpAdd, ip
<1>5. Db' = Db /\ Db = vlanDB
  BY <1>4, CallKinds DEF Db, Stored
<1>6. Coming = {} /\ Counted = {} /\ Coming' = {<<f, i>>} /\ Counted' = {}
  BY <1>3, <1>4, CallKinds DEF Coming, Counted
<1>7. CallInv'
  <2>1. ComingInv'
    BY <1>2, <1>3, <1>4, <1>5 DEF ComingInv, Serves
  <2> QED BY <1>4, <1>6, <2>1 DEF CallInv
<1>8. ServeInv'
  BY <1>1, <1>5, <1>6, PortsKept
<1>9. OperInv'
  <2>1. NoHandler'
    BY <1>1, CallKeepsLinks
  <2>2. call' \notin IpStore
    BY <1>4 DEF IpStore
  <2> QED BY <1>1, <2>1, <2>2, OperFrame
<1> QED BY <1>1, <1>5, <1>7, <1>8, <1>9, TableKept DEF VlanType

\* CreateIPIntf on a port that gets a reserved VLAN.
LEMMA CreateOnPortApart ==
  ASSUME ApartInv, NoHandler, call = None,
         NEW f \in Family, NEW i \in Port, NEW admin \in {"UP", "DOWN"},
         ipDB[<<f, i>>] = None, VlanOf(i) = NoVlan,
         NEW v, v = GetNextAvailableSysVlan, v # NoVlan,
         InstallVlan(v, PortObject(i)),
         call' = [at |-> "storeVlan", vlan |-> v, info |-> VlanInfo(PortObject(i)),
                  next |-> "addIp", ip |-> [family |-> f, intf |-> i, admin |-> admin]],
         UNCHANGED <<conf, vlanDB, operState, hwLink, link, ipDB, refCount>>
  PROVE  ApartInv'
<1> DEFINE ip == [family |-> f, intf |-> i, admin |-> admin]
           o == PortObject(i)
           e == VlanInfo(o)
<1>1. VlanType /\ CallInv /\ ServeInv /\ PvidInv /\ OperInv /\ LinkInv /\ CountInv
  BY DEF ApartInv
<1>2. v \in SysRsvdVlan /\ vlanDB[v] = None /\ v \in Vlan
  <2> DEFINE S == {w \in SysRsvdVlan : vlanDB[w] = None}
  <2>1. S \in SUBSET Vlan
    BY VlanSets
  <2>2. v = Least(S)
    BY DEF GetNextAvailableSysVlan
  <2> HIDE DEF S
  <2>3. v \in S
    BY <2>1, <2>2, LeastOfVlans
  <2> QED BY <2>3, VlanSets DEF S
<1>3. /\ o \in Object /\ o.tagged = {} /\ o.untagged = {i} /\ o.admin = "UP"
      /\ InHw(o) = [tagged |-> {}, untagged |-> {i}]
  BY DEF PortObject, Object, InHw
<1> HIDE DEF o, e
<1>4. /\ e \in VlanEntry /\ e # None /\ e.tagged = {} /\ e.untagged = {i}
      /\ e.active = Cardinality({p \in Members(o) : operState[p] = "UP"})
      /\ e.oper = UpDown(e.admin = "UP" /\ e.active > 0)
  BY <1>1, <1>3, EntryType DEF e
<1>5. ip \in IpConfig /\ Key(ip) = <<f, i>> /\ ip.intf = i /\ <<f, i>> \in Family \X {i}
  BY DEF IpConfig, Key, Intf
<1> HIDE DEF ip
<1>6. /\ call' \in IpVlan /\ call'.at = "storeVlan" /\ call'.vlan = v /\ call'.info = e
      /\ call'.ip = ip
  BY <1>2, <1>4, <1>5 DEF IpVlan, ip, e, o
<1>7. Db = vlanDB /\ Db' = [vlanDB EXCEPT ![v] = e]
  BY <1>6, CallKinds DEF Db, Stored
<1>8. Coming = {} /\ Counted = {} /\ Coming' = {<<f, i>>} /\ Counted' = {}
  BY <1>5, <1>6, CallKinds DEF Coming, Counted
<1>9. /\ hwVlan' = [hwVlan EXCEPT ![v] = [tagged |-> {}, untagged |-> {i}]]
      /\ pvid' = SetPvid(pvid, v, {i})
  BY <1>3 DEF InstallVlan, o
<1>10. VlanType'
  <2>1. pvid' \in [Port -> Vlan \cup {DefaultVlan}]
    BY <1>1, <1>2, <1>9, SetPvidType DEF VlanType
  <2>2. hwVlan' \in [Vlan -> HwObject \cup {None}]
    BY <1>1, <1>9 DEF VlanType, HwObject
  <2> QED BY <1>1, <2>1, <2>2 DEF VlanType
<1>11. /\ Db'[v] = e /\ \A w \in Vlan \ {v} : Db'[w] = Db[w]
       /\ hwVlan'[v] = [tagged |-> {}, untagged |-> {i}]
       /\ \A w \in Vlan \ {v} : hwVlan'[w] = hwVlan[w]
  BY <1>1, <1>2, <1>7, <1>9 DEF VlanType
<1>12. /\ \A p : Serves(v, p)' <=> p = i
       /\ \A w \in SysRsvdVlan \ {v} : \A p : Serves(w, p)' <=> Serves(w, p)
  BY <1>2, <1>4, <1>11, VlanSets DEF Serves
<1>13. /\ \A p \in Port : Holds(p)' = Holds(p)
       /\ \A p \in Port : Awaits(p) = {}
       /\ <<f, i>> \in Awaits(i)'
       /\ \A w \in SysRsvdVlan : ~Serves(w, i)
       /\ Holds(i) = {}
  <2>1. \A p \in Port : Holds(p)' = Holds(p)
    BY <1>8, HoldsFrame
  <2>2. \A w \in SysRsvdVlan : ~Serves(w, i)
    BY SysVlanOfPort DEF VlanOf
  <2> QED BY <1>1, <1>5, <1>8, <2>1, <2>2 DEF Awaits, ServeInv
<1>14. CallInv'
  <2>1. ComingInv'
    BY <1>5, <1>6, <1>12 DEF ComingInv
  <2> QED BY <1>6, <1>8, <2>1 DEF CallInv
<1>15. ServeInv'
  <2>1. Cardinality(Holds(i)) = 0
    BY <1>13, FS_EmptySet
  <2>2. refCount[v] = 0
    BY <1>1, <1>2, <1>7 DEF ServeInv
  <2>3. ASSUME NEW w \in SysRsvdVlan, NEW p \in Port, Serves(w, p)'
        PROVE  /\ Db'[w].tagged = {} /\ Db'[w].untagged = {p}
               /\ hwVlan'[w] = [tagged |-> {}, untagged |-> {p}]
               /\ refCount'[w] = Cardinality(Holds(p)')
               /\ Holds(p)' \cup Awaits(p)' # {}
    <3>1. CASE w = v
      <4>1. p = i
        BY <1>12, <2>3, <3>1
      <4> QED BY <1>4, <1>11, <1>13, <2>1, <2>2, <3>1, <4>1
    <3>2. CASE w # v
      <4>1. Serves(w, p)
        BY <1>12, <2>3, <3>2
      <4>2. /\ Db[w].tagged = {} /\ Db[w].untagged = {p}
            /\ hwVlan[w] = [tagged |-> {}, untagged |-> {p}]
            /\ refCount[w] = Cardinality(Holds(p))
            /\ Holds(p) \cup Awaits(p) # {}
        BY <1>1, <4>1 DEF ServeInv
      <4>3. Db'[w] = Db[w] /\ hwVlan'[w] = hwVlan[w]
        BY <1>11, <3>2, VlanSets
      <4> QED BY <1>13, <4>2, <4>3
    <3> QED BY <3>1, <3>2
  <2>4. ASSUME NEW w \in SysRsvdVlan, Db'[w] # None
        PROVE  \E p \in Port : Serves(w, p)'
    <3>1. CASE w = v
      BY <1>12, <3>1
    <3>2. CASE w # v
      BY <1>1, <1>11, <1>12, <2>4, <3>2, VlanSets DEF ServeInv
    <3> QED BY <3>1, <3>2
  <2>5. ASSUME NEW w \in SysRsvdVlan, Db'[w] = None
        PROVE  refCount'[w] = 0
    BY <1>1, <1>4, <1>11, <2>5, VlanSets DEF ServeInv
  <2>6. ASSUME NEW w \in SysRsvdVlan, NEW x \in SysRsvdVlan, NEW p \in Port,
               Serves(w, p)', Serves(x, p)'
        PROVE  w = x
    BY <1>1, <1>12, <1>13, <2>6 DEF ServeInv
  <2>7. ASSUME NEW p \in Port, Holds(p)' # {}
        PROVE  \E w \in SysRsvdVlan : Serves(w, p)'
    <3>1. PICK w \in SysRsvdVlan : Serves(w, p)
      BY <1>1, <1>13, <2>7 DEF ServeInv
    <3>2. w # v
      BY <1>2, <1>7, <3>1 DEF Serves
    <3> QED BY <1>12, <3>1, <3>2
  <2> QED BY <2>3, <2>4, <2>5, <2>6, <2>7 DEF ServeInv
<1>16. PvidInv'
  <2> SUFFICES ASSUME NEW p \in Port
               PROVE  /\ pvid'[p] \in ClientVlan => p \in UntaggedIn(conf'[pvid'[p]])
                      /\ pvid'[p] \in SysRsvdVlan => p \in UntaggedIn(Db'[pvid'[p]])
    BY DEF PvidInv, UntaggedIn
  <2>1. CASE p = i
    <3>1. pvid'[p] = v
      BY <1>9, <2>1 DEF SetPvid
    <3> QED BY <1>2, <1>4, <1>11, <2>1, <3>1, VlanSets DEF UntaggedIn
  <2>2. CASE p # i
    <3>1. pvid'[p] = pvid[p]
      BY <1>9, <2>2 DEF SetPvid
    <3>2. pvid[p] # v
      BY <1>1, <1>2, <1>7 DEF PvidInv, UntaggedIn
    <3> QED BY <1>1, <1>11, <3>1, <3>2, VlanSets DEF PvidInv
  <2> QED BY <2>1, <2>2
<1>17. LinkInv' /\ NoHandler'
  BY <1>1, CallKeepsLinks
<1>18. CountInv'
  <2>1. Members(e) = Members(o) /\ Members(o) \subseteq Port
    BY <1>3, <1>4 DEF Members
  <2>2. {p \in Members(e) : hwLink[p] = "UP"} = {p \in Members(o) : operState[p] = "UP"}
    BY <1>1, <2>1, NoHandlerState
  <2>3. \A w \in Vlan : Db'[w] = IF w = v THEN e ELSE Db[w]
    BY <1>11
  <2> QED BY <1>1, <1>2, <1>4, <1>10, <1>17, <2>2, <2>3, CountStep
<1>19. OperInv'
  <2>1. call' \notin IpStore
    BY <1>6 DEF IpStore
  <2> QED BY <1>1, <1>17, <2>1, OperFrame
<1> QED BY <1>10, <1>14, <1>15, <1>16, <1>17, <1>18, <1>19 DEF ApartInv

LEMMA CreateIPIntfApart ==
  ASSUME ApartInv, NoHandler,
         NEW f \in Family, NEW i \in Intf, NEW admin \in {"UP", "DOWN"},
         CreateIPIntf(f, i, admin), UNCHANGED <<hwLink, link>>
  PROVE  ApartInv'
<1>1. /\ call = None /\ ipDB[<<f, i>>] = None
      /\ UNCHANGED <<conf, vlanDB, operState, ipDB, refCount>>
  BY DEF CreateIPIntf, l3Vars
<1>2. CASE VlanOf(i) # NoVlan
  <2>1. /\ call' = [at |-> "addIp", vlan |-> VlanOf(i),
                    ip |-> [family |-> f, intf |-> i, admin |-> admin]]
        /\ UNCHANGED <<hwVlan, pvid>>
    BY <1>2 DEF CreateIPIntf
  <2>2. i \in Port \/ i \in ClientVlan
    BY DEF Intf
  <2> QED BY <1>1, <1>2, <2>1, <2>2, CreateOnVlanApart
<1>3. CASE VlanOf(i) = NoVlan
  <2> DEFINE v == GetNextAvailableSysVlan
  <2>1. i \in Port
    BY <1>3, VlanSets DEF VlanOf, Intf
  <2>2. /\ v # NoVlan
        /\ InstallVlan(v, PortObject(i))
        /\ call' = [at |-> "storeVlan", vlan |-> v, info |-> VlanInfo(PortObject(i)),
                    next |-> "addIp", ip |-> [family |-> f, intf |-> i, admin |-> admin]]
    BY <1>3 DEF CreateIPIntf
  <2> HIDE DEF v
  <2>3. v = GetNextAvailableSysVlan
    BY DEF v
  <2> QED BY <1>1, <1>3, <2>1, <2>2, <2>3, CreateOnPortApart
<1> QED BY <1>2, <1>3
\* The addresses a port holds are few.
LEMMA HoldsFinite ==
  ASSUME NEW p
  PROVE  IsFiniteSet(Holds(p)) /\ Cardinality(Holds(p)) \in Nat
<1>1. IsFiniteSet(Family \X {p})
  <2>1. Family = {"v4"} \cup {"v6"}
    BY DEF Family
  <2>2. IsFiniteSet(Family) /\ IsFiniteSet({p})
    BY <2>1, FS_Singleton, FS_AddElement
  <2> QED BY <2>2, FS_Product
<1>2. Holds(p) \in SUBSET (Family \X {p})
  BY DEF Holds
<1> QED BY <1>1, <1>2, FS_Subset, FS_CardinalityType

\* The state of the layer below a port is that of its link.
LEMMA PortStateBelow ==
  ASSUME ApartInv, NoHandler, NEW p \in Port
  PROVE  DetermineL2IntfOperState(p) = hwLink[p]
<1>1. operState[p] = hwLink[p] /\ hwLink[p] \in {"UP", "DOWN"}
  BY NoHandlerState DEF ApartInv, VlanType
<1> QED BY <1>1 DEF DetermineL2IntfOperState, UpDown

LEMMA AddIpApart ==
  ASSUME ApartInv, NoHandler, AddIp, UNCHANGED <<hwLink, link>>
  PROVE  ApartInv'
<1> DEFINE v == call.vlan
           ip == call.ip
           i == call.ip.intf
           a == Key(call.ip)
<1>1. VlanType /\ CallInv /\ ServeInv /\ OperInv /\ LinkInv
  BY DEF ApartInv
<1>2. /\ call # None /\ call.at = "addIp" /\ call \in IpVlan \cup IpAdd
      /\ refCount' = [refCount EXCEPT ![v] = @ + 1]
      /\ call' = [at |-> "storeIp", ip |-> ip, oper |-> DetermineL2IntfOperState(i)]
      /\ UNCHANGED <<conf, vlanDB, pvid, hwVlan, operState, ipDB>>
  BY <1>1, StageOf DEF AddIp
<1>3. /\ ip \in IpConfig /\ v \in Vlan /\ i \in Intf
      /\ a = <<ip.family, i>> /\ ip.family \in Family /\ a \in Family \X Intf
  BY <1>2, VlanSets DEF IpVlan, IpAdd, IpConfig, Key
<1>4. Db = vlanDB /\ Coming = {a} /\ Counted = {} /\ ipDB[a] = None
  BY <1>1, <1>2, CallKinds DEF Db, Stored, Coming, Counted, CallInv
<1>5. IF i \in Port THEN Serves(v, i) ELSE v = i
  BY <1>1, <1>2 DEF CallInv, ComingInv
<1> HIDE DEF v, ip, i, a
<1>6. call' \in IpStore /\ call'.ip = ip /\ call'.oper = DetermineL2IntfOperState(i)
  <2>1. DetermineL2IntfOperState(i) \in {"UP", "DOWN"}
    BY DEF DetermineL2IntfOperState, UpDown
  <2> QED BY <1>2, <1>3, <2>1 DEF IpStore
<1>7. Coming' = {} /\ Counted' = {a}
  BY <1>6, CallKinds DEF Coming, Counted, a, ip
<1>8. Db' = Db
  <2>1. call'.at # "storeVlan"
    BY <1>6 DEF IpStore
  <2> QED BY <1>2, <1>4, <2>1 DEF Db, Stored
<1>9. refCount' \in [Vlan \cup {NoVlan} -> Int]
  BY <1>1, <1>2, <1>3 DEF VlanType
<1>10. CallInv'
  <2>1. ComingInv'
    <3>1. \A c \in IpVlan \cup IpAdd : ComingIn(c) # {}
      BY CallKinds
    <3>2. ComingIn(call') = {}
      BY <1>6, CallKinds
    <3> QED BY <3>1, <3>2 DEF ComingInv
  <2> QED BY <1>2, <1>4, <1>6, <1>7, <2>1 DEF CallInv
<1>11. OperInv'
  <2>1. i \in Port => call'.oper = hwLink[i]
    BY <1>6, PortStateBelow
  <2>2. call'.ip.intf = i
    BY <1>6 DEF i, ip
  <2> QED BY <1>1, <1>2, <2>1, <2>2 DEF OperInv
<1>12. ServeInv'
  <2>1. CASE i \notin Port
    <3>1. \A w \in SysRsvdVlan : refCount'[w] = refCount[w]
      <4>1. v \in ClientVlan
        BY <1>3, <1>5, <2>1 DEF Intf
      <4> QED BY <1>1, <1>2, <4>1, VlanSets DEF VlanType
    <3>2. \A f \in Family, p \in Port : <<f, p>> # a
      BY <1>3, <2>1
    <3> QED BY <1>1, <1>2, <1>4, <1>7, <1>8, <3>1, <3>2, PortsKept
  <2>2. CASE i \in Port
    <3>1. PICK q \in Port, u \in SysRsvdVlan : q = i /\ u = v /\ Serves(u, q)
      BY <1>5, <2>2 DEF Serves
    <3>2. a \in Family \X {q}
      BY <1>3, <3>1
    <3>3. Holds(q)' = Holds(q) \cup {a} /\ a \notin Holds(q)
      BY <1>2, <1>4, <1>7, <3>2 DEF Holds
    <3>4. \A p \in Port \ {q} : Holds(p)' = Holds(p) /\ Awaits(p) = {}
      BY <1>2, <1>4, <1>7, <3>2 DEF Holds, Awaits
    <3>5. Cardinality(Holds(q)') = Cardinality(Holds(q)) + 1
      BY <3>3, HoldsFinite, FS_AddElement
    <3>6. \A w, p : Serves(w, p)' <=> Serves(w, p)
      BY <1>8 DEF Serves
    <3>7. /\ refCount'[u] = refCount[u] + 1
          /\ \A w \in SysRsvdVlan \ {u} : refCount'[w] = refCount[w]
      BY <1>1, <1>2, <3>1, VlanSets DEF VlanType
    <3>8. ASSUME NEW w \in SysRsvdVlan, NEW p \in Port, Serves(w, p)'
          PROVE  /\ Db'[w].tagged = {} /\ Db'[w].untagged = {p}
                 /\ hwVlan'[w] = [tagged |-> {}, untagged |-> {p}]
                 /\ refCount'[w] = Cardinality(Holds(p)')
                 /\ Holds(p)' \cup Awaits(p)' # {}
      <4>1. Serves(w, p)
        BY <3>6, <3>8
      <4>2. /\ Db[w].tagged = {} /\ Db[w].untagged = {p}
            /\ hwVlan[w] = [tagged |-> {}, untagged |-> {p}]
            /\ refCount[w] = Cardinality(Holds(p))
            /\ Holds(p) \cup Awaits(p) # {}
        BY <1>1, <4>1 DEF ServeInv
      <4>3. CASE p = q
        <5>1. w = u
          BY <1>1, <3>1, <4>1, <4>3 DEF ServeInv
        <5> QED BY <1>2, <1>8, <3>3, <3>5, <3>7, <4>2, <4>3, <5>1
      <4>4. CASE p # q
        <5>1. w # u
          BY <3>1, <4>2, <4>4 DEF Serves
        <5> QED BY <1>2, <1>8, <3>4, <3>7, <4>2, <4>4, <5>1
      <4> QED BY <4>3, <4>4
    <3>9. ASSUME NEW w \in SysRsvdVlan, Db'[w] = None
          PROVE  refCount'[w] = 0
      BY <1>1, <1>8, <3>1, <3>7, <3>9 DEF ServeInv, Serves
    <3>10. ASSUME NEW p \in Port, Holds(p)' # {}
           PROVE  \E w \in SysRsvdVlan : Serves(w, p)'
      BY <1>1, <3>1, <3>4, <3>6, <3>10 DEF ServeInv
    <3>11. /\ \A w \in SysRsvdVlan : Db'[w] # None => \E p \in Port : Serves(w, p)'
           /\ \A w, x \in SysRsvdVlan, p \in Port : (Serves(w, p)' /\ Serves(x, p)') => w = x
      BY <1>1, <1>8, <3>6 DEF ServeInv
    <3> QED BY <3>8, <3>9, <3>10, <3>11 DEF ServeInv
  <2> QED BY <2>1, <2>2
<1> QED BY <1>1, <1>2, <1>8, <1>9, <1>10, <1>11, <1>12, TableKept DEF VlanType

LEMMA StoreIpApart ==
  ASSUME ApartInv, NoHandler, StoreIp, UNCHANGED <<hwLink, link>>
  PROVE  ApartInv'
<1> DEFINE i == call.ip.intf
           a == Key(call.ip)
           e == [admin |-> call.ip.admin, oper |-> call.oper]
<1>1. VlanType /\ CallInv /\ ServeInv /\ OperInv /\ LinkInv
  BY DEF ApartInv
<1>2. /\ call # None /\ call.at = "storeIp" /\ call \in IpStore /\ call' = None
      /\ ipDB' = [ipDB EXCEPT ![a] = e]
      /\ UNCHANGED <<conf, vlanDB, pvid, hwVlan, operState, refCount>>
  BY <1>1, StageOf DEF StoreIp, vlanVars, Key
<1>3. /\ e \in IpInfo /\ e # None /\ e.oper = call.oper
      /\ a = <<call.ip.family, i>> /\ a \in Family \X Intf
  BY <1>2, NoneIpAssumption DEF IpStore, IpConfig, IpInfo, Key
<1>4. /\ Db = vlanDB /\ Db' = vlanDB' /\ Coming = {} /\ Counted = {a}
      /\ Coming' = {} /\ Counted' = {}
  BY <1>2, CallKinds DEF Db, Stored, Coming, Counted
<1>5. i \in Port => call.oper = hwLink[i]
  BY <1>1, <1>2 DEF OperInv
<1> HIDE DEF i, a, e
<1>6. /\ ipDB' \in [Family \X Intf -> IpInfo \cup {None}]
      /\ ipDB'[a] = e /\ \A b \in Family \X Intf : b # a => ipDB'[b] = ipDB[b]
  BY <1>1, <1>2, <1>3 DEF VlanType
<1>7. \A f \in Family, p \in Port : <<f, p>> \in Family \X Intf
  BY DEF Intf
<1>8. CallInv'
  BY <1>2, <1>4, NoneIpAssumption DEF CallInv, ComingInv
<1>9. ServeInv'
  <2>1. \A f \in Family, p \in Port :
           /\ (ipDB'[<<f, p>>] # None \/ <<f, p>> \in Counted')
                <=> (ipDB[<<f, p>>] # None \/ <<f, p>> \in Counted)
           /\ <<f, p>> \in Coming => <<f, p>> \in Coming'
    BY <1>3, <1>4, <1>6, <1>7
  <2> QED BY <1>1, <1>2, <1>4, <2>1, PortsKept
<1>10. OperInv'
  <2>1. ASSUME NEW f \in Family, NEW p \in Port, ipDB'[<<f, p>>] # None
        PROVE  /\ ipDB'[<<f, p>>].oper = "UP" => hwLink[p] = "UP"
               /\ (ipDB'[<<f, p>>].admin = "UP" /\ hwLink[p] = "UP")
                    => ipDB'[<<f, p>>].oper = "UP"
    <3>1. CASE <<f, p>> = a
      <4>1. p = i
        BY <1>3, <3>1
      <4> QED BY <1>3, <1>5, <1>6, <3>1, <4>1
    <3>2. CASE <<f, p>> # a
      <4>1. ipDB'[<<f, p>>] = ipDB[<<f, p>>]
        BY <1>6, <1>7, <3>2
      <4> QED BY <1>1, <2>1, <4>1 DEF OperInv, NoHandler
    <3> QED BY <3>1, <3>2
  <2> QED BY <1>2, <2>1, NoneIpAssumption DEF OperInv
<1> QED BY <1>1, <1>2, <1>4, <1>6, <1>8, <1>9, <1>10, TableKept DEF VlanType

LEMMA UpdateIPIntfApart ==
  ASSUME ApartInv, NoHandler,
         NEW f \in Family, NEW i \in Intf, NEW admin \in {"UP", "DOWN"},
         UpdateIPIntf(f, i, admin), UNCHANGED <<hwLink, link>>
  PROVE  ApartInv'
<1> DEFINE a == <<f, i>>
           oper == UpDown(admin = "UP" /\ DetermineL2IntfOperState(i) = "UP")
           e == [admin |-> admin, oper |-> oper]
<1>1. VlanType /\ CallInv /\ ServeInv /\ OperInv /\ LinkInv
  BY DEF ApartInv
<1>2. /\ call = None /\ call' = None /\ ipDB[a] # None
      /\ ipDB' = [ipDB EXCEPT ![a] = e]
      /\ UNCHANGED <<conf, vlanDB, pvid, hwVlan, operState, refCount>>
  BY DEF UpdateIPIntf, vlanVars
<1>3. e \in IpInfo /\ e # None /\ e.oper = oper /\ e.admin = admin
  BY NoneIpAssumption DEF IpInfo, UpDown
<1>4. /\ Db = vlanDB /\ Db' = vlanDB' /\ Coming = {} /\ Counted = {}
      /\ Coming' = {} /\ Counted' = {}
  BY <1>2, CallKinds DEF Db, Coming, Counted
<1>5. i \in Port => oper = UpDown(admin = "UP" /\ hwLink[i] = "UP")
  BY PortStateBelow
<1> HIDE DEF oper, e
<1>6. /\ ipDB' \in [Family \X Intf -> IpInfo \cup {None}]
      /\ ipDB'[a] = e /\ \A b \in Family \X Intf : b # a => ipDB'[b] = ipDB[b]
  BY <1>1, <1>2, <1>3 DEF VlanType
<1>7. \A g \in Family, p \in Port : <<g, p>> \in Family \X Intf
  BY DEF Intf
<1>8. CallInv'
  BY <1>2, <1>4, NoneIpAssumption DEF CallInv, ComingInv
<1>9. ServeInv'
  <2>1. \A g \in Family, p \in Port :
           /\ (ipDB'[<<g, p>>] # None \/ <<g, p>> \in Counted')
                <=> (ipDB[<<g, p>>] # None \/ <<g, p>> \in Counted)
           /\ <<g, p>> \in Coming => <<g, p>> \in Coming'
    BY <1>2, <1>3, <1>4, <1>6, <1>7
  <2> QED BY <1>1, <1>2, <1>4, <2>1, PortsKept
<1>10. OperInv'
  <2>1. ASSUME NEW g \in Family, NEW p \in Port, ipDB'[<<g, p>>] # None
        PROVE  /\ ipDB'[<<g, p>>].oper = "UP" => hwLink[p] = "UP"
               /\ (ipDB'[<<g, p>>].admin = "UP" /\ hwLink[p] = "UP")
                    => ipDB'[<<g, p>>].oper = "UP"
    <3>1. CASE <<g, p>> = a
      <4>1. p = i
        BY <3>1
      <4> QED BY <1>3, <1>5, <1>6, <3>1, <4>1 DEF UpDown
    <3>2. CASE <<g, p>> # a
      <4>1. ipDB'[<<g, p>>] = ipDB[<<g, p>>]
        BY <1>6, <1>7, <3>2
      <4> QED BY <1>1, <2>1, <4>1 DEF OperInv, NoHandler
    <3> QED BY <3>1, <3>2
  <2> QED BY <1>2, <2>1, NoneIpAssumption DEF OperInv
<1> QED BY <1>1, <1>2, <1>4, <1>6, <1>8, <1>9, <1>10, TableKept DEF VlanType
\* DeleteIPIntf on a port, the last address or not.
LEMMA DeleteOnPortApart ==
  ASSUME ApartInv, NoHandler, call = None, call' = None,
         NEW f \in Family, NEW i \in Port, NEW v, v = VlanOf(i),
         ipDB[<<f, i>>] # None, ipDB' = [ipDB EXCEPT ![<<f, i>>] = None],
         refCount' = [refCount EXCEPT ![v] = @ - 1],
         \/ LastAddress(refCount[v]) /\ RemoveVlan(v, PortObject(i))
         \/ ~LastAddress(refCount[v]) /\ v # NoVlan /\ UNCHANGED <<vlanDB, hwVlan, pvid>>
         \/ v = NoVlan,
         UNCHANGED <<conf, operState, hwLink, link>>
  PROVE  ApartInv'
<1> DEFINE a == <<f, i>>
<1>1. VlanType /\ CallInv /\ ServeInv /\ PvidInv /\ OperInv /\ LinkInv /\ CountInv
  BY DEF ApartInv
<1>2. /\ Db = vlanDB /\ Db' = vlanDB' /\ Coming = {} /\ Counted = {}
      /\ Coming' = {} /\ Counted' = {}
  BY CallKinds DEF Db, Coming, Counted
<1>3. a \in Family \X {i} /\ a \in Family \X Intf
  BY DEF Intf
<1>4. a \in Holds(i)
  BY <1>3 DEF Holds
<1>5. v \in SysRsvdVlan /\ Serves(v, i) /\ v \in Vlan /\ v # NoVlan
  <2>1. \E w \in SysRsvdVlan : Serves(w, i)
    BY <1>1, <1>4 DEF ServeInv
  <2>2. v = GetSysVlanContainingIf(i)
    BY DEF VlanOf
  <2> QED BY <2>1, <2>2, SysVlanOfPort, VlanSets DEF Serves
<1>6. /\ Db[v].untagged = {i} /\ refCount[v] = Cardinality(Holds(i))
  BY <1>1, <1>5 DEF ServeInv
<1>7. /\ ipDB' \in [Family \X Intf -> IpInfo \cup {None}]
      /\ ipDB'[a] = None /\ \A b \in Family \X Intf : b # a => ipDB'[b] = ipDB[b]
  BY <1>1, <1>3 DEF VlanType
<1>8. \A g \in Family, p \in Port : <<g, p>> \in Family \X Intf
  BY DEF Intf
<1>9. Holds(i)' = Holds(i) \ {a} /\ \A p \in Port \ {i} : Holds(p)' = Holds(p)
  BY <1>2, <1>3, <1>7, <1>8 DEF Holds
<1>10. /\ Cardinality(Holds(i)') = Cardinality(Holds(i)) - 1
       /\ Holds(i)' = {} <=> Cardinality(Holds(i)) = 1
       /\ Cardinality(Holds(i)) \in Nat
  <2>1. IsFiniteSet(Holds(i)) /\ Cardinality(Holds(i)) \in Nat
    BY HoldsFinite
  <2>2. /\ Cardinality(Holds(i) \ {a}) = Cardinality(Holds(i)) - 1
        /\ IsFiniteSet(Holds(i) \ {a})
    BY <1>4, <2>1, FS_RemoveElement
  <2>3. Cardinality(Holds(i) \ {a}) = 0 <=> Holds(i) \ {a} = {}
    BY <2>2, FS_EmptySet
  <2> QED BY <1>9, <2>1, <2>2, <2>3
<1>11. \A p \in Port : Awaits(p) = {}
  BY <1>2 DEF Awaits
<1>12. /\ refCount' \in [Vlan \cup {NoVlan} -> Int]
       /\ refCount'[v] = refCount[v] - 1
       /\ \A w \in SysRsvdVlan \ {v} : refCount'[w] = refCount[w]
  BY <1>1, <1>5, VlanSets DEF VlanType
<1>13. LinkInv' /\ NoHandler'
  BY <1>1, CallKeepsLinks
<1>14. CallInv'
  BY <1>2, NoneIpAssumption DEF CallInv, ComingInv
<1>15. OperInv'
  <2>1. ASSUME NEW g \in Family, NEW p \in Port, ipDB'[<<g, p>>] # None
        PROVE  ipDB'[<<g, p>>] = ipDB[<<g, p>>]
    BY <1>7, <1>8, <2>1
  <2> QED BY <1>1, <2>1, NoneIpAssumption DEF OperInv, NoHandler
<1>16. CASE Holds(i)' = {}
  <2>1. RemoveVlan(v, PortObject(i))
    BY <1>5, <1>6, <1>10, <1>16 DEF LastAddress
  <2>2. /\ hwVlan' = [hwVlan EXCEPT ![v] = None]
        /\ vlanDB' = [vlanDB EXCEPT ![v] = None]
        /\ pvid' = SetPvid(pvid, DefaultVlan, {i})
    BY <2>1 DEF RemoveVlan, PortObject
  <2>3. /\ Db'[v] = None /\ \A w \in Vlan \ {v} : Db'[w] = Db[w]
        /\ \A w \in Vlan \ {v} : hwVlan'[w] = hwVlan[w]
    BY <1>1, <1>2, <1>5, <2>2 DEF VlanType
  <2>4. VlanType'
    <3>1. pvid' \in [Port -> Vlan \cup {DefaultVlan}]
      BY <1>1, <2>2, SetPvidType DEF VlanType
    <3> QED BY <1>1, <1>7, <1>12, <2>2, <3>1 DEF VlanType
  <2>5. /\ \A p : ~Serves(v, p)'
        /\ \A w \in SysRsvdVlan \ {v} : \A p : Serves(w, p)' <=> Serves(w, p)
        /\ \A w \in SysRsvdVlan \ {v} : ~Serves(w, i)
    BY <1>1, <1>5, <2>3, VlanSets DEF Serves, ServeInv
  <2>6. ServeInv'
    <3>1. ASSUME NEW w \in SysRsvdVlan, NEW p \in Port, Serves(w, p)'
          PROVE  /\ Db'[w].tagged = {} /\ Db'[w].untagged = {p}
                 /\ hwVlan'[w] = [tagged |-> {}, untagged |-> {p}]
                 /\ refCount'[w] = Cardinality(Holds(p)')
                 /\ Holds(p)' \cup Awaits(p)' # {}
      <4>1. w # v /\ Serves(w, p) /\ p # i
        BY <2>5, <3>1
      <4>2. /\ Db[w].tagged = {} /\ Db[w].untagged = {p}
            /\ hwVlan[w] = [tagged |-> {}, untagged |-> {p}]
            /\ refCount[w] = Cardinality(Holds(p))
            /\ Holds(p) \cup Awaits(p) # {}
        BY <1>1, <4>1 DEF ServeInv
      <4>3. Db'[w] = Db[w] /\ hwVlan'[w] = hwVlan[w]
        BY <2>3, <4>1, VlanSets
      <4> QED BY <1>9, <1>11, <1>12, <4>1, <4>2, <4>3
    <3>2. ASSUME NEW w \in SysRsvdVlan, Db'[w] # None
          PROVE  \E p \in Port : Serves(w, p)'
      BY <1>1, <2>3, <2>5, <3>2, VlanSets DEF ServeInv
    <3>3. ASSUME NEW w \in SysRsvdVlan, Db'[w] = None
          PROVE  refCount'[w] = 0
      <4>1. CASE w = v
        BY <1>6, <1>10, <1>12, <1>16, <4>1
      <4>2. CASE w # v
        BY <1>1, <1>12, <2>3, <3>3, <4>2, VlanSets DEF ServeInv
      <4> QED BY <4>1, <4>2
    <3>4. ASSUME NEW w \in SysRsvdVlan, NEW x \in SysRsvdVlan, NEW p \in Port,
                 Serves(w, p)', Serves(x, p)'
          PROVE  w = x
      BY <1>1, <2>5, <3>4 DEF ServeInv
    <3>5. ASSUME NEW p \in Port, Holds(p)' # {}
          PROVE  \E w \in SysRsvdVlan : Serves(w, p)'
      <4>1. p # i /\ Holds(p) # {}
        BY <1>9, <1>16, <3>5
      <4>2. PICK w \in SysRsvdVlan : Serves(w, p)
        BY <1>1, <4>1 DEF ServeInv
      <4>3. w # v
        BY <1>6, <4>1, <4>2 DEF Serves
      <4> QED BY <2>5, <4>2, <4>3
    <3> QED BY <3>1, <3>2, <3>3, <3>4, <3>5 DEF ServeInv
  <2>7. PvidInv'
    <3> SUFFICES ASSUME NEW p \in Port
                 PROVE  /\ pvid'[p] \in ClientVlan => p \in UntaggedIn(conf'[pvid'[p]])
                        /\ pvid'[p] \in SysRsvdVlan => p \in UntaggedIn(Db'[pvid'[p]])
      BY DEF PvidInv, UntaggedIn
    <3>1. CASE p = i
      BY <2>2, <3>1, VlanSets DEF SetPvid
    <3>2. CASE p # i
      <4>1. pvid'[p] = pvid[p]
        BY <2>2, <3>2 DEF SetPvid
      <4>2. pvid[p] # v
        BY <1>1, <1>5, <1>6, <3>2 DEF PvidInv, UntaggedIn
      <4> QED BY <1>1, <2>3, <4>1, <4>2, VlanSets DEF PvidInv
    <3> QED BY <3>1, <3>2
  <2>8. CountInv'
    <3>1. \A w \in Vlan : Db'[w] = IF w = v THEN None ELSE Db[w]
      BY <2>3
    <3> QED BY <1>1, <1>5, <1>13, <2>4, <3>1, CountStep
  <2> QED BY <1>13, <1>14, <1>15, <2>4, <2>6, <2>7, <2>8 DEF ApartInv
<1>17. CASE Holds(i)' # {}
  <2>1. UNCHANGED <<vlanDB, hwVlan, pvid>>
    BY <1>5, <1>6, <1>10, <1>17 DEF LastAddress
  <2>2. Db' = Db
    BY <1>2, <2>1
  <2>3. \A w, p : Serves(w, p)' <=> Serves(w, p)
    BY <2>2 DEF Serves
  <2>4. ServeInv'
    <3>1. ASSUME NEW w \in SysRsvdVlan, NEW p \in Port, Serves(w, p)'
          PROVE  /\ Db'[w].tagged = {} /\ Db'[w].untagged = {p}
                 /\ hwVlan'[w] = [tagged |-> {}, untagged |-> {p}]
                 /\ refCount'[w] = Cardinality(Holds(p)')
                 /\ Holds(p)' \cup Awaits(p)' # {}
      <4>1. Serves(w, p)
        BY <2>3, <3>1
      <4>2. /\ Db[w].tagged = {} /\ Db[w].untagged = {p}
            /\ hwVlan[w] = [tagged |-> {}, untagged |-> {p}]
            /\ refCount[w] = Cardinality(Holds(p))
            /\ Holds(p) \cup Awaits(p) # {}
        BY <1>1, <4>1 DEF ServeInv
      <4>3. CASE p = i
        <5>1. w = v
          BY <1>1, <1>5, <4>1, <4>3 DEF ServeInv
        <5> QED BY <1>10, <1>12, <1>17, <2>1, <2>2, <4>2, <4>3, <5>1
      <4>4. CASE p # i
        <5>1. w # v
          BY <1>6, <4>1, <4>4 DEF Serves
        <5> QED BY <1>9, <1>11, <1>12, <2>1, <2>2, <4>2, <4>4, <5>1
      <4> QED BY <4>3, <4>4
    <3>2. ASSUME NEW w \in SysRsvdVlan, Db'[w] = None
          PROVE  refCount'[w] = 0
      BY <1>1, <1>5, <1>12, <2>2, <3>2 DEF ServeInv, Serves
    <3>3. ASSUME NEW p \in Port, Holds(p)' # {}
          PROVE  \E w \in SysRsvdVlan : Serves(w, p)'
      BY <1>1, <1>5, <1>9, <2>3, <3>3 DEF ServeInv
    <3>4. /\ \A w \in SysRsvdVlan : Db'[w] # None => \E p \in Port : Serves(w, p)'
          /\ \A w, x \in SysRsvdVlan, p \in Port : (Serves(w, p)' /\ Serves(x, p)') => w = x
      BY <1>1, <2>2, <2>3 DEF ServeInv
    <3> QED BY <3>1, <3>2, <3>3, <3>4 DEF ServeInv
  <2> QED BY <1>1, <1>7, <1>12, <1>14, <1>15, <2>1, <2>2, <2>4, TableKept DEF VlanType
<1> QED BY <1>16, <1>17

LEMMA DeleteIPIntfApart ==
  ASSUME ApartInv, NoHandler, NEW f \in Family, NEW i \in Intf, DeleteIPIntf(f, i),
         UNCHANGED <<hwLink, link>>
  PROVE  ApartInv'
<1> DEFINE v == VlanOf(i)
<1>1. VlanType /\ CallInv /\ ServeInv /\ OperInv /\ LinkInv
  BY DEF ApartInv
<1>2. /\ call = None /\ call' = None /\ ipDB[<<f, i>>] # None
      /\ ipDB' = [ipDB EXCEPT ![<<f, i>>] = None]
      /\ refCount' = [refCount EXCEPT ![v] = @ - 1]
      /\ UNCHANGED <<conf, operState>>
  BY DEF DeleteIPIntf
<1>3. CASE i \in Port
  <2>1. \/ LastAddress(refCount[v]) /\ RemoveVlan(v, PortObject(i))
        \/ ~LastAddress(refCount[v]) /\ v # NoVlan /\ UNCHANGED <<vlanDB, hwVlan, pvid>>
        \/ v = NoVlan
    BY <1>3 DEF DeleteIPIntf
  <2>2. v = VlanOf(i)
    OBVIOUS
  <2> HIDE DEF v
  <2> QED BY <1>2, <1>3, <2>1, <2>2, DeleteOnPortApart
<1>4. CASE i \notin Port
  <2>1. v = i /\ i \in ClientVlan
    BY <1>4 DEF VlanOf, Intf
  <2>2. UNCHANGED <<vlanDB, hwVlan, pvid>>
    BY <1>4 DEF DeleteIPIntf
  <2>3. /\ Db = vlanDB /\ Db' = vlanDB' /\ Coming = {} /\ Counted = {}
        /\ Coming' = {} /\ Counted' = {}
    BY <1>2, CallKinds DEF Db, Coming, Counted
  <2> HIDE DEF v
  <2>4. /\ refCount' \in [Vlan \cup {NoVlan} -> Int]
        /\ \A w \in SysRsvdVlan : refCount'[w] = refCount[w]
    BY <1>1, <1>2, <2>1, VlanSets DEF VlanType
  <2>5. ipDB' \in [Family \X Intf -> IpInfo \cup {None}]
    BY <1>1, <1>2 DEF VlanType
  <2>6. \A g \in Family, p \in Port : ipDB'[<<g, p>>] = ipDB[<<g, p>>]
    <3>1. \A g \in Family, p \in Port : <<g, p>> \in Family \X Intf /\ <<g, p>> # <<f, i>>
      BY <1>4 DEF Intf
    <3> QED BY <1>1, <1>2, <3>1 DEF VlanType
  <2>7. CallInv'
    BY <1>2, <2>3, NoneIpAssumption DEF CallInv, ComingInv
  <2>8. ServeInv'
    BY <1>1, <2>2, <2>3, <2>4, <2>6, PortsKept
  <2>9. OperInv'
    <3>1. NoHandler'
      BY <1>1, <1>2, CallKeepsLinks
    <3> QED BY <1>1, <1>2, <2>6, <3>1, OperFrame, NoneIpAssumption
  <2> QED BY <1>1, <1>2, <2>2, <2>3, <2>4, <2>5, <2>7, <2>8, <2>9, TableKept DEF VlanType
<1> QED BY <1>3, <1>4
-----------------------------------------------------------------------------
(***************************************************************************)
(* The link handlers.                                                      *)
(***************************************************************************)
\* What a link handler has in hand.
LEMMA StageType ==
  ASSUME LinkInv, NEW h \in Handler, link[h] # None
  PROVE  /\ link[h] \in LinkStage
         /\ link[h].port \in Port /\ link[h].state \in {"UP", "DOWN"}
         /\ At(h, "notify") => link[h].vlan \in Vlan /\ link[h].oper \in {"UP", "DOWN"}
         /\ (At(h, "vlans") \/ At(h, "notify")) => CopyOf(h) = link[h].copy
         /\ (At(h, "vlans") \/ At(h, "notify")) => CopyOf(h) \in VlanCopy
         /\ (At(h, "port") \/ At(h, "range")) =>
              link[h] = [at |-> link[h].at, port |-> link[h].port, state |-> link[h].state]
         /\ DOMAIN CopyOf(h) \subseteq Vlan
         /\ \A v \in DOMAIN CopyOf(h) : CopyOf(h)[v] \in VlanEntry
<1>1. link[h] \in LinkStage
  BY DEF LinkInv
<1>2. link[h].port \in Port /\ link[h].state \in {"UP", "DOWN"}
  BY <1>1 DEF LinkStage
<1>3. At(h, "notify") => link[h].vlan \in Vlan /\ link[h].oper \in {"UP", "DOWN"}
  BY <1>1 DEF LinkStage, At
<1>4. (At(h, "vlans") \/ At(h, "notify")) => CopyOf(h) = link[h].copy /\ CopyOf(h) \in VlanCopy
  BY <1>1 DEF LinkStage, At, CopyOf
<1>5. (At(h, "port") \/ At(h, "range")) =>
              link[h] = [at |-> link[h].at, port |-> link[h].port, state |-> link[h].state]
  BY <1>1 DEF LinkStage, At
<1>6. DOMAIN CopyOf(h) \subseteq Vlan /\ \A v \in DOMAIN CopyOf(h) : CopyOf(h)[v] \in VlanEntry
  <2>1. CASE At(h, "vlans") \/ At(h, "notify")
    <3>1. PICK V \in SUBSET Vlan : CopyOf(h) \in [V -> VlanEntry]
      BY <1>4, <2>1 DEF VlanCopy
    <3> QED BY <3>1
  <2>2. CASE ~(At(h, "vlans") \/ At(h, "notify"))
    BY <2>2 DEF CopyOf
  <2> QED BY <2>1, <2>2
<1> QED BY <1>1, <1>2, <1>3, <1>4, <1>5, <1>6

\* The members and the admin state of a VLAN.
SameVlans ==
  \A v \in Vlan :
    /\ vlanDB'[v] = None <=> vlanDB[v] = None
    /\ vlanDB[v] # None => /\ vlanDB'[v].admin = vlanDB[v].admin
                           /\ vlanDB'[v].tagged = vlanDB[v].tagged
                           /\ vlanDB'[v].untagged = vlanDB[v].untagged

\* A link handler changes no members, and no address comes or goes.
LEMMA HandlerKeeps ==
  ASSUME ApartInv, call = None, UNCHANGED <<conf, pvid, hwVlan, call, refCount>>, SameVlans,
         VlanType', \A a \in Family \X Intf : ipDB'[a] = None <=> ipDB[a] = None,
         LinkInv', CountInv', OperInv'
  PROVE  ApartInv'
<1>1. VlanType /\ CallInv /\ ServeInv /\ PvidInv
  BY DEF ApartInv
<1>2. /\ Db = vlanDB /\ Db' = vlanDB' /\ Coming = {} /\ Counted = {}
      /\ Coming' = {} /\ Counted' = {}
  BY CallKinds DEF Db, Coming, Counted
<1>3. CallInv'
  BY <1>2, NoneIpAssumption DEF CallInv, ComingInv
<1>4. ServeInv'
  <2>1. \A f \in Family, p \in Port : <<f, p>> \in Family \X Intf
    BY DEF Intf
  <2>2. \A p \in Port : Holds(p)' = Holds(p)
    BY <1>2, <2>1, HoldsFrame
  <2>3. \A p \in Port : Awaits(p) = {}
    BY <1>2 DEF Awaits
  <2> QED BY <1>1, <1>2, <2>2, <2>3, ServeFrame, VlanSets DEF SameVlans
<1>5. PvidInv'
  BY <1>1, <1>2, VlanSets DEF PvidInv, UntaggedIn, SameVlans
<1> QED BY <1>3, <1>4, <1>5 DEF ApartInv

\* A link handler goes on to its next stage.
LEMMA LinkMoves ==
  ASSUME LinkInv, NEW h \in Handler, link[h] # None,
         NEW s \in LinkStage \cup {None}, link' = [link EXCEPT ![h] = s],
         s # None => s.port = link[h].port /\ s.state = link[h].state,
         UNCHANGED <<call, hwLink>>, SameVlans,
         \A v \in DOMAIN CopyOf(h)' :
           \/ v \in DOMAIN CopyOf(h) /\ CopyOf(h)'[v] = CopyOf(h)[v]
           \/ /\ v \in Vlan /\ vlanDB[v] # None /\ CopyOf(h)'[v] = vlanDB[v]
              /\ link[h].port \in Members(vlanDB[v]),
         \A p \in Port :
           (\A g \in Handler : At(g, "port")' => link'[g].port # p) => operState'[p] = hwLink[p]
  PROVE  LinkInv'
<1>1. /\ link' \in [Handler -> LinkStage \cup {None}]
      /\ link'[h] = s /\ \A g \in Handler \ {h} : link'[g] = link[g]
  BY DEF LinkInv
<1>2. \A g \in Handler \ {h} : CopyOf(g)' = CopyOf(g)
  BY <1>1 DEF CopyOf, At
<1>3. ASSUME NEW g \in Handler, link'[g] # None
      PROVE  /\ call' = None
             /\ link'[g].state = hwLink'[link'[g].port]
             /\ \A v \in DOMAIN CopyOf(g)' :
                  /\ vlanDB'[v] # None
                  /\ CopyOf(g)'[v].admin = vlanDB'[v].admin
                  /\ CopyOf(g)'[v].tagged = vlanDB'[v].tagged
                  /\ CopyOf(g)'[v].untagged = vlanDB'[v].untagged
                  /\ link'[g].port \in Members(vlanDB'[v])
  <2>1. CASE g = h
    <3>1. call' = None /\ link'[g].state = hwLink'[link'[g].port]
      BY <1>1, <1>3, <2>1 DEF LinkInv
    <3>2. ASSUME NEW v \in DOMAIN CopyOf(h)'
          PROVE  /\ vlanDB'[v] # None
                 /\ CopyOf(h)'[v].admin = vlanDB'[v].admin
                 /\ CopyOf(h)'[v].tagged = vlanDB'[v].tagged
                 /\ CopyOf(h)'[v].untagged = vlanDB'[v].untagged
                 /\ link'[h].port \in Members(vlanDB'[v])
      <4>1. CASE v \in DOMAIN CopyOf(h) /\ CopyOf(h)'[v] = CopyOf(h)[v]
        <5>1. v \in Vlan
          BY <4>1, StageType
        <5> QED BY <1>1, <1>3, <2>1, <4>1, <5>1 DEF LinkInv, SameVlans, Members
      <4>2. CASE /\ v \in Vlan /\ vlanDB[v] # None /\ CopyOf(h)'[v] = vlanDB[v]
                 /\ link[h].port \in Members(vlanDB[v])
        BY <1>1, <1>3, <2>1, <4>2 DEF SameVlans, Members
      <4> QED BY <4>1, <4>2
    <3> QED BY <2>1, <3>1, <3>2
  <2>2. CASE g # h
    <3>1. link'[g] = link[g] /\ CopyOf(g)' = CopyOf(g) /\ link[g] # None
      BY <1>1, <1>2, <1>3, <2>2
    <3>2. DOMAIN CopyOf(g) \subseteq Vlan
      BY <3>1, StageType
    <3> QED BY <3>1, <3>2 DEF LinkInv, SameVlans, Members
  <2> QED BY <2>1, <2>2
<1>4. ASSUME NEW f \in Handler, NEW g \in Handler,
             link'[f] # None, link'[g] # None, link'[f].port = link'[g].port
      PROVE  f = g
  BY <1>1, <1>4 DEF LinkInv
<1> QED BY <1>1, <1>3, <1>4 DEF LinkInv

LEMMA LinkEventApart ==
  ASSUME Overlap = FALSE, ApartInv, NEW p \in Port, NEW h \in Handler, LinkEvent(p, h)
  PROVE  ApartInv'
<1> DEFINE state == UpDown(hwLink[p] = "DOWN")
           s == [at |-> "port", port |-> p, state |-> state]
<1>1. VlanType /\ LinkInv /\ CountInv /\ OperInv
  BY DEF ApartInv
<1>2. /\ call = None /\ link[h] = None
      /\ \A g \in Handler : link[g] # None => link[g].port # p
      /\ hwLink' = [hwLink EXCEPT ![p] = state]
      /\ link' = [link EXCEPT ![h] = s]
      /\ UNCHANGED <<conf, vlanDB, pvid, hwVlan, operState, call, ipDB, refCount>>
  BY DEF LinkEvent, vlanVars, l3Vars
<1>3. /\ state \in {"UP", "DOWN"} /\ s \in LinkStage /\ s # None
      /\ s.at = "port" /\ s.port = p /\ s.state = state
      /\ state = "UP" <=> hwLink[p] # "UP"
  BY <1>1, NoneLinkAssumption DEF UpDown, LinkStage, VlanType
<1> HIDE DEF state, s
<1>4. /\ hwLink'[p] = state /\ \A q \in Port \ {p} : hwLink'[q] = hwLink[q]
      /\ link'[h] = s /\ \A g \in Handler \ {h} : link'[g] = link[g]
      /\ link' \in [Handler -> LinkStage \cup {None}]
  BY <1>1, <1>2, <1>3 DEF VlanType, LinkInv
<1>5. VlanType'
  BY <1>1, <1>2, <1>3 DEF VlanType
<1>6. /\ \A g \in Handler \ {h} : CopyOf(g)' = CopyOf(g)
      /\ DOMAIN CopyOf(h)' = {}
  BY <1>3, <1>4 DEF CopyOf, At
<1>7. LinkInv'
  <2>1. ASSUME NEW g \in Handler, link'[g] # None
        PROVE  /\ call' = None
               /\ link'[g].state = hwLink'[link'[g].port]
               /\ \A v \in DOMAIN CopyOf(g)' :
                    /\ vlanDB'[v] # None
                    /\ CopyOf(g)'[v].admin = vlanDB'[v].admin
                    /\ CopyOf(g)'[v].tagged = vlanDB'[v].tagged
                    /\ CopyOf(g)'[v].untagged = vlanDB'[v].untagged
                    /\ link'[g].port \in Members(vlanDB'[v])
    <3>1. CASE g = h
      BY <1>2, <1>3, <1>4, <1>6, <3>1
    <3>2. CASE g # h
      <4>1. link[g] # None /\ link[g].port \in Port \ {p}
        BY <1>1, <1>2, <1>4, <2>1, <3>2, StageType
      <4> QED BY <1>1, <1>2, <1>4, <1>6, <3>2, <4>1 DEF LinkInv
    <3> QED BY <3>1, <3>2
  <2>2. ASSUME NEW f \in Handler, NEW g \in Handler,
               link'[f] # None, link'[g] # None, link'[f].port = link'[g].port
        PROVE  f = g
    BY <1>1, <1>2, <1>3, <1>4, <2>2 DEF LinkInv
  <2>3. ASSUME NEW q \in Port, \A g \in Handler : At(g, "port")' => link'[g].port # q
        PROVE  operState'[q] = hwLink'[q]
    <3>1. q # p
      BY <1>3, <1>4, <2>3 DEF At
    <3>2. \A g \in Handler : At(g, "port") => link[g].port # q
      BY <1>2, <1>4, <2>3 DEF At
    <3> QED BY <1>1, <1>2, <1>4, <3>1, <3>2 DEF LinkInv
  <2> QED BY <1>4, <2>1, <2>2, <2>3 DEF LinkInv
<1>8. CountInv'
  <2>1. Db' = Db
    BY <1>2 DEF Db
  <2>2. \A g \in Handler \ {h} : \A v : Late(g, v)' <=> Late(g, v)
    BY <1>4, <1>6 DEF Late, At
  <2>3. \A v : Late(h, v)' /\ ~Late(h, v)
    BY <1>2, <1>3, <1>4 DEF Late, At, CopyOf
  <2>4. \A g \in Handler : \A v : Late(g, v) => link[g] # None
    BY DEF Late, At, CopyOf
  <2>5. ASSUME NEW v, NEW q \in Port
        PROVE  Seen(q, v)' <=> Seen(q, v)
    <3>1. CASE q = p
      <4>1. Seen(q, v) <=> hwLink[p] = "UP"
        BY <1>2, <2>4, <3>1 DEF Seen
      <4>2. Seen(q, v)' <=> hwLink'[p] # "UP"
        BY <1>3, <1>4, <2>3, <3>1 DEF Seen
      <4> QED BY <1>3, <1>4, <4>1, <4>2
    <3>2. CASE q # p
      <4>1. \A g \in Handler : (Late(g, v)' /\ link'[g].port = q) <=> (Late(g, v) /\ link[g].port = q)
        BY <1>3, <1>4, <2>2, <2>3, <3>2
      <4> QED BY <1>4, <3>2, <4>1 DEF Seen
    <3> QED BY <3>1, <3>2
  <2>6. \A v \in Vlan : Db[v] # None => Members(Db[v]) \subseteq Port
    BY DbType DEF ApartInv, VlanEntry, Members
  <2> QED BY <1>1, <2>1, <2>5, <2>6, CountFrame
<1>9. OperInv'
  <2>1. ASSUME NEW q \in Port, \A g \in Handler : link'[g] # None => link'[g].port # q
        PROVE  hwLink'[q] = hwLink[q] /\ \A g \in Handler : link[g] # None => link[g].port # q
    BY <1>2, <1>3, <1>4, <2>1
  <2> QED BY <1>1, <1>2, <2>1, NoneIpAssumption DEF OperInv
<1>10. SameVlans
  BY <1>2 DEF SameVlans
<1> QED BY <1>2, <1>5, <1>7, <1>8, <1>9, <1>10, HandlerKeeps

LEMMA StorePortStateApart ==
  ASSUME ApartInv, NEW h \in Handler, StorePortState(h)
  PROVE  ApartInv'
<1> DEFINE s == [link[h] EXCEPT !.at = "range"]
<1>1. VlanType /\ LinkInv /\ CountInv /\ OperInv
  BY DEF ApartInv
<1>2. /\ At(h, "port") /\ link[h] # None /\ call = None
      /\ operState' = [operState EXCEPT ![link[h].port] = link[h].state]
      /\ link' = [link EXCEPT ![h] = s]
      /\ UNCHANGED <<conf, vlanDB, pvid, hwVlan, call, ipDB, refCount, hwLink>>
  BY <1>1 DEF StorePortState, vlanVars, l3Vars, At, LinkInv
<1>3. /\ link[h].port \in Port /\ link[h].state \in {"UP", "DOWN"}
      /\ link[h] = [at |-> link[h].at, port |-> link[h].port, state |-> link[h].state]
      /\ link[h].state = hwLink[link[h].port]
  BY <1>1, <1>2, StageType DEF LinkInv
<1>4. s = [at |-> "range", port |-> link[h].port, state |-> link[h].state]
  BY <1>3
<1>5. s \in LinkStage /\ s.at = "range" /\ s.port = link[h].port /\ s.state = link[h].state
  BY <1>3, <1>4 DEF LinkStage
<1> HIDE DEF s
<1>6. s # None /\ link'[h] = s /\ \A g \in Handler \ {h} : link'[g] = link[g]
  BY <1>1, <1>2, <1>5, NoneLinkAssumption DEF LinkInv
<1>7. VlanType'
  BY <1>1, <1>2, <1>3 DEF VlanType
<1>8. SameVlans
  BY <1>2 DEF SameVlans
<1>9. LinkInv'
  <2>1. DOMAIN CopyOf(h)' = {}
    BY <1>5, <1>6 DEF CopyOf, At
  <2>2. ASSUME NEW p \in Port, \A g \in Handler : At(g, "port")' => link'[g].port # p
        PROVE  operState'[p] = hwLink[p]
    <3>1. CASE p = link[h].port
      BY <1>1, <1>2, <1>3, <3>1 DEF VlanType
    <3>2. CASE p # link[h].port
      <4>1. \A g \in Handler : At(g, "port") => link[g].port # p
        BY <1>6, <2>2, <3>2 DEF At
      <4> QED BY <1>1, <1>2, <3>2, <4>1 DEF LinkInv, VlanType
    <3> QED BY <3>1, <3>2
  <2> QED BY <1>1, <1>2, <1>5, <1>8, <2>1, <2>2, LinkMoves
<1>10. CountInv'
  <2>1. Db' = Db
    BY <1>2 DEF Db
  <2>2. \A g \in Handler : \A v : Late(g, v)' <=> Late(g, v)
    <3>1. \A v : Late(h, v)' /\ Late(h, v)
      BY <1>2, <1>5, <1>6 DEF Late, At
    <3>2. \A g \in Handler \ {h} : \A v : Late(g, v)' <=> Late(g, v)
      BY <1>6 DEF Late, At, CopyOf
    <3> QED BY <3>1, <3>2
  <2>3. \A g \in Handler : link'[g].port = link[g].port
    BY <1>5, <1>6
  <2>4. \A p, v : Seen(p, v)' <=> Seen(p, v)
    BY <1>2, <2>2, <2>3 DEF Seen
  <2> QED BY <1>1, <2>1, <2>4, CountFrame
<1>11. OperInv'
  BY <1>1, <1>2, <1>5, <1>6, NoneIpAssumption DEF OperInv
<1> QED BY <1>2, <1>7, <1>8, <1>9, <1>10, <1>11, HandlerKeeps

LEMMA CopyVlansApart ==
  ASSUME ApartInv, NEW h \in Handler, CopyVlans(h)
  PROVE  ApartInv'
<1> DEFINE V == {w \in Vlan : vlanDB[w] # None /\ link[h].port \in Members(vlanDB[w])}
           copy == [v \in V |-> vlanDB[v]]
           s == [at |-> "vlans", port |-> link[h].port, state |-> link[h].state, copy |-> copy]
<1>1. VlanType /\ LinkInv /\ CountInv /\ OperInv
  BY DEF ApartInv
<1>2. /\ At(h, "range") /\ link[h] # None /\ call = None
      /\ link' = [link EXCEPT ![h] = s]
      /\ UNCHANGED <<conf, vlanDB, pvid, hwVlan, operState, call, ipDB, refCount, hwLink>>
  BY <1>1 DEF CopyVlans, vlanVars, l3Vars, At, LinkInv
<1>3. link[h].port \in Port /\ link[h].state \in {"UP", "DOWN"}
  BY <1>1, <1>2, StageType
<1>4. DOMAIN copy = V /\ V \in SUBSET Vlan /\ copy \in [V -> VlanEntry]
  BY <1>1 DEF VlanType
<1>5. /\ s \in LinkStage /\ s.at = "vlans" /\ s.port = link[h].port
      /\ s.state = link[h].state /\ s.copy = copy
  <2>1. copy \in VlanCopy
    BY <1>4 DEF VlanCopy
  <2> HIDE DEF copy
  <2> QED BY <1>3, <2>1 DEF LinkStage
<1>6. \A v \in V : copy[v] = vlanDB[v]
  OBVIOUS
<1> HIDE DEF s, copy
<1>7. s # None /\ link'[h] = s /\ \A g \in Handler \ {h} : link'[g] = link[g]
  BY <1>1, <1>2, <1>5, NoneLinkAssumption DEF LinkInv
<1>8. VlanType'
  BY <1>1, <1>2 DEF VlanType
<1>9. SameVlans
  BY <1>2 DEF SameVlans
<1>10. CopyOf(h)' = copy
  BY <1>5, <1>7 DEF CopyOf, At
<1>11. LinkInv'
  <2>1. \A v \in DOMAIN CopyOf(h)' :
           /\ v \in Vlan /\ vlanDB[v] # None /\ CopyOf(h)'[v] = vlanDB[v]
           /\ link[h].port \in Members(vlanDB[v])
    BY <1>4, <1>6, <1>10
  <2>2. ASSUME NEW p \in Port, \A g \in Handler : At(g, "port")' => link'[g].port # p
        PROVE  operState'[p] = hwLink[p]
    <3>1. \A g \in Handler : At(g, "port") => link[g].port # p
      BY <1>2, <1>7, <2>2 DEF At
    <3> QED BY <1>1, <1>2, <3>1 DEF LinkInv
  <2> QED BY <1>1, <1>2, <1>5, <1>9, <2>1, <2>2, LinkMoves
<1>12. CountInv'
  <2>1. Db' = Db /\ Db = vlanDB
    BY <1>2, CallKinds DEF Db
  <2>2. \A g \in Handler \ {h} : \A v : Late(g, v)' <=> Late(g, v)
    BY <1>7 DEF Late, At, CopyOf
  <2>3. /\ \A v : Late(h, v)
        /\ \A v : Late(h, v)' <=> v \in V
    BY <1>2, <1>4, <1>5, <1>7, <1>10 DEF Late, At
  <2>4. \A g \in Handler : link'[g].port = link[g].port
    BY <1>5, <1>7
  <2>5. ASSUME NEW v \in Vlan, vlanDB[v] # None, NEW p \in Members(vlanDB[v])
        PROVE  Seen(p, v)' <=> Seen(p, v)
    <3>1. link[h].port = p => v \in V
      BY <2>5
    <3>2. \A g \in Handler : (Late(g, v)' /\ link'[g].port = p) <=> (Late(g, v) /\ link[g].port = p)
      BY <2>2, <2>3, <2>4, <3>1
    <3> QED BY <1>2, <3>2 DEF Seen
  <2> QED BY <1>1, <2>1, <2>5, CountFrame
<1>13. OperInv'
  BY <1>1, <1>2, <1>5, <1>7, NoneIpAssumption DEF OperInv
<1> QED BY <1>2, <1>8, <1>9, <1>11, <1>12, <1>13, HandlerKeeps

\* The VLAN whose turn it is counts the port as its link is now.
LEMMA ProcessVlanApart ==
  ASSUME ApartInv, NEW h \in Handler, ProcessVlan(h)
  PROVE  ApartInv'
<1>1. VlanType /\ LinkInv /\ CountInv /\ OperInv
  BY DEF ApartInv
<1>2. /\ At(h, "vlans") /\ link[h] # None /\ call = None
      /\ CopyOf(h) = link[h].copy
      /\ UNCHANGED <<conf, pvid, hwVlan, operState, call, ipDB, refCount, hwLink>>
  BY <1>1 DEF ProcessVlan, l3Vars, At, LinkInv, CopyOf
<1>3. PICK v \in DOMAIN CopyOf(h) : v = NextVlan(h)
  <2>1. DOMAIN CopyOf(h) \in SUBSET Vlan
    BY <1>1, <1>2, StageType
  <2>2. NextVlan(h) # NoVlan
    BY DEF ProcessVlan
  <2> QED BY <1>2, <2>1, <2>2, LeastOfVlans DEF NextVlan
<1>3a. PICK p \in Port : p = link[h].port
  BY <1>1, <1>2, StageType
<1> DEFINE info == CopyOf(h)[v]
           state == link[h].state
           active == ActiveAfter(vlanDB[v].active, state)
           oper == UpDown(info.admin = "UP" /\ active > 0)
           e == [info EXCEPT !.active = active, !.oper = oper]
           copy == [w \in DOMAIN CopyOf(h) \ {v} |-> CopyOf(h)[w]]
           s == [at |-> "notify", port |-> p, state |-> state, copy |-> copy,
                 vlan |-> v, oper |-> oper]
<1>4. /\ vlanDB[v] # None
      /\ vlanDB' = [vlanDB EXCEPT ![v] = e]
      /\ link' = [link EXCEPT ![h] = s]
  BY <1>2, <1>3, <1>3a DEF ProcessVlan
<1>5. /\ p \in Port /\ state \in {"UP", "DOWN"} /\ info \in VlanEntry /\ v \in Vlan
      /\ state = hwLink[p]
      /\ info.admin = vlanDB[v].admin /\ info.tagged = vlanDB[v].tagged
      /\ info.untagged = vlanDB[v].untagged /\ p \in Members(vlanDB[v])
      /\ CopyOf(h) \in VlanCopy /\ DOMAIN CopyOf(h) \subseteq Vlan
      /\ \A w \in DOMAIN CopyOf(h) : CopyOf(h)[w] \in VlanEntry
  BY <1>1, <1>2, <1>3, <1>3a, StageType DEF LinkInv
<1>6. vlanDB[v] \in VlanEntry /\ vlanDB[v].active \in Int
  BY <1>1, <1>4, <1>5 DEF VlanType, VlanEntry
<1>7. /\ active \in Int /\ oper \in {"UP", "DOWN"}
      /\ active = IF hwLink[p] = "UP" THEN vlanDB[v].active + 1 ELSE vlanDB[v].active - 1
  BY <1>5, <1>6 DEF ActiveAfter, UpDown
<1> HIDE DEF active
<1>8. /\ e \in VlanEntry /\ e # None
      /\ e.admin = vlanDB[v].admin /\ e.tagged = vlanDB[v].tagged
      /\ e.untagged = vlanDB[v].untagged /\ e.active = active
      /\ e.oper = UpDown(e.admin = "UP" /\ e.active > 0)
  <2> HIDE DEF info, oper
  <2>1. /\ e \in VlanEntry /\ e.admin = info.admin /\ e.tagged = info.tagged
        /\ e.untagged = info.untagged /\ e.active = active /\ e.oper = oper
    <3>1. info \in VlanEntry /\ active \in Int /\ oper \in {"UP", "DOWN"}
      BY <1>5, <1>7 DEF info, oper
    <3> QED BY <3>1 DEF VlanEntry
  <2> HIDE DEF e
  <2>2. oper = UpDown(info.admin = "UP" /\ active > 0)
    BY DEF oper
  <2> QED BY <1>5, <2>1, <2>2, NoneAssumption
<1>9. /\ s \in LinkStage /\ s.at = "notify" /\ s.port = p /\ s.state = state /\ s.copy = copy
  <2>1. copy \in VlanCopy
    <3>1. copy \in [DOMAIN CopyOf(h) \ {v} -> VlanEntry]
      BY <1>5
    <3>2. DOMAIN CopyOf(h) \ {v} \in SUBSET Vlan
      BY <1>5
    <3> HIDE DEF copy
    <3> QED BY <3>1, <3>2 DEF VlanCopy
  <2> HIDE DEF copy, oper
  <2> QED BY <1>5, <1>7, <2>1 DEF LinkStage
<1>10. DOMAIN copy = DOMAIN CopyOf(h) \ {v} /\ \A w \in DOMAIN copy : copy[w] = CopyOf(h)[w]
  OBVIOUS
<1> HIDE DEF s, copy, e, oper, info
<1>11. /\ s # None /\ link'[h] = s /\ \A g \in Handler \ {h} : link'[g] = link[g]
       /\ vlanDB'[v] = e /\ \A w \in Vlan \ {v} : vlanDB'[w] = vlanDB[w]
  BY <1>1, <1>4, <1>5, <1>9, NoneLinkAssumption DEF LinkInv, VlanType
<1>12. VlanType'
  BY <1>1, <1>2, <1>4, <1>8 DEF VlanType
<1>13. SameVlans
  BY <1>4, <1>8, <1>11 DEF SameVlans
<1>14. CopyOf(h)' = copy
  BY <1>9, <1>11 DEF CopyOf, At
<1>15. LinkInv'
  <2>1. \A w \in DOMAIN CopyOf(h)' : w \in DOMAIN CopyOf(h) /\ CopyOf(h)'[w] = CopyOf(h)[w]
    BY <1>10, <1>14
  <2>2. ASSUME NEW q \in Port, \A g \in Handler : At(g, "port")' => link'[g].port # q
        PROVE  operState'[q] = hwLink[q]
    <3>1. \A g \in Handler : At(g, "port") => link[g].port # q
      BY <1>2, <1>11, <2>2 DEF At
    <3> QED BY <1>1, <1>2, <3>1 DEF LinkInv
  <2> QED BY <1>1, <1>2, <1>4, <1>9, <1>13, <2>1, <2>2, <1>3a, LinkMoves
<1>16. CountInv'
  <2>1. Db = vlanDB /\ Db' = vlanDB'
    BY <1>2, CallKinds DEF Db
  <2>2. \A g \in Handler \ {h} : \A w : Late(g, w)' <=> Late(g, w)
    BY <1>11 DEF Late, At, CopyOf
  <2>3. /\ Late(h, v) /\ ~Late(h, v)'
        /\ \A w : w # v => (Late(h, w)' <=> Late(h, w))
    <3>1. /\ \A w : Late(h, w)' <=> w \in DOMAIN copy
          /\ \A w : Late(h, w) <=> w \in DOMAIN CopyOf(h)
      BY <1>2, <1>9, <1>11, <1>14 DEF Late, At
    <3> QED BY <1>10, <3>1
  <2>4. \A g \in Handler : link'[g].port = link[g].port
    BY <1>3a, <1>9, <1>11
  <2>5. \A g \in Handler \ {h} : \A w : Late(g, w) => link[g].port # p
    BY <1>1, <1>2, <1>3a DEF Late, At, CopyOf, LinkInv
  <2>6. \A q, w : (w # v \/ q # p) => (Seen(q, w)' <=> Seen(q, w))
    <3> SUFFICES ASSUME NEW q, NEW w, w # v \/ q # p
                 PROVE  Seen(q, w)' <=> Seen(q, w)
      OBVIOUS
    <3>1. \A g \in Handler : (Late(g, w)' /\ link'[g].port = q) <=> (Late(g, w) /\ link[g].port = q)
      BY <1>3a, <2>2, <2>3, <2>4
    <3> QED BY <1>2, <3>1 DEF Seen
  <2>7. /\ Seen(p, v) <=> hwLink[p] # "UP"
        /\ Seen(p, v)' <=> hwLink[p] = "UP"
    BY <1>2, <1>3a, <2>2, <2>3, <2>4, <2>5 DEF Seen
  <2> DEFINE S == {q \in Members(vlanDB[v]) : Seen(q, v)}
             T == {q \in Members(vlanDB'[v]) : Seen(q, v)'}
  <2>8. Members(vlanDB'[v]) = Members(vlanDB[v])
    BY <1>8, <1>11 DEF Members
  <2>9. IsFiniteSet(S) /\ Cardinality(S) = vlanDB[v].active
    <3>1. S \in SUBSET Port
      BY <1>6 DEF Members, VlanEntry
    <3> QED BY <1>1, <1>4, <1>5, <2>1, <3>1, PortAssumption, FS_Subset DEF CountInv
  <2>10. Cardinality(T) = active
    <3>1. CASE hwLink[p] = "UP"
      <4>1. T = S \cup {p} /\ p \notin S
        BY <1>5, <2>6, <2>7, <2>8, <3>1
      <4>2. Cardinality(S \cup {p}) = Cardinality(S) + 1
        <5> HIDE DEF S
        <5> QED BY <2>9, <4>1, FS_AddElement
      <4> QED BY <1>7, <2>9, <3>1, <4>1, <4>2
    <3>2. CASE hwLink[p] # "UP"
      <4>1. T = S \ {p} /\ p \in S
        BY <1>5, <2>6, <2>7, <2>8, <3>2
      <4>2. Cardinality(S \ {p}) = Cardinality(S) - 1
        <5> HIDE DEF S
        <5> QED BY <2>9, <4>1, FS_RemoveElement
      <4> QED BY <1>7, <2>9, <3>2, <4>1, <4>2
    <3> QED BY <3>1, <3>2
  <2> SUFFICES ASSUME NEW w \in Vlan, Db'[w] # None
               PROVE  /\ Db'[w].active = Cardinality({q \in Members(Db'[w]) : Seen(q, w)'})
                      /\ Db'[w].oper = UpDown(Db'[w].admin = "UP" /\ Db'[w].active > 0)
    BY DEF CountInv, Members, UpDown
  <2>11. CASE w = v
    BY <1>8, <1>11, <2>1, <2>10, <2>11
  <2>12. CASE w # v
    <3>1. {q \in Members(Db'[w]) : Seen(q, w)'} = {q \in Members(Db[w]) : Seen(q, w)}
      BY <1>11, <2>1, <2>6, <2>12
    <3> QED BY <1>1, <1>11, <2>1, <2>12, <3>1 DEF CountInv
  <2> QED BY <2>11, <2>12
<1>17. OperInv'
  BY <1>1, <1>2, <1>3a, <1>9, <1>11, NoneIpAssumption DEF OperInv
<1> QED BY <1>2, <1>12, <1>13, <1>15, <1>16, <1>17, HandlerKeeps
\* The addresses on the VLAN itself follow it: those on ports are not told.
LEMMA NotifyVlanApart ==
  ASSUME ApartInv, NEW h \in Handler, NotifyVlan(h)
  PROVE  ApartInv'
<1> DEFINE s == [at |-> "vlans", port |-> link[h].port, state |-> link[h].state,
                 copy |-> link[h].copy]
<1>1. VlanType /\ LinkInv /\ CountInv /\ OperInv
  BY DEF ApartInv
<1>2. /\ At(h, "notify") /\ link[h] # None /\ call = None
      /\ CopyOf(h) = link[h].copy
      /\ ipDB' = AfterL2StateChange(link[h].vlan, link[h].oper)
      /\ link' = [link EXCEPT ![h] = s]
      /\ UNCHANGED <<conf, vlanDB, pvid, hwVlan, operState, call, refCount, hwLink>>
  BY <1>1 DEF NotifyVlan, vlanVars, At, LinkInv, CopyOf
<1>3. /\ link[h].port \in Port /\ link[h].state \in {"UP", "DOWN"} /\ link[h].vlan \in Vlan
      /\ link[h].copy \in VlanCopy
  BY <1>1, <1>2, StageType
<1>4. /\ s \in LinkStage /\ s.at = "vlans" /\ s.port = link[h].port
      /\ s.state = link[h].state /\ s.copy = link[h].copy
  BY <1>3 DEF LinkStage
<1> HIDE DEF s
<1>5. s # None /\ link'[h] = s /\ \A g \in Handler \ {h} : link'[g] = link[g]
  BY <1>1, <1>2, <1>4, NoneLinkAssumption DEF LinkInv
<1>6. /\ ipDB' \in [Family \X Intf -> IpInfo \cup {None}]
      /\ \A a \in Family \X Intf : ipDB'[a] = None <=> ipDB[a] = None
      /\ \A f \in Family, p \in Port : ipDB'[<<f, p>>] = ipDB[<<f, p>>]
  <2>1. \A f \in Family, p \in Port : /\ <<f, p>> \in Family \X Intf
                                      /\ <<f, p>>[2] # link[h].vlan
    BY <1>3, VlanSets DEF Intf
  <2> QED BY <1>1, <1>2, <2>1, L2ChangeEffect
<1>7. VlanType'
  BY <1>1, <1>2, <1>6 DEF VlanType
<1>8. SameVlans
  BY <1>2 DEF SameVlans
<1>9. /\ CopyOf(h)' = CopyOf(h)
      /\ \A g \in Handler \ {h} : CopyOf(g)' = CopyOf(g)
  BY <1>2, <1>4, <1>5 DEF CopyOf, At
<1>10. LinkInv'
  <2>1. ASSUME NEW p \in Port, \A g \in Handler : At(g, "port")' => link'[g].port # p
        PROVE  operState'[p] = hwLink[p]
    <3>1. \A g \in Handler : At(g, "port") => link[g].port # p
      BY <1>2, <1>5, <2>1 DEF At
    <3> QED BY <1>1, <1>2, <3>1 DEF LinkInv
  <2> QED BY <1>1, <1>2, <1>4, <1>8, <1>9, <2>1, LinkMoves
<1>11. CountInv'
  <2>1. Db' = Db
    BY <1>2 DEF Db
  <2>2. \A g \in Handler : \A v : Late(g, v)' <=> Late(g, v)
    BY <1>2, <1>4, <1>5, <1>9 DEF Late, At
  <2>3. \A g \in Handler : link'[g].port = link[g].port
    BY <1>4, <1>5
  <2>4. \A p, v : Seen(p, v)' <=> Seen(p, v)
    BY <1>2, <2>2, <2>3 DEF Seen
  <2> QED BY <1>1, <2>1, <2>4, CountFrame
<1>12. OperInv'
  BY <1>1, <1>2, <1>4, <1>5, <1>6, NoneIpAssumption DEF OperInv
<1> QED BY <1>2, <1>6, <1>7, <1>8, <1>10, <1>11, <1>12, HandlerKeeps

\* The last step: the addresses on the port have the state of its link.
LEMMA NotifyPortApart ==
  ASSUME ApartInv, NEW h \in Handler, NotifyPort(h)
  PROVE  ApartInv'
<1>1. VlanType /\ LinkInv /\ CountInv /\ OperInv
  BY DEF ApartInv
<1>2. /\ At(h, "vlans") /\ link[h] # None /\ call = None
      /\ CopyOf(h) = link[h].copy
      /\ ipDB' = AfterL2StateChange(link[h].port, link[h].state)
      /\ link' = [link EXCEPT ![h] = None]
      /\ UNCHANGED <<conf, vlanDB, pvid, hwVlan, operState, call, refCount, hwLink>>
  BY <1>1 DEF NotifyPort, vlanVars, At, LinkInv, CopyOf
<1>3. PICK p \in Port : p = link[h].port
  BY <1>1, <1>2, StageType
<1>4. hwLink[p] \in {"UP", "DOWN"} /\ link[h].state = hwLink[p]
  BY <1>1, <1>2, <1>3 DEF LinkInv, VlanType
<1>5. DOMAIN CopyOf(h) = {}
  <2>1. DOMAIN CopyOf(h) \in SUBSET Vlan
    BY <1>1, <1>2, StageType
  <2>2. Least(DOMAIN CopyOf(h)) = NoVlan
    BY <1>2 DEF NotifyPort, NextVlan
  <2> QED BY <2>1, <2>2, LeastOfVlans
<1>6. link'[h] = None /\ \A g \in Handler \ {h} : link'[g] = link[g]
  BY <1>1, <1>2 DEF LinkInv
<1>7. /\ ipDB' \in [Family \X Intf -> IpInfo \cup {None}]
      /\ \A a \in Family \X Intf : ipDB'[a] = None <=> ipDB[a] = None
      /\ \A f \in Family, q \in Port \ {p} : ipDB'[<<f, q>>] = ipDB[<<f, q>>]
      /\ \A f \in Family : ipDB[<<f, p>>] # None =>
           ipDB'[<<f, p>>].oper = UpDown(ipDB'[<<f, p>>].admin = "UP" /\ hwLink[p] = "UP")
  <2>1. \A f \in Family, q \in Port : <<f, q>> \in Family \X Intf /\ <<f, q>>[2] = q
    BY DEF Intf
  <2>2. ipDB' = AfterL2StateChange(p, hwLink[p])
    BY <1>2, <1>3, <1>4
  <2>3. /\ ipDB' \in [Family \X Intf -> IpInfo \cup {None}]
        /\ \A a \in Family \X Intf :
             /\ ipDB'[a] = None <=> ipDB[a] = None
             /\ a[2] # p => ipDB'[a] = ipDB[a]
             /\ (a[2] = p /\ ipDB[a] # None) =>
                  /\ ipDB'[a].admin = ipDB[a].admin
                  /\ ipDB'[a].oper = UpDown(ipDB[a].admin = "UP" /\ hwLink[p] = "UP")
    BY <1>1, <2>2, L2ChangeEffect
  <2>4. \A f \in Family, q \in Port \ {p} : ipDB'[<<f, q>>] = ipDB[<<f, q>>]
    BY <2>1, <2>3
  <2>5. ASSUME NEW f \in Family, ipDB[<<f, p>>] # None
        PROVE  ipDB'[<<f, p>>].oper = UpDown(ipDB'[<<f, p>>].admin = "UP" /\ hwLink[p] = "UP")
    BY <2>1, <2>3, <2>5
  <2> QED BY <2>3, <2>4, <2>5
<1>8. VlanType'
  BY <1>1, <1>2, <1>7 DEF VlanType
<1>9. SameVlans
  BY <1>2 DEF SameVlans
<1>10. /\ DOMAIN CopyOf(h)' = {}
       /\ \A g \in Handler \ {h} : CopyOf(g)' = CopyOf(g)
  BY <1>6 DEF CopyOf, At
<1>11. LinkInv'
  <2>1. ASSUME NEW q \in Port, \A g \in Handler : At(g, "port")' => link'[g].port # q
        PROVE  operState'[q] = hwLink[q]
    <3>1. \A g \in Handler : At(g, "port") => link[g].port # q
      BY <1>2, <1>6, <2>1 DEF At
    <3> QED BY <1>1, <1>2, <3>1 DEF LinkInv
  <2> QED BY <1>1, <1>2, <1>9, <1>10, <2>1, LinkMoves
<1>12. CountInv'
  <2>1. Db' = Db
    BY <1>2 DEF Db
  <2>2. \A g \in Handler \ {h} : \A v : Late(g, v)' <=> Late(g, v)
    BY <1>6, <1>10 DEF Late, At
  <2>3. \A v : ~Late(h, v) /\ ~Late(h, v)'
    BY <1>2, <1>5, <1>6, <1>10 DEF Late, At
  <2>4. \A q, v : Seen(q, v)' <=> Seen(q, v)
    <3> SUFFICES ASSUME NEW q, NEW v
                 PROVE  Seen(q, v)' <=> Seen(q, v)
      OBVIOUS
    <3>1. \A g \in Handler : (Late(g, v)' /\ link'[g].port = q) <=> (Late(g, v) /\ link[g].port = q)
      BY <1>6, <2>2, <2>3
    <3> QED BY <1>2, <3>1 DEF Seen
  <2> QED BY <1>1, <2>1, <2>4, CountFrame
<1>13. OperInv'
  <2>1. ASSUME NEW f \in Family, NEW q \in Port, ipDB'[<<f, q>>] # None,
               \A g \in Handler : link'[g] # None => link'[g].port # q
        PROVE  /\ ipDB'[<<f, q>>].oper = "UP" => hwLink[q] = "UP"
               /\ (ipDB'[<<f, q>>].admin = "UP" /\ hwLink[q] = "UP") => ipDB'[<<f, q>>].oper = "UP"
    <3>1. CASE q = p
      <4>1. ipDB[<<f, p>>] # None
        BY <1>7, <2>1, <3>1 DEF Intf
      <4> QED BY <1>7, <3>1, <4>1 DEF UpDown
    <3>2. CASE q # p
      <4>1. ipDB'[<<f, q>>] = ipDB[<<f, q>>]
        BY <1>7, <3>2
      <4>2. \A g \in Handler : link[g] # None => link[g].port # q
        BY <1>3, <1>6, <2>1, <3>2
      <4> QED BY <1>1, <2>1, <4>1, <4>2 DEF OperInv
    <3> QED BY <3>1, <3>2
  <2> QED BY <1>2, <2>1, NoneIpAssumption DEF OperInv
<1> QED BY <1>2, <1>7, <1>8, <1>9, <1>11, <1>12, <1>13, HandlerKeeps
-----------------------------------------------------------------------------
\* A step that touches nothing the invariant speaks of.
LEMMA ApartFrame ==
  ASSUME ApartInv,
         UNCHANGED <<conf, vlanDB, pvid, hwVlan, operState, call, ipDB, refCount, hwLink, link>>
  PROVE  ApartInv'
<1>1. Db' = Db /\ Coming' = Coming /\ Counted' = Counted
  BY DEF Db, Coming, Counted
<1>2. \A p : Holds(p)' = Holds(p) /\ Awaits(p)' = Awaits(p)
  BY <1>1 DEF Holds, Awaits
<1>3. \A v, p : Serves(v, p)' <=> Serves(v, p)
  BY <1>1 DEF Serves
<1>4. \A h : CopyOf(h)' = CopyOf(h) /\ \A step : At(h, step)' <=> At(h, step)
  BY DEF CopyOf, At
<1>5. \A h, v : Late(h, v)' <=> Late(h, v)
  BY <1>4 DEF Late
<1>6. \A p, v : Seen(p, v)' <=> Seen(p, v)
  BY <1>5 DEF Seen
<1>7. VlanType'
  BY DEF ApartInv, VlanType
<1>8. CallInv'
  BY <1>1, <1>3 DEF ApartInv, CallInv, ComingInv
<1>9. ServeInv'
  <2>1. \A p \in Port : /\ Holds(p)' = Holds(p)
                        /\ Awaits(p) \subseteq Holds(p)' \cup Awaits(p)'
    BY <1>2
  <2> QED BY <1>1, <2>1, ServeFrame DEF ApartInv
<1>10. PvidInv'
  BY <1>1 DEF ApartInv, PvidInv, UntaggedIn
<1>11. LinkInv'
  BY <1>4 DEF ApartInv, LinkInv, Members
<1>12. CountInv'
  BY <1>1, <1>6, CountFrame DEF ApartInv
<1>13. OperInv'
  BY DEF ApartInv, OperInv
<1> QED BY <1>7, <1>8, <1>9, <1>10, <1>11, <1>12, <1>13 DEF ApartInv

LEMMA InitApart == Init => ApartInv
<1> SUFFICES ASSUME Init PROVE ApartInv
  OBVIOUS
<1>1. /\ conf = [v \in ClientVlan |-> None] /\ vlanDB = [v \in Vlan |-> None]
      /\ pvid = [p \in Port |-> DefaultVlan] /\ operState = [p \in Port |-> "DOWN"]
      /\ hwVlan = [v \in Vlan |-> None] /\ call = None
      /\ ipDB = [a \in Family \X Intf |-> None]
      /\ refCount = [v \in Vlan \cup {NoVlan} |-> 0]
      /\ hwLink = [p \in Port |-> "DOWN"] /\ link = [h \in Handler |-> None]
  BY DEF Init, VlanInit, L3Init
<1>2. Db = vlanDB /\ Coming = {} /\ Counted = {}
  BY <1>1, CallKinds DEF Db, Coming, Counted
<1>3. \A v \in Vlan : Db[v] = None
  BY <1>1, <1>2
<1>4. \A v, p : ~Serves(v, p)
  BY <1>3, VlanSets DEF Serves
<1>5. \A p \in Port : Holds(p) = {}
  BY <1>1, <1>2 DEF Holds, Intf
<1>6. call \notin IpVlan \cup IpAdd \cup IpStore
  BY <1>1, NoneIpAssumption
<1>7. VlanType
  BY <1>1 DEF VlanType
<1>8. CallInv
  BY <1>1, <1>2, <1>6 DEF CallInv, ComingInv
<1>9. ServeInv
  BY <1>1, <1>3, <1>4, <1>5, VlanSets DEF ServeInv
<1>10. PvidInv
  BY <1>1, VlanSets DEF PvidInv
<1>11. LinkInv
  BY <1>1 DEF LinkInv
<1>12. CountInv
  BY <1>3 DEF CountInv
<1>13. OperInv
  BY <1>1, <1>6 DEF OperInv, Intf
<1> QED BY <1>7, <1>8, <1>9, <1>10, <1>11, <1>12, <1>13 DEF ApartInv

LEMMA CallsApart ==
  ASSUME Overlap = FALSE, ApartInv, HwInv, Calls, UNCHANGED <<hwLink, link>>
  PROVE  ApartInv'
<1>1. NoHandler
  BY CallsMeetNoHandler DEF ApartInv
<1>2. ASSUME NEW v \in ClientVlan, NEW o \in Offered(v),
             CreateVlan(v, o) \/ UpdateVlan(v, o) \/ UpdateVlanPanics(v, o), UNCHANGED l3Vars
      PROVE  ApartInv'
  <2>1. o \in Object
    BY DEF Offered
  <2>2. CASE CreateVlan(v, o) \/ UpdateVlan(v, o)
    BY <1>1, <1>2, <2>1, <2>2, StartVlanApart
  <2>3. CASE UpdateVlanPanics(v, o)
    BY <1>2, <2>3, ApartFrame DEF UpdateVlanPanics, vlanVars, l3Vars
  <2> QED BY <1>2, <2>2, <2>3
<1>3. ASSUME NEW v \in ClientVlan, DeleteVlan(v), UNCHANGED l3Vars
      PROVE  ApartInv'
  BY <1>1, <1>3, DeleteVlanApart
<1>4. ASSUME NEW f \in Family, NEW i \in Intf, NEW admin \in {"UP", "DOWN"},
             CreateIPIntf(f, i, admin) \/ UpdateIPIntf(f, i, admin)
      PROVE  ApartInv'
  BY <1>1, <1>4, CreateIPIntfApart, UpdateIPIntfApart
<1>5. ASSUME NEW f \in Family, NEW i \in Intf, DeleteIPIntf(f, i)
      PROVE  ApartInv'
  BY <1>1, <1>5, DeleteIPIntfApart
<1> QED BY <1>2, <1>3, <1>4, <1>5 DEF Calls

LEMMA ReturnsApart ==
  ASSUME Overlap = FALSE, ApartInv, Returns, UNCHANGED <<hwLink, link>>
  PROVE  ApartInv'
<1>1. call # None
  BY DEF Returns, StoreVlan, NotifyL3, AddIp, StoreIp
<1>2. NoHandler
  BY <1>1, CallsMeetNoHandler DEF ApartInv
<1> QED BY <1>2, StoreVlanApart, NotifyL3Apart, AddIpApart, StoreIpApart DEF Returns

LEMMA LinksApart ==
  ASSUME Overlap = FALSE, ApartInv, Links
  PROVE  ApartInv'
<1> SUFFICES ASSUME NEW h \in Handler,
                    \/ \E p \in Port : LinkEvent(p, h)
                    \/ StorePortState(h) \/ CopyVlans(h) \/ ProcessVlan(h)
                    \/ ProcessVlanPanics(h) \/ NotifyVlan(h) \/ NotifyPort(h)
             PROVE  ApartInv'
  BY DEF Links
<1>1. ASSUME ProcessVlanPanics(h)
      PROVE  ApartInv'
  BY <1>1, ApartFrame DEF ProcessVlanPanics, vlanVars, l3Vars
<1> QED BY <1>1, LinkEventApart, StorePortStateApart, CopyVlansApart, ProcessVlanApart,
           NotifyVlanApart, NotifyPortApart

LEMMA NextApart ==
  ASSUME Overlap = FALSE, HwInv, ApartInv, [Next]_vars
  PROVE  ApartInv'
<1>1. CASE UNCHANGED vars
  BY <1>1, ApartFrame DEF vars, vlanVars, l3Vars
<1>2. CASE Next
  BY <1>2, CallsApart, ReturnsApart, LinksApart DEF Next
<1> QED BY <1>1, <1>2
\* The two invariants together are inductive.
LEMMA ApartInductive ==
  ASSUME Overlap = FALSE
  PROVE  Spec => [](HwInv /\ ApartInv)
<1>1. Init => HwInv /\ ApartInv
  BY InitHw, InitApart
<1>2. (HwInv /\ ApartInv) /\ [Next]_vars => (HwInv /\ ApartInv)'
  BY NextHw, NextApart
<1> QED BY <1>1, <1>2, PTL DEF Spec

\* PvidJustified: while calls and link handlers keep apart, between calls the PVID of
\* a port is the default or a VLAN the port is untagged in, so that leaving every VLAN
\* frees it for the next.
THEOREM PvidsAreJustified ==
  ASSUME Overlap = FALSE
  PROVE  Spec => []PvidJustified
<1>1. HwInv /\ ApartInv => PvidJustified
  <2> SUFFICES ASSUME ApartInv, call = None, NEW p \in Port, pvid[p] # DefaultVlan
               PROVE  p \in UntaggedIn(IF pvid[p] \in ClientVlan THEN conf[pvid[p]]
                                       ELSE vlanDB[pvid[p]])
    BY DEF PvidJustified
  <2>1. pvid[p] \in Vlan
    BY DEF ApartInv, VlanType
  <2>2. pvid[p] \in ClientVlan \/ pvid[p] \in SysRsvdVlan
    BY <2>1 DEF Vlan
  <2>3. Db = vlanDB
    BY CallKinds DEF Db
  <2> QED BY <2>2, <2>3, VlanSets DEF ApartInv, PvidInv
<1> QED BY <1>1, ApartInductive, PTL

\* SysVlansServePorts: while calls and link handlers keep apart, between calls a port
\* has a reserved VLAN exactly while it has an address, one, of which it is the only
\* member in the table and in the ASIC, and l3IntfRefCount counts the addresses.
THEOREM ReservedVlansServePorts ==
  ASSUME Overlap = FALSE
  PROVE  Spec => []SysVlansServePorts
<1>1. HwInv /\ ApartInv => SysVlansServePorts
  <2> SUFFICES ASSUME ApartInv, call = None, NEW p \in Port
               PROVE  /\ Cardinality(SysVlans(p)) = IF Addresses(p) = {} THEN 0 ELSE 1
                      /\ \A v \in SysVlans(p) :
                           /\ Members(vlanDB[v]) = {p}
                           /\ hwVlan[v] = InHw(PortObject(p))
                           /\ refCount[v] = Cardinality(Addresses(p))
    BY DEF SysVlansServePorts
  <2>1. Db = vlanDB /\ Coming = {} /\ Counted = {}
    BY CallKinds DEF Db, Coming, Counted
  <2>2. Holds(p) = Addresses(p) /\ Awaits(p) = {}
    <3>1. DOMAIN ipDB = Family \X Intf
      BY DEF ApartInv, VlanType
    <3> QED BY <2>1, <3>1 DEF Holds, Awaits, Addresses, Intf
  <2>3. ASSUME NEW v \in SysRsvdVlan, vlanDB[v] # None
        PROVE  p \in Members(vlanDB[v]) <=> Serves(v, p)
    <3>1. PICK q \in Port : Serves(v, q)
      BY <2>1, <2>3 DEF ApartInv, ServeInv
    <3>2. vlanDB[v].tagged = {} /\ vlanDB[v].untagged = {q}
      BY <2>1, <3>1 DEF ApartInv, ServeInv
    <3> QED BY <2>1, <2>3, <3>2 DEF Members, Serves
  <2>4. SysVlans(p) = {v \in SysRsvdVlan : Serves(v, p)}
    BY <2>1, <2>3 DEF SysVlans, Serves
  <2>5. ASSUME NEW v \in SysVlans(p)
        PROVE  /\ Members(vlanDB[v]) = {p} /\ hwVlan[v] = InHw(PortObject(p))
               /\ refCount[v] = Cardinality(Addresses(p)) /\ Addresses(p) # {}
               /\ SysVlans(p) = {v}
    <3>1. v \in SysRsvdVlan /\ Serves(v, p)
      BY <2>4
    <3>2. /\ vlanDB[v].tagged = {} /\ vlanDB[v].untagged = {p}
          /\ hwVlan[v] = [tagged |-> {}, untagged |-> {p}]
          /\ refCount[v] = Cardinality(Addresses(p)) /\ Addresses(p) # {}
      BY <2>1, <2>2, <3>1 DEF ApartInv, ServeInv
    <3>3. InHw(PortObject(p)) = [tagged |-> {}, untagged |-> {p}]
      BY DEF InHw, PortObject
    <3>4. \A w \in SysVlans(p) : w = v
      BY <2>4, <3>1 DEF ApartInv, ServeInv
    <3> QED BY <3>2, <3>3, <3>4 DEF Members
  <2>6. CASE SysVlans(p) = {}
    <3>1. Addresses(p) = {}
      BY <2>2, <2>4, <2>6 DEF ApartInv, ServeInv
    <3> QED BY <2>6, <3>1, FS_EmptySet
  <2>7. CASE SysVlans(p) # {}
    <3>1. PICK v \in SysVlans(p) : TRUE
      BY <2>7
    <3>2. Cardinality(SysVlans(p)) = 1
      BY <2>5, <3>1, FS_Singleton
    <3> QED BY <2>5, <3>1, <3>2
  <2> QED BY <2>6, <2>7
<1> QED BY <1>1, ApartInductive, PTL

\* ActiveCountsExact: while calls and link handlers keep apart, with nothing in
\* progress a VLAN counts its members whose link is up, and is up exactly while it is
\* enabled and counts one, however the handlers of several links interleaved.
THEOREM ActiveCountsAreExact ==
  ASSUME Overlap = FALSE
  PROVE  Spec => []ActiveCountsExact
<1>1. HwInv /\ ApartInv => ActiveCountsExact
  <2> SUFFICES ASSUME ApartInv, call = None, NoHandler, NEW v \in Vlan, vlanDB[v] # None
               PROVE  /\ vlanDB[v].active
                           = Cardinality({p \in Members(vlanDB[v]) : hwLink[p] = "UP"})
                      /\ vlanDB[v].oper
                           = UpDown(vlanDB[v].admin = "UP" /\ vlanDB[v].active > 0)
    BY DEF ActiveCountsExact, Quiet
  <2>1. Db = vlanDB
    BY CallKinds DEF Db
  <2>2. \A p : Seen(p, v) <=> hwLink[p] = "UP"
    BY NoHandlerState DEF ApartInv
  <2>3. {p \in Members(vlanDB[v]) : Seen(p, v)} = {p \in Members(vlanDB[v]) : hwLink[p] = "UP"}
    BY <2>2
  <2> QED BY <2>1, <2>3 DEF ApartInv, CountInv
<1> QED BY <1>1, ApartInductive, PTL

\* IpOperSound: while calls and link handlers keep apart, with nothing in progress an
\* address on a port is up only while the link is, and is up if it is enabled as well.
THEOREM PortAddressesFollowLinks ==
  ASSUME Overlap = FALSE
  PROVE  Spec => []IpOperSound
<1>1. HwInv /\ ApartInv => IpOperSound
  <2> SUFFICES ASSUME ApartInv, call = None, NoHandler,
                      NEW a \in DOMAIN ipDB, a[2] \in Port, ipDB[a] # None
               PROVE  /\ ipDB[a].oper = "UP" => hwLink[a[2]] = "UP"
                      /\ (ipDB[a].admin = "UP" /\ hwLink[a[2]] = "UP") => ipDB[a].oper = "UP"
    BY DEF IpOperSound, Quiet
  <2>1. DOMAIN ipDB = Family \X Intf
    BY DEF ApartInv, VlanType
  <2>2. PICK f \in Family, i \in Intf : a = <<f, i>>
    BY <2>1
  <2>3. a[2] = i /\ i \in Port
    BY <2>2
  <2> QED BY <2>2, <2>3 DEF ApartInv, OperInv, NoHandler
<1> QED BY <1>1, ApartInductive, PTL
=============================================================================
