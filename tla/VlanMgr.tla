------------------------------ MODULE VlanMgr ------------------------------
(***************************************************************************)
(* The VLAN manager (src/pluginManager/vlanMgr.go) with the state of the   *)
(* port manager it works on (configuration mode, PVID, operational state,  *)
(* portMgr.go) and the VLANs of the ASIC (sai/saiIntf.go, sai/saiVlan.c).  *)
(*                                                                         *)
(* One configuration client calls it, one call at a time; link handlers    *)
(* run beside it.  A call is cut where they can come between: CreateVlan   *)
(* and UpdateVlan count the active members before they take the lock to    *)
(* store the entry, and UpdateVlan tells the IP interfaces afterwards.     *)
(*                                                                         *)
(* Abstractions.  Members are ports, not LAGs.  The ASIC accepts what the  *)
(* checks let through, refuses a VLAN it has, and removes a VLAN with its  *)
(* members.  The PVID the ASIC keeps, names, events and notifications are  *)
(* left out, and so is the mode "Internal", which nothing sets.            *)
(***************************************************************************)
EXTENDS Integers, FiniteSets

CONSTANTS
  Port,          \* interface indices of physical ports
  ClientVlan,    \* VLAN ids the client configures
  SysRsvdVlan,   \* sysRsvdVlanMin .. sysRsvdVlanMax
  None

DefaultVlan == 1   \* pluginCommon.DEFAULT_VLAN_ID
NoVlan == -1       \* what the searches for a reserved VLAN return when there is none

\* The two are apart.  CreateVlan refuses only what lies strictly between the
\* bounds of the reserved range (vlanMgr.go:322): a client that names one of the
\* two bounds itself is not modelled.
ASSUME VlanAssumption ==
  /\ ClientVlan \subseteq Nat \ {0, DefaultVlan}
  /\ SysRsvdVlan \subseteq Nat \ {0, DefaultVlan}
  /\ ClientVlan \cap SysRsvdVlan = {}
ASSUME PortAssumption ==
  /\ IsFiniteSet(Port)
  /\ Port \cap (ClientVlan \cup SysRsvdVlan) = {}

Vlan == ClientVlan \cup SysRsvdVlan

VARIABLES
  conf,         \* the VLAN objects the client has configured: what it passes as "old"
  vlanDB,       \* vlanDB: admin and oper state, active count, members
  portMode,     \* portStateDB[..].ConfigMode
  pvid,         \* portStateDB[..].Pvid
  operState,    \* portStateDB[..].OperState
  hwVlan,       \* the VLANs of the ASIC and their members
  call,         \* the rest of the configuration call in progress
  panicked      \* the process died of a run-time error

vlanVars == <<conf, vlanDB, portMode, pvid, hwVlan>>

Object == [admin : {"UP", "DOWN"}, tagged : SUBSET Port, untagged : SUBSET Port]
HwObject == [tagged : SUBSET Port, untagged : SUBSET Port]
NoMembers == [tagged |-> {}, untagged |-> {}]

\* An entry of the table, and the rest of a call of the client.
VlanEntry == [admin : {"UP", "DOWN"}, oper : {"UP", "DOWN"}, active : Int,
              tagged : SUBSET Port, untagged : SUBSET Port]
VlanCall == [at : {"storeVlan", "notify"}, vlan : ClientVlan, info : VlanEntry,
             next : {"return", "notify"}]

ASSUME NoneAssumption == None \notin Object \cup VlanEntry \cup VlanCall

UpDown(up) == IF up THEN "UP" ELSE "DOWN"
Members(o) == o.tagged \cup o.untagged

VlanInit ==
  /\ conf = [v \in ClientVlan |-> None]
  /\ vlanDB = [v \in Vlan |-> None]
  /\ portMode = [p \in Port |-> "Unconfigured"]
  /\ pvid = [p \in Port |-> DefaultVlan]
  /\ operState = [p \in Port |-> "DOWN"]
  /\ hwVlan = [v \in Vlan |-> None]
  /\ call = None
  /\ panicked = FALSE

-----------------------------------------------------------------------------
(***************************************************************************)
(* ValidateVlanConfig and the check that the member lists are disjoint.    *)
(***************************************************************************)
AcceptUntagged(v, ports) == \A p \in ports : pvid[p] \in {DefaultVlan, v}

ValidVlanConfig(v, o) ==
  /\ o.tagged \cap o.untagged = {}
  /\ AcceptUntagged(v, o.untagged)
  /\ \A p \in Members(o) : portMode[p] # "L3"

SetPvid(f, v, ports) == [p \in Port |-> IF p \in ports THEN v ELSE f[p]]

\* The mode of a port is left alone by the VLANs of the reserved range.
SetPortMode(f, v, mode, ports) ==
  [p \in Port |-> IF v \notin SysRsvdVlan /\ p \in ports THEN mode ELSE f[p]]

GetActiveIntfCount(ports) == Cardinality({p \in ports : operState[p] = "UP"})

\* The entry that is going to be stored.
VlanInfo(o) ==
  LET active == GetActiveIntfCount(Members(o))
  IN [admin |-> o.admin, oper |-> UpDown(active > 0 /\ o.admin = "UP"),
      active |-> active, tagged |-> o.tagged, untagged |-> o.untagged]

\* What the plugin is given: no members while the admin state is down.
InHw(o) ==
  IF o.admin = "UP" THEN [tagged |-> o.tagged, untagged |-> o.untagged] ELSE NoMembers

-----------------------------------------------------------------------------
(***************************************************************************)
(* CreateVlan up to the store, for the client and for the IP interface     *)
(* manager, which asks for a reserved VLAN.                                *)
(***************************************************************************)
InstallVlan(v, o) ==
  /\ ValidVlanConfig(v, o)
  /\ hwVlan[v] = None
  /\ hwVlan' = [hwVlan EXCEPT ![v] = InHw(o)]
  /\ pvid' = SetPvid(pvid, v, o.untagged)
  /\ portMode' = SetPortMode(portMode, v, "L2", Members(o))

CreateVlan(v, o) ==
  /\ call = None
  /\ conf[v] = None
  /\ InstallVlan(v, o)
  /\ conf' = [conf EXCEPT ![v] = o]
  /\ call' = [at |-> "storeVlan", vlan |-> v, info |-> VlanInfo(o), next |-> "return"]
  /\ UNCHANGED <<vlanDB, operState, panicked>>

(***************************************************************************)
(* SaiPlugin.UpdateVlan removes what left each list and adds what came; it *)
(* takes the address of the first element of both lists of removals if     *)
(* either has one, so it panics when the other is empty.                   *)
(***************************************************************************)
HwUpdatePanics(old, new) ==
  (old.tagged \subseteq new.tagged) # (old.untagged \subseteq new.untagged)

HwUpdate(v, old, new) ==
  LET After(has, was, is) == (has \ (was \ is)) \cup (is \ was)
  IN [tagged   |-> After(hwVlan[v].tagged, old.tagged, new.tagged),
      untagged |-> After(hwVlan[v].untagged, old.untagged, new.untagged)]

\* (Mutant: the lists the VLAN would have had, were it up before.)
HwAfterUpdateAsIfUp(v, old, new) ==
  HwUpdate(v, [tagged |-> old.tagged, untagged |-> old.untagged], InHw(new))

HwAfterUpdate(v, old, new) == HwUpdate(v, InHw(old), InHw(new))

\* UpdateVlan.  The PVID of the new members is set before that of the old ones
\* is reset, a member that stays included.
PvidAfterUpdate(v, old, new) ==
  SetPvid(SetPvid(pvid, v, new.untagged), DefaultVlan, old.untagged)

UpdateVlan(v, new) ==
  LET old == conf[v]
  IN /\ call = None
     /\ old # None
     /\ ValidVlanConfig(v, new)
     /\ ~HwUpdatePanics(InHw(old), InHw(new))
     /\ hwVlan' = [hwVlan EXCEPT ![v] = HwAfterUpdate(v, old, new)]
     /\ pvid' = PvidAfterUpdate(v, old, new)
     /\ portMode' = SetPortMode(SetPortMode(portMode, v, "Unconfigured", Members(old)),
                                v, "L2", Members(new))
     /\ conf' = [conf EXCEPT ![v] = new]
     /\ call' = [at |-> "storeVlan", vlan |-> v, info |-> VlanInfo(new), next |-> "notify"]
     /\ UNCHANGED <<vlanDB, operState, panicked>>

UpdateVlanPanics(v, new) ==
  /\ call = None
  /\ conf[v] # None
  /\ ValidVlanConfig(v, new)
  /\ HwUpdatePanics(InHw(conf[v]), InHw(new))
  /\ panicked' = TRUE
  /\ UNCHANGED <<vlanVars, operState, call>>

\* The end of CreateVlan and of UpdateVlan.
StoreVlan ==
  /\ call # None
  /\ call.at = "storeVlan"
  /\ vlanDB' = [vlanDB EXCEPT ![call.vlan] = call.info]
  /\ call' = IF call.next = "return" THEN None ELSE [call EXCEPT !.at = call.next]
  /\ UNCHANGED <<conf, portMode, pvid, operState, hwVlan, panicked>>

(***************************************************************************)
(* DeleteVlan, with the member lists the caller gives.                     *)
(***************************************************************************)
\* (Mutant: the ports keep their PVID.)
RemoveVlanKeepsPvid(v, o) ==
  /\ hwVlan' = [hwVlan EXCEPT ![v] = None]
  /\ vlanDB' = [vlanDB EXCEPT ![v] = None]
  /\ pvid' = pvid

RemoveVlan(v, o) ==
  /\ hwVlan' = [hwVlan EXCEPT ![v] = None]
  /\ vlanDB' = [vlanDB EXCEPT ![v] = None]
  /\ pvid' = SetPvid(pvid, DefaultVlan, o.untagged)

DeleteVlan(v) ==
  LET old == conf[v]
  IN /\ call = None
     /\ old # None
     /\ RemoveVlan(v, old)
     /\ portMode' = SetPortMode(portMode, v, "Unconfigured", Members(old))
     /\ conf' = [conf EXCEPT ![v] = None]
     /\ UNCHANGED <<operState, call, panicked>>

-----------------------------------------------------------------------------
(***************************************************************************)
(* GetSysVlanContainingIf and GetNextAvailableSysVlan.                     *)
(***************************************************************************)
Least(S) == IF S = {} THEN NoVlan ELSE CHOOSE v \in S : \A w \in S : v <= w

GetSysVlanContainingIf(p) ==
  Least({v \in SysRsvdVlan : vlanDB[v] # None /\ p \in vlanDB[v].untagged})

GetNextAvailableSysVlan == Least({v \in SysRsvdVlan : vlanDB[v] = None})
=============================================================================
