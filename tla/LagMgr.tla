------------------------------- MODULE LagMgr -------------------------------
(***************************************************************************)
(* The LAG manager (src/pluginManager/lagMgr.go) with its two plugins: the *)
(* LAGs of the ASIC (sai/saiChip.c) and the bonds of the kernel            *)
(* (softSwitch/softSwitch.go), and the lock that guards its table.         *)
(*                                                                         *)
(* The client (the LACP daemon) makes one call at a time, with ports that  *)
(* are in no other LAG: validateLagCfg refuses L3 ports only.  A call is   *)
(* cut where it takes and releases a mutex a link handler uses.  Sections  *)
(* that wait for nothing inside are one step, enabled while the mutex is   *)
(* free; a mutex held across another one is a variable.                    *)
(*                                                                         *)
(* Abstractions.  A member list is a set.  The int that SaiCreateLag hands *)
(* to SaiAddLagMember names the LAG.  The ASIC takes a port that is in no  *)
(* LAG.  It removes a LAG with its members: SaiDeleteLag asks for no more  *)
(* than the LAG and would leave them behind otherwise.  The VLAN of a LAG  *)
(* (lagId>>48) is its own; of this VLAN the active count is kept.  The     *)
(* PVID, the key cache, names in IfMgr, hash types and notifications are   *)
(* left out.                                                               *)
(***************************************************************************)
EXTENDS Integers, FiniteSets

CONSTANTS
  Port,        \* interface indices of physical ports
  LagId,       \* ids the SDK hands out
  Name,        \* names of bonds
  None,
  MaxActive    \* bound: no update while a VLAN counts more, or less than none

ASSUME PortAssumption == IsFiniteSet(Port)

VARIABLES
  lagDB,       \* lagDB
  portMode,    \* portStateDB[..].ConfigMode
  operState,   \* portStateDB[..].OperState
  hwLags,      \* lag_list: the LAGs of the ASIC
  hwLagOf,     \* the LAG each port is a member of in the ASIC: not port_lag_list,
               \* which keeps the last member id of a port, to remove it by
  bonds,       \* the bonds of the kernel
  master,      \* the bond each port is enslaved to
  vlanActive,  \* activeIntfCount of the VLAN of each LAG
  lagLock,     \* who holds LagMgr.dbMutex for writing
  portLock,    \* who holds PortMgr.dbMutex for writing
  call         \* the rest of the call in progress

Info == [name : Name, members : SUBSET Port, active : Int]

\* What is left of a call.
CreateCall == [at : {"store", "vlan", "members", "countLag"}, lag : LagId, next : {"vlan"},
               info : Info]
VlanCall == [at : {"storeVlan"}, lag : LagId, active : {0, 1}]
UpdateCall == [at : {"store", "modes"}, lag : LagId, next : {"modes"}, old : SUBSET Port,
               info : Info]
DeleteCall == [at : {"resetPvid", "resetMembers", "forget"}, lag : LagId]
UnconfigureCall == [at : {"unconfigure"}, old : SUBSET Port]

ASSUME LagNoneAssumption ==
  /\ None \notin Port \cup LagId \cup Name \cup Info
  /\ None \notin CreateCall \cup VlanCall \cup UpdateCall \cup DeleteCall \cup UnconfigureCall

tables == <<lagDB, vlanActive>>
plugins == <<hwLags, hwLagOf, bonds, master>>
lagVars == <<tables, plugins, portMode, operState, lagLock, portLock, call>>

LagInit ==
  /\ lagDB = [l \in LagId |-> None]
  /\ vlanActive = [l \in LagId |-> None]
  /\ portMode = [p \in Port |-> "Unconfigured"]
  /\ operState = [p \in Port |-> "DOWN"]
  /\ hwLags = {}
  /\ hwLagOf = [p \in Port |-> None]
  /\ bonds = {}
  /\ master = [p \in Port |-> None]
  /\ lagLock = None /\ portLock = None
  /\ call = None

Lags == {l \in LagId : lagDB[l] # None}
InLag(p) == {l \in Lags : p \in lagDB[l].members}
Free(mutex) == mutex = None
At(step) == call # None /\ call.at = step

\* validateLagCfg; SetPortConfigMode; GetActiveIntfCountFromIfIndexList.
ValidLagCfg(ports) == \A p \in ports : portMode[p] # "L3"
SetMode(f, mode, ports) == [p \in Port |-> IF p \in ports THEN mode ELSE f[p]]
ActiveCount(ports) == Cardinality({p \in ports : operState[p] = "UP"})

-----------------------------------------------------------------------------
(***************************************************************************)
(* The plugins.  In the ASIC a port that is in a LAG is refused, and the   *)
(* refusal is logged and no more; in the kernel it moves.                  *)
(***************************************************************************)
SaiAddMembers(f, l, ports) ==
  [p \in Port |-> IF p \in ports /\ f[p] = None THEN l ELSE f[p]]
Released(f, ports) == [p \in Port |-> IF p \in ports THEN None ELSE f[p]]

SaiUpdateLag(l, old, new) == Released(SaiAddMembers(hwLagOf, l, new \ old), old \ new)

\* An id that no LAG of the ASIC has; it does not matter which.
NewLagId == CHOOSE l \in LagId : l \notin hwLags

SaiCreateLag(l, ports) ==
  /\ hwLags' = hwLags \cup {l}
  /\ hwLagOf' = SaiAddMembers(hwLagOf, l, ports)

SaiDeleteLag(l) ==
  /\ hwLags' = hwLags \ {l}
  /\ hwLagOf' = Released(hwLagOf, {p \in Port : hwLagOf[p] = l})

AddPortToBondIf(f, n, ports) == [p \in Port |-> IF p \in ports THEN n ELSE f[p]]

\* GetListDifference both ways.
BondUpdate(n, old, new) ==
  AddPortToBondIf(Released(master, old \ new), n, new \ old)

-----------------------------------------------------------------------------
(***************************************************************************)
(* CreateLag.  The bond is added last: if its name is taken the call       *)
(* returns and the LAG stays in the ASIC.                                  *)
(***************************************************************************)
CreateLag(n, ports) ==
  /\ call = None
  /\ Free(portLock)
  /\ ValidLagCfg(ports)
  /\ LagId \ hwLags # {}
  /\ LET l == NewLagId IN
       /\ SaiCreateLag(l, ports)
       /\ \/ /\ n \in bonds
             /\ UNCHANGED <<bonds, master, portMode, call>>
          \/ /\ n \notin bonds
             /\ bonds' = bonds \cup {n}
             /\ master' = AddPortToBondIf(master, n, ports)
             /\ portMode' = SetMode(portMode, "L2", ports)
             /\ call' = [at |-> "store", lag |-> l, next |-> "vlan",
                         info |-> [name |-> n, members |-> ports,
                                   active |-> ActiveCount(ports)]]
  /\ UNCHANGED <<tables, operState, lagLock, portLock>>

\* The entry of CreateLag and of UpdateLag, counted before.
StoreLag ==
  /\ At("store")
  /\ Free(lagLock)
  /\ lagDB' = [lagDB EXCEPT ![call.lag] = call.info]
  /\ call' = [call EXCEPT !.at = call.next]
  /\ UNCHANGED <<plugins, vlanActive, portMode, operState, lagLock, portLock>>

\* SetPvidForIfIndexList: the members are read with PortMgr.dbMutex held.
SetPvidLocks ==
  /\ At("vlan") \/ At("resetPvid")
  /\ Free(portLock)
  /\ portLock' = "client"
  /\ call' = [call EXCEPT !.at = IF At("vlan") THEN "members" ELSE "resetMembers"]
  /\ UNCHANGED <<tables, plugins, portMode, operState, lagLock>>

SetPvidReads ==
  /\ At("members") \/ At("resetMembers")
  /\ Free(lagLock)
  /\ portLock' = None
  /\ call' = [call EXCEPT !.at = IF At("members") THEN "countLag" ELSE "forget"]
  /\ UNCHANGED <<tables, plugins, portMode, operState, lagLock>>

\* The rest of CreateLagVlan: GetActiveLagCountFromLagList, then the VLAN.
\* (Mutant: the call waits for the LAG to become active.)
CountLagWaits ==
  /\ At("countLag")
  /\ Free(lagLock)
  /\ IF lagDB[call.lag].active > 0
     THEN call' = [at |-> "storeVlan", lag |-> call.lag, active |-> 1]
     ELSE UNCHANGED call
  /\ UNCHANGED <<tables, plugins, portMode, operState, lagLock, portLock>>

CountLag ==
  /\ At("countLag")
  /\ Free(lagLock)
  /\ call' = [at |-> "storeVlan", lag |-> call.lag,
              active |-> IF lagDB[call.lag].active > 0 THEN 1 ELSE 0]
  /\ UNCHANGED <<tables, plugins, portMode, operState, lagLock, portLock>>

StoreLagVlan ==
  /\ At("storeVlan")
  /\ vlanActive' = [vlanActive EXCEPT ![call.lag] = call.active]
  /\ call' = None
  /\ UNCHANGED <<lagDB, plugins, portMode, operState, lagLock, portLock>>

(***************************************************************************)
(* UpdateLag.                                                              *)
(***************************************************************************)
UpdateLag(l, ports) ==
  /\ call = None
  /\ Free(portLock) /\ Free(lagLock)
  /\ l \in Lags
  /\ ValidLagCfg(ports)
  /\ vlanActive[l] \in 0 .. MaxActive
  /\ hwLagOf' = SaiUpdateLag(l, lagDB[l].members, ports)
  /\ master' = BondUpdate(lagDB[l].name, lagDB[l].members, ports)
  /\ call' = [at |-> "store", lag |-> l, next |-> "modes", old |-> lagDB[l].members,
              info |-> [lagDB[l] EXCEPT !.members = ports, !.active = ActiveCount(ports)]]
  /\ UNCHANGED <<tables, hwLags, bonds, portMode, operState, lagLock, portLock>>

\* (Mutant: the new members first.)
ModesAfterSwapped(old, new) ==
  SetMode(SetMode(portMode, "L2", new), "Unconfigured", old)

ModesAfter(old, new) == SetMode(SetMode(portMode, "Unconfigured", old), "L2", new)

SetModes ==
  /\ At("modes")
  /\ Free(portLock)
  /\ portMode' = ModesAfter(call.old, call.info.members)
  /\ call' = None
  /\ UNCHANGED <<tables, plugins, operState, lagLock, portLock>>

(***************************************************************************)
(* DeleteLag.                                                              *)
(***************************************************************************)
DeleteLag(l) ==
  /\ call = None
  /\ Free(lagLock)
  /\ l \in Lags
  /\ SaiDeleteLag(l)
  /\ bonds' = bonds \ {lagDB[l].name}
  /\ master' = Released(master, {p \in Port : master[p] = lagDB[l].name})
  /\ vlanActive' = [vlanActive EXCEPT ![l] = None]
  /\ call' = [at |-> "resetPvid", lag |-> l]
  /\ UNCHANGED <<lagDB, portMode, operState, lagLock, portLock>>

ForgetLag ==
  /\ At("forget")
  /\ Free(lagLock)
  /\ lagDB' = [lagDB EXCEPT ![call.lag] = None]
  /\ call' = [at |-> "unconfigure", old |-> lagDB[call.lag].members]
  /\ UNCHANGED <<plugins, vlanActive, portMode, operState, lagLock, portLock>>

Unconfigure ==
  /\ At("unconfigure")
  /\ Free(portLock)
  /\ portMode' = SetMode(portMode, "Unconfigured", call.old)
  /\ call' = None
  /\ UNCHANGED <<tables, plugins, operState, lagLock, portLock>>

Returns ==
  \/ StoreLag \/ SetPvidLocks \/ SetPvidReads \/ CountLag \/ StoreLagVlan
  \/ SetModes \/ ForgetLag \/ Unconfigure
=============================================================================
