------------------------------ MODULE VirtIntf ------------------------------
(***************************************************************************)
(* The virtual interfaces: loopbacks and IPv4 sub-interfaces (the          *)
(* L3IntfManager of src/pluginManager/l3IntfMgr.go), VXLAN tunnel          *)
(* endpoints (tunnelMgr.go, softSwitch/vxlan.go), their links in the       *)
(* kernel, and the clients that configure them, each of which knows what   *)
(* it configured and creates nothing twice.                                *)
(*                                                                         *)
(* Calls of several clients interleave: they are cut at the calls into the *)
(* kernel and where dbMutex is taken.  A place in the list of              *)
(* sub-interfaces is looked for under the lock and used after it: an index *)
(* beyond the end is a panic, which ends the call, or leaves it where it   *)
(* is when dbMutex is held, never to be released.  The process may die at  *)
(* any step or be stopped (Deinit); the links outlive it, the maps do not. *)
(* It then applies the loopbacks and the sub-interfaces of the             *)
(* configuration database, before clients connect; the tunnel daemon,      *)
(* whose tunnels are in no database, starts afresh.                        *)
(*                                                                         *)
(* Abstractions.  An address stands with its mask; which of them overlap   *)
(* is a constant.  A sub-interface's parent is a port or an SVI whose link *)
(* exists, or an interface that has none.  MAC addresses, the hosts of a   *)
(* VXLAN's bridge and the settings of the SAI plugin are left out (the     *)
(* latter answers every one of these calls with a constant).               *)
(***************************************************************************)
EXTENDS IfMgr, FiniteSets, Functions

CONSTANTS
  Lo,            \* loopbacks
  Ip,            \* addresses, with their masks
  Overlaps,      \* the pairs of them that overlap
  Parent,        \* interfaces that may have sub-interfaces
  LinkedParent,  \* those with a link in the kernel
  SubCfg,        \* the sub-interfaces that are created
  Vtep, Vni,
  LoClient, SubClient, VtepClient, Boot,
  Editor,        \* the sub-interface clients that also delete and update
  MaxDeath,      \* the number of times the process dies
  NoName,        \* the empty name
  None

ASSUME OverlapsAssumption ==
  /\ Overlaps \subseteq Ip \X Ip
  /\ \A a \in Ip : <<a, a>> \in Overlaps
  /\ \A a, b \in Ip : <<a, b>> \in Overlaps => <<b, a>> \in Overlaps
ASSUME ParentAssumption == LinkedParent \subseteq Parent

SubType == [ip : Ip, kind : {"Secondary", "Virtual"}, parent : Parent, enable : BOOLEAN]
ASSUME SubCfgAssumption == SubCfg \subseteq SubType

\* A secondary interface takes an id of the loopbacks, and its link the name
\* that a virtual one of the same parent and id has: "<link>.<id>".
PoolOf(kind) == IF kind = "Secondary" THEN "Loopback" ELSE "Virtual"
TmpName(sub) == <<sub.kind, sub.ip>>
LinkName(sub, i) == <<sub.parent, i[2]>>

\* The clients are no part of Init.
ASSUME BootAssumption == Boot \notin LoClient \cup SubClient \cup VtepClient
ASSUME EditorAssumption == Editor \subseteq SubClient

\* What is left of a call.
IfId == IfType \X Nat
IfName == (Parent \X Nat) \cup {NoName}
NewLoCall == [at : {"addLoopback", "storeLoopback", "loCreated"}, lo : Lo, ifIndex : IfId]
OldLoCall == [at : {"dropLoopback", "loDeleted"}, lo : Lo]
NewSubCall ==
  [at : {"verifySub", "addSub"}, sub : SubType, ifIndex : IfId]
    \cup [at : {"nameSub", "storeSub"}, sub : SubType, ifIndex : IfId, name : IfName]
    \cup [at : {"subCreated"}, sub : SubType]
OldSubCall ==
  [at : {"delSub", "freeSub", "removeSub", "subDeleted", "setSub", "storeEnable", "subUpdated"},
   sub : SubType, place : Nat]

\* Links of one sort are not taken for those of another.
ASSUME NamesAssumption ==
  /\ \A l \in Lo : l \notin Vtep \cup IfName \cup SubType
  /\ \A t \in Vtep : t \notin IfName
  /\ \A sub \in SubType : TmpName(sub) \notin Lo \cup Vtep \cup IfName
  /\ NoName \notin Parent \X Nat
  /\ None \notin IfId \cup NewLoCall \cup OldLoCall \cup NewSubCall \cup OldSubCall
  /\ \A V \in SUBSET Vtep : V # None
  /\ None \notin [vni : Vni, ifIndex : IfId]

VARIABLES
  links,       \* the links of the kernel that are virtual: their state
  logicalIntf, \* logicalIntfDB: the ifIndex of each
  subIntf,     \* SubIPv4IntfDB
  vtepDb,      \* vtepDb: the VNI and the ifIndex of each
  vxlan,       \* VxlanDB: the VTEPs in Links
  loCfg, subCfg,  \* what the clients configured
  call,        \* the call each client has in progress
  boot,        \* what Init has still to apply
  deaths

cfgVars == <<loCfg, subCfg>>
dbVars == <<logicalIntf, subIntf, vtepDb, vxlan>>
vars == <<ifVars, links, dbVars, cfgVars, call, boot, deaths>>

Client == LoClient \cup SubClient \cup VtepClient \cup {Boot}

Init ==
  /\ NoIfs
  /\ links = << >>
  /\ logicalIntf = [l \in Lo |-> None]
  /\ subIntf = << >>
  /\ vtepDb = [t \in Vtep |-> None]
  /\ vxlan = [v \in Vni |-> None]
  /\ loCfg = {} /\ subCfg = {}
  /\ call = [c \in Client |-> None]
  /\ boot = {}
  /\ deaths = 0

Booting == boot # {} \/ call[Boot] # None
Idle(c) == ~Booting /\ call[c] = None
At(c, step) == call[c] # None /\ call[c].at = step
Goto(c, step) == call' = [call EXCEPT ![c].at = step]
Return(c) == call' = [call EXCEPT ![c] = None]

-----------------------------------------------------------------------------
(***************************************************************************)
(* Loopbacks.                                                              *)
(***************************************************************************)
StartLogical(c, l) ==
  /\ AllocateIfIndex(l, "Loopback")
  /\ call' = [call EXCEPT ![c] = [at |-> "addLoopback", lo |-> l, ifIndex |-> NewIfIndex("Loopback")]]
  /\ UNCHANGED <<links, dbVars, cfgVars, deaths>>

CreateLogicalIntf(c, l) ==
  /\ Idle(c) /\ l \notin loCfg
  /\ StartLogical(c, l)
  /\ UNCHANGED boot

\* The kernel may refuse a client; the ifIndex stays allocated.
\* (Mutant: a link that exists is an error.)
AddLoopbackOnce(c) ==
  LET l == call[c].lo
  IN /\ At(c, "addLoopback")
     /\ IF l \in DOMAIN links
        THEN Return(c) /\ UNCHANGED links
        ELSE Goto(c, "storeLoopback") /\ links' = With(links, l, "UP")
     /\ UNCHANGED <<ifVars, dbVars, cfgVars, boot, deaths>>

AddLoopback(c) ==
  LET l == call[c].lo
  IN /\ At(c, "addLoopback")
     /\ \/ /\ links' = IF l \in DOMAIN links THEN links ELSE With(links, l, "UP")
           /\ Goto(c, "storeLoopback")
        \/ /\ l \notin DOMAIN links /\ c # Boot
           /\ Return(c)
           /\ UNCHANGED links
     /\ UNCHANGED <<ifVars, dbVars, cfgVars, boot, deaths>>

StoreLoopback(c) ==
  /\ At(c, "storeLoopback")
  /\ logicalIntf' = [logicalIntf EXCEPT ![call[c].lo] = call[c].ifIndex]
  /\ Goto(c, "loCreated")
  /\ UNCHANGED <<ifVars, links, subIntf, vtepDb, vxlan, cfgVars, boot, deaths>>

DeleteLogicalIntf(c, l) ==
  /\ Idle(c) /\ l \in loCfg
  /\ l \in DOMAIN links
  /\ links' = Without(links, l)
  /\ call' = [call EXCEPT ![c] = [at |-> "dropLoopback", lo |-> l]]
  /\ UNCHANGED <<ifVars, dbVars, cfgVars, boot, deaths>>

DropLoopback(c) ==
  LET l == call[c].lo
  IN /\ At(c, "dropLoopback")
     /\ IF logicalIntf[l] = None
        THEN UNCHANGED <<ifVars, logicalIntf>>
        ELSE /\ FreeIfIndex(logicalIntf[l])
             /\ logicalIntf' = [logicalIntf EXCEPT ![l] = None]
     /\ Goto(c, "loDeleted")
     /\ UNCHANGED <<links, subIntf, vtepDb, vxlan, cfgVars, boot, deaths>>

\* The call succeeds and the client's database follows.
LoopbackReturns(c) ==
  /\ \/ At(c, "loCreated") /\ loCfg' = loCfg \cup {call[c].lo}
     \/ At(c, "loDeleted") /\ loCfg' = loCfg \ {call[c].lo}
  /\ Return(c)
  /\ UNCHANGED <<ifVars, links, dbVars, subCfg, boot, deaths>>

-----------------------------------------------------------------------------
(***************************************************************************)
(* Sub-interfaces.  A call looks for its address in the list under the     *)
(* lock and uses the place it found after it.                              *)
(***************************************************************************)
PlaceOf(ip) == IF \E e \in DOMAIN subIntf : subIntf[e].ip = ip
               THEN CHOOSE e \in DOMAIN subIntf :
                      /\ subIntf[e].ip = ip
                      /\ \A d \in 1..e - 1 : subIntf[d].ip # ip
               ELSE None

StartSub(c, sub) ==
  LET pool == PoolOf(sub.kind)
  IN /\ AllocateIfIndex(TmpName(sub), pool)
     /\ call' = [call EXCEPT ![c] = [at |-> "verifySub", sub |-> sub, ifIndex |-> NewIfIndex(pool)]]
     /\ UNCHANGED <<links, dbVars, cfgVars, deaths>>

CreateSubIPv4Intf(c, sub) ==
  /\ Idle(c)
  /\ \A s \in subCfg : s.ip # sub.ip
  /\ StartSub(c, sub)
  /\ UNCHANGED boot

\* VerifySubIPv4Config.  The ifIndex of a call that is refused stays allocated.
Verified(ip) == \A e \in DOMAIN subIntf : <<ip, subIntf[e].ip>> \notin Overlaps

VerifySub(c) ==
  /\ At(c, "verifySub")
  /\ IF Verified(call[c].sub.ip) THEN Goto(c, "addSub") ELSE Return(c)
  /\ UNCHANGED <<ifVars, links, dbVars, cfgVars, boot, deaths>>

StateOf(enable) == IF enable THEN "UP" ELSE "DOWN"

GotNamed(c, name) ==
  call' = [call EXCEPT ![c] =
    [at |-> "nameSub", sub |-> @.sub, ifIndex |-> @.ifIndex, name |-> name]]

\* A parent with no link is no error.  Adding a link whose name is taken fails,
\* and the clean-up removes the link that has the name.
AddSubLink(c) ==
  LET sub == call[c].sub
      name == LinkName(sub, call[c].ifIndex)
  IN /\ At(c, "addSub")
     /\ \/ /\ sub.parent \notin LinkedParent
           /\ GotNamed(c, NoName)
           /\ UNCHANGED links
        \/ /\ sub.parent \in LinkedParent
           /\ name \in DOMAIN links
           /\ links' = Without(links, name)
           /\ Return(c)
        \/ /\ sub.parent \in LinkedParent
           /\ name \notin DOMAIN links
           /\ \/ links' = With(links, name, StateOf(sub.enable)) /\ GotNamed(c, name)
              \/ UNCHANGED links /\ Return(c)
     /\ UNCHANGED <<ifVars, dbVars, cfgVars, boot, deaths>>

NameSub(c) ==
  /\ At(c, "nameSub")
  /\ UpdateIfNameForIfIndex(call[c].ifIndex, TmpName(call[c].sub), call[c].name)
  /\ Goto(c, "storeSub")
  /\ UNCHANGED <<links, dbVars, cfgVars, boot, deaths>>

StoreSub(c) ==
  LET sub == call[c].sub
  IN /\ At(c, "storeSub")
     /\ subIntf' = Append(subIntf, [ip |-> sub.ip, ifIndex |-> call[c].ifIndex,
                                    name |-> call[c].name, enable |-> sub.enable])
     /\ call' = [call EXCEPT ![c] = [at |-> "subCreated", sub |-> sub]]
     /\ UNCHANGED <<ifVars, links, logicalIntf, vtepDb, vxlan, cfgVars, boot, deaths>>

DeleteSubIPv4Intf(c, sub) ==
  /\ Idle(c) /\ sub \in subCfg
  /\ PlaceOf(sub.ip) # None
  /\ call' = [call EXCEPT ![c] = [at |-> "delSub", sub |-> sub, place |-> PlaceOf(sub.ip)]]
  /\ UNCHANGED <<ifVars, links, dbVars, cfgVars, boot, deaths>>

\* The place may be beyond the end of a list that another call has shortened.
InList(c) == call[c].place \in DOMAIN subIntf

DelSubLink(c) ==
  /\ At(c, "delSub")
  /\ \/ /\ ~InList(c)
        /\ Return(c)
        /\ UNCHANGED links
     \/ /\ InList(c)
        /\ links' = Without(links, subIntf[call[c].place].name)
        /\ Goto(c, "freeSub")
  /\ UNCHANGED <<ifVars, dbVars, cfgVars, boot, deaths>>

FreeSub(c) ==
  /\ At(c, "freeSub")
  /\ \/ /\ ~InList(c)
        /\ Return(c)
        /\ UNCHANGED ifVars
     \/ /\ InList(c)
        /\ FreeIfIndex(subIntf[call[c].place].ifIndex)
        /\ Goto(c, "removeSub")
  /\ UNCHANGED <<links, dbVars, cfgVars, boot, deaths>>

\* (Mutant: the interface stays on the list.)
RemoveSubKeeps(c) ==
  /\ At(c, "removeSub")
  /\ Goto(c, "subDeleted")
  /\ UNCHANGED <<ifVars, links, dbVars, cfgVars, boot, deaths>>

RemoveSub(c) ==
  /\ At(c, "removeSub")
  /\ InList(c)
  /\ subIntf' = RemoveAt(subIntf, call[c].place)
  /\ Goto(c, "subDeleted")
  /\ UNCHANGED <<ifVars, links, logicalIntf, vtepDb, vxlan, cfgVars, boot, deaths>>

\* Only "enable" may change.
UpdateSubIPv4Intf(c, sub) ==
  /\ Idle(c) /\ sub \in subCfg
  /\ PlaceOf(sub.ip) # None
  /\ call' = [call EXCEPT ![c] = [at |-> "setSub", place |-> PlaceOf(sub.ip), sub |-> sub]]
  /\ UNCHANGED <<ifVars, links, dbVars, cfgVars, boot, deaths>>

NewEnable(c) == ~call[c].sub.enable

SetSubLink(c) ==
  LET name == subIntf[call[c].place].name
  IN /\ At(c, "setSub")
     /\ \/ /\ InList(c)
           /\ name \in DOMAIN links
           /\ links' = [links EXCEPT ![name] = StateOf(NewEnable(c))]
           /\ Goto(c, "storeEnable")
        \/ /\ InList(c) => name \notin DOMAIN links
           /\ Return(c)
           /\ UNCHANGED links
     /\ UNCHANGED <<ifVars, dbVars, cfgVars, boot, deaths>>

StoreEnable(c) ==
  /\ At(c, "storeEnable")
  /\ InList(c)
  /\ subIntf' = [subIntf EXCEPT ![call[c].place].enable = NewEnable(c)]
  /\ Goto(c, "subUpdated")
  /\ UNCHANGED <<ifVars, links, logicalIntf, vtepDb, vxlan, cfgVars, boot, deaths>>

SubReturns(c) ==
  LET sub == call[c].sub
  IN /\ \/ At(c, "subCreated") /\ subCfg' = subCfg \cup {sub}
        \/ At(c, "subDeleted") /\ subCfg' = subCfg \ {sub}
        \/ /\ At(c, "subUpdated")
           /\ subCfg' = (subCfg \ {sub}) \cup {[sub EXCEPT !.enable = ~@]}
     /\ Return(c)
     /\ UNCHANGED <<ifVars, links, dbVars, loCfg, boot, deaths>>

-----------------------------------------------------------------------------
(***************************************************************************)
(* VXLANs and their VTEPs, from one client.  A VTEP is created in a VXLAN  *)
(* that exists (the soft switch follows a nil pointer where it does not)   *)
(* and a VXLAN deleted while it has no more than one (the loop over the    *)
(* list it shortens runs off the end).  The ifIndex of a VTEP is not freed *)
(* with it.                                                                *)
(***************************************************************************)
CreateVxlan(c, v) ==
  /\ Idle(c)
  /\ vxlan[v] = None
  /\ vxlan' = [vxlan EXCEPT ![v] = {}]
  /\ UNCHANGED <<ifVars, links, logicalIntf, subIntf, vtepDb, cfgVars, call, boot, deaths>>

DeleteVxlan(c, v) ==
  /\ Idle(c)
  /\ vxlan[v] # None /\ Cardinality(vxlan[v]) <= 1
  /\ links' = [n \in DOMAIN links \ vxlan[v] |-> links[n]]
  /\ vxlan' = [vxlan EXCEPT ![v] = None]
  /\ UNCHANGED <<ifVars, logicalIntf, subIntf, vtepDb, cfgVars, call, boot, deaths>>

\* The link of a VTEP an earlier process made is taken over.
CreateVtep(c, t, v) ==
  /\ Idle(c)
  /\ vtepDb[t] = None /\ vxlan[v] # None
  /\ AllocateIfIndex(t, "Vtep")
  /\ links' = With(links, t, "UP")
  /\ vxlan' = [vxlan EXCEPT ![v] = @ \cup {t}]
  /\ vtepDb' = [vtepDb EXCEPT ![t] = [vni |-> v, ifIndex |-> NewIfIndex("Vtep")]]
  /\ UNCHANGED <<logicalIntf, subIntf, cfgVars, call, boot, deaths>>

VtepGone(v, t) == [vxlan EXCEPT ![v] = @ \ {t}]

DeleteVtep(c, t) ==
  LET v == vtepDb[t].vni
  IN /\ Idle(c)
     /\ vtepDb[t] # None
     /\ IF vxlan[v] # None /\ t \in vxlan[v]
        THEN vxlan' = VtepGone(v, t) /\ links' = Without(links, t)
        ELSE UNCHANGED <<vxlan, links>>
     /\ vtepDb' = [vtepDb EXCEPT ![t] = None]
     /\ UNCHANGED <<ifVars, logicalIntf, subIntf, cfgVars, call, boot, deaths>>

-----------------------------------------------------------------------------
(***************************************************************************)
(* The process dies, or is stopped (Deinit removes the links of the        *)
(* interfaces it knows), and starts again.                                 *)
(***************************************************************************)
StartAgain ==
  /\ deaths < MaxDeath
  /\ deaths' = deaths + 1
  /\ ifNameOf' = << >>
  /\ ifIndexOf' = << >>
  /\ nextIfId' = [t \in IfType |-> 0]
  /\ freeIfIndex' = [t \in IfType |-> << >>]
  /\ logicalIntf' = [l \in Lo |-> None]
  /\ subIntf' = << >>
  /\ vtepDb' = [t \in Vtep |-> None]
  /\ vxlan' = [v \in Vni |-> None]
  /\ call' = [c \in Client |-> None]
  /\ boot' = loCfg \cup subCfg
  /\ UNCHANGED cfgVars

Die == StartAgain /\ UNCHANGED links

KnownLinks ==
  {l \in Lo : logicalIntf[l] # None} \cup {subIntf[e].name : e \in DOMAIN subIntf}

Deinit ==
  /\ ~Booting
  /\ StartAgain
  /\ links' = [n \in DOMAIN links \ KnownLinks |-> links[n]]

\* InitLogicalIntf, then InitIPIntf.
RestoreLogicalIntf(l) ==
  /\ call[Boot] = None
  /\ l \in boot
  /\ boot' = boot \ {l}
  /\ StartLogical(Boot, l)

RestoreSubIPv4Intf(sub) ==
  /\ call[Boot] = None
  /\ boot \cap Lo = {} /\ sub \in boot
  /\ boot' = boot \ {sub}
  /\ StartSub(Boot, sub)

RestoreReturns ==
  /\ At(Boot, "loCreated") \/ At(Boot, "subCreated")
  /\ Return(Boot)
  /\ UNCHANGED <<ifVars, links, dbVars, cfgVars, boot, deaths>>

Next ==
  \/ \E c \in LoClient, l \in Lo : CreateLogicalIntf(c, l) \/ DeleteLogicalIntf(c, l)
  \/ \E c \in LoClient \cup {Boot} : AddLoopback(c) \/ StoreLoopback(c)
  \/ \E c \in LoClient : DropLoopback(c) \/ LoopbackReturns(c)
  \/ \E c \in SubClient, sub \in SubCfg : CreateSubIPv4Intf(c, sub)
  \/ \E c \in SubClient \cup {Boot} : VerifySub(c) \/ AddSubLink(c) \/ NameSub(c) \/ StoreSub(c)
  \/ \E c \in SubClient : SubReturns(c)
  \/ \E c \in Editor, sub \in subCfg : DeleteSubIPv4Intf(c, sub) \/ UpdateSubIPv4Intf(c, sub)
  \/ \E c \in Editor : DelSubLink(c) \/ FreeSub(c) \/ RemoveSub(c) \/ SetSubLink(c) \/ StoreEnable(c)
  \/ \E c \in VtepClient, v \in Vni : CreateVxlan(c, v) \/ DeleteVxlan(c, v)
  \/ \E c \in VtepClient, t \in Vtep, v \in Vni : CreateVtep(c, t, v)
  \/ \E c \in VtepClient, t \in Vtep : DeleteVtep(c, t)
  \/ Die \/ Deinit
  \/ \E l \in Lo : RestoreLogicalIntf(l)
  \/ \E sub \in subCfg : RestoreSubIPv4Intf(sub)
  \/ RestoreReturns

Spec == Init /\ [][Next]_vars

-----------------------------------------------------------------------------
(***************************************************************************)
(* Properties.                                                             *)
(***************************************************************************)
\* A sub-interface whose deletion has freed the ifIndex stays on the list until
\* the deletion has dbMutex.
Leaving(e) == \E c \in Editor : At(c, "removeSub") /\ call[c].place = e

\* The interfaces in the databases: the ifIndex, the name and the place of each.
LoTunnels ==
  {<<logicalIntf[l], l, 0>> : l \in {k \in Lo : logicalIntf[k] # None}}
    \cup {<<vtepDb[t].ifIndex, t, 0>> : t \in {u \in Vtep : vtepDb[u] # None}}
Interfaces ==
  LoTunnels
    \cup {<<subIntf[e].ifIndex, subIntf[e].name, e>> : e \in {d \in DOMAIN subIntf : ~Leaving(d)}}

\* Loopbacks, sub-interfaces and VTEPs of several clients come and go in the same
\* pools, failed calls keep what they took, and a freed ifIndex is taken again,
\* even while its last owner is still on the list: apart from that one, no two
\* interfaces ever have the same ifIndex, and none has one that is free.
IfIndexUnique ==
  /\ \A x, y \in Interfaces : x[1] = y[1] => x = y
  /\ \A t \in IfType :
       /\ IsInjective(freeIfIndex[t])
       /\ \A k \in DOMAIN freeIfIndex[t], x \in Interfaces : freeIfIndex[t][k] # x[1]

\* GetIfNameForIfIndex and ConvertIntfStrListToIfIndexList: through temporary
\* names, renaming, freeing and names used again, each interface is found by its
\* ifIndex, loopbacks and tunnels by their names too, and a name never leads to an
\* ifIndex that is free or has another name.  (The name of a sub-interface may be
\* lost to another's that has taken it.)
NamesResolve ==
  /\ \A x \in Interfaces : x[1] \in DOMAIN ifNameOf /\ ifNameOf[x[1]] = x[2]
  /\ \A x \in LoTunnels : x[2] \in DOMAIN ifIndexOf /\ ifIndexOf[x[2]] = x[1]
  /\ \A n \in DOMAIN ifIndexOf :
       ifIndexOf[n] \in DOMAIN ifNameOf /\ ifNameOf[ifIndexOf[n]] = n

\* Crashes at any step of a call, a restart that finds links it did not make, a
\* crash of the restart: a loopback whose creation succeeded and whose deletion
\* has not is there, with its link.
LoopbacksKept ==
  (boot = {} /\ \A c \in LoClient \cup {Boot} : call[c] = None) =>
    \A l \in loCfg : logicalIntf[l] # None /\ l \in DOMAIN links
=============================================================================
