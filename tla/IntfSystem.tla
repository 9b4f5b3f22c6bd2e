----------------------------- MODULE IntfSystem -----------------------------
(***************************************************************************)
(* The VLAN manager and the IP interface manager, called by one            *)
(* configuration client, beside the link handlers: a link event starts a   *)
(* goroutine (linkStateChngHandler, portMgr.go) that stores the state of   *)
(* the port and carries it to its VLANs and to the IP interfaces.          *)
(***************************************************************************)
EXTENDS L3IntfMgr

CONSTANTS
  Handler,     \* link handlers that may run at a time
  Overlap,     \* whether calls and link handlers run at the same time
  MaxIps,      \* no address is created while there are as many
  MaxMembers   \* bound on the memberships of the configured VLANs

ASSUME OverlapAssumption == Overlap \in BOOLEAN
ASSUME MaxAssumption == MaxIps \in Nat /\ MaxMembers \in Nat

\* Where a link handler can be: the VLANs it has still to process are a copy.
VlanCopy == UNION {[V -> VlanEntry] : V \in SUBSET Vlan}
LinkStage ==
  [at : {"port", "range"}, port : Port, state : {"UP", "DOWN"}]
    \cup [at : {"vlans"}, port : Port, state : {"UP", "DOWN"}, copy : VlanCopy]
    \cup [at : {"notify"}, port : Port, state : {"UP", "DOWN"}, copy : VlanCopy,
          vlan : Vlan, oper : {"UP", "DOWN"}]

ASSUME NoneLinkAssumption == None \notin LinkStage

VARIABLES
  hwLink,      \* the state of the links
  link         \* where each link handler is

vars == <<vlanVars, operState, call, panicked, l3Vars, hwLink, link>>

Init == /\ VlanInit
        /\ L3Init
        /\ hwLink = [p \in Port |-> "DOWN"]
        /\ link = [h \in Handler |-> None]

NoHandler == \A h \in Handler : link[h] = None
Quiet == call = None /\ NoHandler

-----------------------------------------------------------------------------
(***************************************************************************)
(* The link handler.  VlanProcessIntfStateChange ranges over a copy of the *)
(* table: the entry it writes has the count of the table and all the rest  *)
(* of the copy.  Handlers of different ports run at the same time.  Nothing*)
(* in the code keeps two events of one port in order; here the second      *)
(* waits for the first.                                                    *)
(***************************************************************************)
LinkEvent(p, h) ==
  LET state == UpDown(hwLink[p] = "DOWN")
  IN /\ link[h] = None
     /\ Overlap \/ call = None
     /\ \A g \in Handler : link[g] # None => link[g].port # p
     /\ hwLink' = [hwLink EXCEPT ![p] = state]
     /\ link' = [link EXCEPT ![h] = [at |-> "port", port |-> p, state |-> state]]
     /\ UNCHANGED <<vlanVars, operState, call, panicked, l3Vars>>

At(h, step) == link[h] # None /\ link[h].at = step

StorePortState(h) ==
  /\ At(h, "port")
  /\ operState' = [operState EXCEPT ![link[h].port] = link[h].state]
  /\ link' = [link EXCEPT ![h].at = "range"]
  /\ UNCHANGED <<vlanVars, call, panicked, l3Vars, hwLink>>

\* range evaluates, and so copies, the array.
CopyVlans(h) ==
  /\ At(h, "range")
  /\ link' = [link EXCEPT ![h] =
       [at |-> "vlans", port |-> link[h].port, state |-> link[h].state,
        copy |-> [v \in {w \in Vlan : vlanDB[w] # None /\ link[h].port \in Members(vlanDB[w])}
                    |-> vlanDB[v]]]]
  /\ UNCHANGED <<vlanVars, operState, call, panicked, l3Vars, hwLink>>

\* (Mutant: a VLAN with a member up counts one.)
ActiveAfterCapped(count, state) == IF state = "UP" THEN 1 ELSE count - 1

ActiveAfter(count, state) == IF state = "UP" THEN count + 1 ELSE count - 1

NextVlan(h) == Least(DOMAIN link[h].copy)

ProcessVlan(h) ==
  LET v == NextVlan(h)
      info == link[h].copy[v]
      active == ActiveAfter(vlanDB[v].active, link[h].state)
      oper == UpDown(info.admin = "UP" /\ active > 0)
  IN /\ At(h, "vlans")
     /\ v # NoVlan
     /\ vlanDB[v] # None
     /\ vlanDB' = [vlanDB EXCEPT ![v] = [info EXCEPT !.active = active, !.oper = oper]]
     /\ link' = [link EXCEPT ![h] =
          [at |-> "notify", port |-> @.port, state |-> @.state,
           copy |-> [w \in DOMAIN @.copy \ {v} |-> @.copy[w]],
           vlan |-> v, oper |-> oper]]
     /\ UNCHANGED <<conf, portMode, pvid, hwVlan, operState, call, panicked, l3Vars, hwLink>>

\* The VLAN was deleted since: a nil pointer.
ProcessVlanPanics(h) ==
  /\ At(h, "vlans")
  /\ NextVlan(h) # NoVlan
  /\ vlanDB[NextVlan(h)] = None
  /\ panicked' = TRUE
  /\ UNCHANGED <<vlanVars, operState, call, l3Vars, hwLink, link>>

NotifyVlan(h) ==
  /\ At(h, "notify")
  /\ ipDB' = AfterL2StateChange(link[h].vlan, link[h].oper)
  /\ link' = [link EXCEPT ![h] =
       [at |-> "vlans", port |-> @.port, state |-> @.state, copy |-> @.copy]]
  /\ UNCHANGED <<vlanVars, operState, call, panicked, refCount, hwRif, hwIp, hwLink>>

NotifyPort(h) ==
  /\ At(h, "vlans")
  /\ NextVlan(h) = NoVlan
  /\ ipDB' = AfterL2StateChange(link[h].port, link[h].state)
  /\ link' = [link EXCEPT ![h] = None]
  /\ UNCHANGED <<vlanVars, operState, call, panicked, refCount, hwRif, hwIp, hwLink>>

-----------------------------------------------------------------------------
(***************************************************************************)
(* The client removes the addresses of a VLAN before the VLAN; the manager *)
(* does not look.                                                          *)
(***************************************************************************)
NumIps == Cardinality({a \in DOMAIN ipDB : ipDB[a] # None})

\* The objects the client may configure v with.
MembersBut(v) == LET others == {w \in ClientVlan \ {v} : conf[w] # None}
                 IN Cardinality({pw \in Port \X others : pw[1] \in Members(conf[pw[2]])})
Offered(v) == {o \in Object : MembersBut(v) + Cardinality(Members(o)) <= MaxMembers}

Calls ==
  /\ Overlap \/ NoHandler
  /\ \/ \E v \in ClientVlan :
          \/ /\ \E o \in Offered(v) : \/ CreateVlan(v, o)
                                     \/ UpdateVlan(v, o)
                                     \/ UpdateVlanPanics(v, o)
             /\ UNCHANGED l3Vars
          \/ /\ \A f \in Family : ipDB[<<f, v>>] = None
             /\ DeleteVlan(v)
             /\ UNCHANGED l3Vars
     \/ \E f \in Family, i \in Intf :
          \/ /\ NumIps < MaxIps
             /\ \E admin \in {"UP", "DOWN"} : CreateIPIntf(f, i, admin)
          \/ \E admin \in {"UP", "DOWN"} : UpdateIPIntf(f, i, admin)
          \/ DeleteIPIntf(f, i)

Returns == (StoreVlan /\ UNCHANGED l3Vars) \/ NotifyL3 \/ AddIp \/ StoreIp

Links ==
  \E h \in Handler :
    \/ \E p \in Port : LinkEvent(p, h)
    \/ StorePortState(h) \/ CopyVlans(h) \/ ProcessVlan(h) \/ ProcessVlanPanics(h)
    \/ NotifyVlan(h) \/ NotifyPort(h)

\* A panic ends the process.
Next == /\ ~panicked
        /\ \/ (Calls \/ Returns) /\ UNCHANGED <<hwLink, link>>
           \/ Links

Spec == Init /\ [][Next]_vars

-----------------------------------------------------------------------------
\* The ASIC has the VLANs the client configured with the members of the last
\* object, and no members while the admin state is down, through any sequence
\* of creates, updates of members and admin state together, and deletes.
HwFollowsConfig ==
  \A v \in ClientVlan : hwVlan[v] = IF conf[v] = None THEN None ELSE InHw(conf[v])

UntaggedIn(o) == IF o = None THEN {} ELSE o.untagged
Addresses(i) == {a \in DOMAIN ipDB : a[2] = i /\ ipDB[a] # None}
SysVlans(p) == {v \in SysRsvdVlan : vlanDB[v] # None /\ p \in Members(vlanDB[v])}

\* A port's PVID is the default or names a VLAN it is untagged in: a port that
\* left every VLAN is not refused by the next one.
PvidJustified ==
  call = None => \A p \in Port : pvid[p] # DefaultVlan =>
    p \in UntaggedIn(IF pvid[p] \in ClientVlan THEN conf[pvid[p]] ELSE vlanDB[pvid[p]])

\* Between calls a port has a reserved VLAN, one and of its own, exactly while
\* it has an address, and l3IntfRefCount of that VLAN counts the addresses.
SysVlansServePorts ==
  call = None => \A p \in Port :
    /\ Cardinality(SysVlans(p)) = IF Addresses(p) = {} THEN 0 ELSE 1
    /\ \A v \in SysVlans(p) :
         /\ Members(vlanDB[v]) = {p}
         /\ hwVlan[v] = InHw(PortObject(p))
         /\ refCount[v] = Cardinality(Addresses(p))

\* With nothing in progress a VLAN counts its members that are up, and is up
\* exactly while it is enabled and one is.
ActiveCountsExact ==
  Quiet => \A v \in Vlan : vlanDB[v] # None =>
    /\ vlanDB[v].active = Cardinality({p \in Members(vlanDB[v]) : hwLink[p] = "UP"})
    /\ vlanDB[v].oper = UpDown(vlanDB[v].admin = "UP" /\ vlanDB[v].active > 0)

\* With nothing in progress an address on a port is up only while the link is,
\* and is up if it is enabled as well.
IpOperSound ==
  Quiet => \A a \in DOMAIN ipDB : a[2] \in Port /\ ipDB[a] # None =>
    /\ ipDB[a].oper = "UP" => hwLink[a[2]] = "UP"
    /\ ipDB[a].admin = "UP" /\ hwLink[a[2]] = "UP" => ipDB[a].oper = "UP"

\* The ASIC traps the traffic to exactly the addresses that are enabled.
TrapsFollowAdmin ==
  call = None => hwIp = {a \in DOMAIN ipDB : ipDB[a] # None /\ ipDB[a].admin = "UP"}

-----------------------------------------------------------------------------
(***************************************************************************)
(* What a comment of the code says and it does not do.                     *)
(***************************************************************************)
\* "Global override : disregard computed operstate if adminstate is down"
\* (vlanMgr.go:889): a VLAN the client disabled stays down when links come up.
AdminDownOverrides ==
  call = None => \A v \in ClientVlan :
    conf[v] # None /\ conf[v].admin = "DOWN" => vlanDB[v].oper = "DOWN"
=============================================================================
