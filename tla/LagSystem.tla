------------------------------ MODULE LagSystem ------------------------------
(***************************************************************************)
(* The LAG manager beside the link handlers and a client that configures   *)
(* addresses on LAGs (src/pluginManager/l3IntfMgr.go).  Three mutexes are  *)
(* held across others: a link handler tells the VLAN and the addresses of  *)
(* a LAG under LagMgr.dbMutex, SetPvidForIfIndexList reads the members of  *)
(* a LAG under PortMgr.dbMutex, and UpdateIPIntf reads its active count    *)
(* under L3IntfMgr.dbMutex.                                                *)
(*                                                                         *)
(* Two events of one port are handled in order, which nothing in the code  *)
(* ensures; handlers of different ports run at the same time.              *)
(*                                                                         *)
(* UpdateLag tells nobody when it leaves a LAG without an active member or *)
(* gives it one: neither the VLAN nor the address of the LAG are right     *)
(* afterwards.  The LAGs this happened to are kept in a history variable.  *)
(***************************************************************************)
EXTENDS LagMgr

CONSTANTS
  Schedule,    \* the schedules the environment may keep to, below
  MaxLags,     \* bound on the LAGs of the ASIC, for each schedule
  Addressed    \* the LAGs that are given addresses

\* "serial": one call or link event at a time; "lag": LAG calls and link events
\* at any time; "any": updates of addresses at any time as well.
ASSUME ScheduleAssumption == Schedule \subseteq {"serial", "lag", "any"}
ASSUME MaxLagsAssumption == MaxLags \in [Schedule -> Nat]
ASSUME AddressedAssumption == Addressed \subseteq LagId

VARIABLES
  schedule,    \* the schedule of this behaviour
  hwLink,      \* the state of the links
  link,        \* where the handler of each port is
  ipDB,        \* the address of each LAG: admin and oper state
  ipCall,      \* the address update in progress
  l3Lock,      \* who holds L3IntfMgr.dbMutex
  panicked,    \* a handler panicked, which ends the process
  silent       \* history: the LAGs that an update made active or inactive

\* What a link handler has left.
LinkCall ==
  [at : {"port", "lag"}, state : {"UP", "DOWN"}]
    \cup [at : {"lags", "vlan", "count", "l3"}, state : {"UP", "DOWN"}, todo : SUBSET LagId,
          lag : LagId \cup {None}]

\* None is neither.
ASSUME LinkNoneAssumption == None \notin LinkCall /\ None \notin Int

ipVars == <<ipDB, ipCall, l3Lock>>
linkVars == <<hwLink, link>>
vars == <<lagVars, linkVars, ipVars, schedule, panicked, silent>>

Init ==
  /\ LagInit
  /\ schedule \in Schedule
  /\ hwLink = [p \in Port |-> "DOWN"]
  /\ link = [p \in Port |-> None]
  /\ ipDB = [l \in LagId |-> None]
  /\ ipCall = None
  /\ l3Lock = None
  /\ panicked = FALSE
  /\ silent = {}

UpDown(up) == IF up THEN "UP" ELSE "DOWN"
NoHandler == \A p \in Port : link[p] = None
Quiet == call = None /\ ipCall = None /\ NoHandler
Serial == schedule = "serial"
HandlerAt(p, step) == link[p] # None /\ link[p].at = step

-----------------------------------------------------------------------------
(***************************************************************************)
(* linkStateChngHandler up to the LAG manager.                             *)
(***************************************************************************)
LinkEvent(p) ==
  LET state == UpDown(hwLink[p] = "DOWN")
  IN /\ link[p] = None
     /\ Serial => Quiet
     /\ hwLink' = [hwLink EXCEPT ![p] = state]
     /\ link' = [link EXCEPT ![p] = [at |-> "port", state |-> state]]
     /\ UNCHANGED <<lagVars, ipVars>>

StorePortState(p) ==
  /\ HandlerAt(p, "port")
  /\ Free(portLock)
  /\ operState' = [operState EXCEPT ![p] = link[p].state]
  /\ link' = [link EXCEPT ![p].at = "lag"]
  /\ UNCHANGED <<tables, plugins, portMode, lagLock, portLock, call, hwLink, ipVars>>

\* LagProcessPortStateChange, from here to LagDone under LagMgr.dbMutex.
LockLags(p) ==
  /\ HandlerAt(p, "lag")
  /\ Free(lagLock)
  /\ lagLock' = p
  /\ link' = [link EXCEPT ![p] =
                [at |-> "lags", state |-> @.state, todo |-> InLag(p), lag |-> None]]
  /\ UNCHANGED <<tables, plugins, portMode, operState, portLock, call, hwLink, ipVars>>

\* (Mutant: a LAG with a member up counts one.)
CountAfterCapped(count, state) == IF state = "DOWN" THEN count - 1 ELSE 1

CountAfter(count, state) == IF state = "DOWN" THEN count - 1 ELSE count + 1
Tells(count, state) == count = IF state = "DOWN" THEN 0 ELSE 1

ProcessLag(p, l) ==
  LET state == link[p].state
      count == CountAfter(lagDB[l].active, state)
  IN /\ HandlerAt(p, "lags")
     /\ l \in link[p].todo
     /\ lagDB' = [lagDB EXCEPT ![l].active = count]
     /\ link' = [link EXCEPT ![p].todo = @ \ {l},
                             ![p].at = IF Tells(count, state) THEN "vlan" ELSE @,
                             ![p].lag = IF Tells(count, state) THEN l ELSE None]
     /\ UNCHANGED <<vlanActive, plugins, portMode, operState, lagLock, portLock, call,
                    hwLink, ipVars>>

\* VlanProcessIntfStateChange: the VLAN of the LAG is looked up before the lock of
\* the VLAN table is taken, and read again behind it.  A VLAN that DeleteLag has
\* removed in between is a nil pointer.
FindVlan(p, l) ==
  /\ HandlerAt(p, "vlan") /\ link[p].lag = l
  /\ link' = [link EXCEPT ![p].at = IF vlanActive[l] = None THEN "l3" ELSE "count"]
  /\ UNCHANGED <<lagVars, hwLink, ipVars, panicked>>

TellVlan(p, l) ==
  /\ HandlerAt(p, "count") /\ link[p].lag = l
  /\ \/ /\ vlanActive[l] # None
        /\ vlanActive' = [vlanActive EXCEPT ![l] =
                            IF link[p].state = "DOWN" THEN @ - 1 ELSE @ + 1]
        /\ link' = [link EXCEPT ![p].at = "l3"]
        /\ UNCHANGED panicked
     \/ /\ vlanActive[l] = None
        /\ panicked' = TRUE
        /\ UNCHANGED <<vlanActive, link>>
  /\ UNCHANGED <<lagDB, plugins, portMode, operState, lagLock, portLock, call,
                 hwLink, ipVars>>

\* L3IntfProcessL2IntfStateChange.
TellL3(p, l) ==
  /\ HandlerAt(p, "l3") /\ link[p].lag = l
  /\ Free(l3Lock)
  /\ ipDB' = IF ipDB[l] = None THEN ipDB
             ELSE [ipDB EXCEPT ![l].oper =
                     UpDown(ipDB[l].admin = "UP" /\ link[p].state = "UP")]
  /\ link' = [link EXCEPT ![p].at = "lags", ![p].lag = None]
  /\ UNCHANGED <<lagVars, hwLink, ipCall, l3Lock>>

LagDone(p) ==
  /\ HandlerAt(p, "lags")
  /\ link[p].todo = {}
  /\ lagLock' = None
  /\ link' = [link EXCEPT ![p] = None]
  /\ UNCHANGED <<tables, plugins, portMode, operState, portLock, call, hwLink, ipVars>>

Handle(p) ==
  \/ (StorePortState(p) \/ LockLags(p) \/ LagDone(p)) /\ UNCHANGED panicked
  \/ \E l \in LagId : \/ (ProcessLag(p, l) \/ TellL3(p, l)) /\ UNCHANGED panicked
                      \/ FindVlan(p, l) \/ TellVlan(p, l)

-----------------------------------------------------------------------------
(***************************************************************************)
(* Addresses on LAGs.  DetermineL2IntfOperState reads the active count of  *)
(* the LAG; the state of a new address disregards its admin state.         *)
(***************************************************************************)
LagOper(l) == UpDown(lagDB[l].active > 0)

MayUpdateIp == (Serial => Quiet) /\ schedule # "lag" /\ ipCall = None

CreateIPIntf(l, admin) ==
  /\ MayUpdateIp
  /\ call = None
  /\ l \in Lags
  /\ ipDB[l] = None
  /\ Free(lagLock) /\ Free(l3Lock)
  /\ ipDB' = [ipDB EXCEPT ![l] = [admin |-> admin, oper |-> LagOper(l)]]
  /\ UNCHANGED <<lagVars, linkVars, ipCall, l3Lock>>

\* UpdateIPIntf takes L3IntfMgr.dbMutex, then LagMgr.dbMutex.
UpdateIPIntf(l, admin) ==
  /\ MayUpdateIp
  /\ ipDB[l] # None
  /\ Free(l3Lock)
  /\ l3Lock' = "ip"
  /\ ipCall' = [lag |-> l, admin |-> admin]
  /\ UNCHANGED <<lagVars, linkVars, ipDB>>

StoreIpState ==
  /\ ipCall # None
  /\ Free(lagLock)
  /\ ipDB' = [ipDB EXCEPT ![ipCall.lag] =
                [admin |-> ipCall.admin,
                 oper |-> UpDown(ipCall.admin = "UP" /\ LagOper(ipCall.lag) = "UP")]]
  /\ l3Lock' = None
  /\ ipCall' = None
  /\ UNCHANGED <<lagVars, linkVars>>

DeleteIPIntf(l) ==
  /\ MayUpdateIp
  /\ ipDB[l] # None
  /\ Free(l3Lock)
  /\ ipDB' = [ipDB EXCEPT ![l] = None]
  /\ UNCHANGED <<lagVars, linkVars, ipCall, l3Lock>>

-----------------------------------------------------------------------------
(***************************************************************************)
(* The client offers ports that are in no other LAG, and removes a LAG     *)
(* after its address.                                                      *)
(***************************************************************************)
Offered(others) == {S \in SUBSET Port : \A p \in S : InLag(p) \subseteq others}

\* Whether the update leaves the LAG without its only active members, or gives it
\* its first one.
Turns(l, ports) == (ActiveCount(ports) > 0) # (lagDB[l].active > 0)

Calls ==
  /\ Serial => Quiet
  /\ \/ /\ Cardinality(hwLags) < MaxLags[schedule]
        /\ \E n \in Name, S \in Offered({}) : CreateLag(n, S)
        /\ UNCHANGED silent
     \/ \E l \in LagId, S \in SUBSET Port :
          /\ S \in Offered({l})
          /\ UpdateLag(l, S)
          /\ silent' = IF Serial /\ Turns(l, S) THEN silent \cup {l} ELSE silent
     \/ \E l \in LagId :
          /\ ipDB[l] = None
          /\ DeleteLag(l)
          /\ silent' = silent \ {l}

IpCalls ==
  \E l \in Addressed :
    \/ \E admin \in {"UP", "DOWN"} : CreateIPIntf(l, admin) \/ UpdateIPIntf(l, admin)
    \/ DeleteIPIntf(l)

\* The steps of the goroutines: of the LAG call, a link handler, the address update.
CallStep == ~panicked /\ Returns /\ UNCHANGED <<linkVars, ipVars, schedule, panicked, silent>>
LinkStep(p) == ~panicked /\ Handle(p) /\ UNCHANGED <<schedule, silent>>
IpStep == ~panicked /\ StoreIpState /\ UNCHANGED <<schedule, panicked, silent>>

Environment ==
  /\ ~panicked
  /\ \/ Calls /\ UNCHANGED <<linkVars, ipVars>>
     \/ ((\E p \in Port : LinkEvent(p)) \/ IpCalls) /\ UNCHANGED silent
  /\ UNCHANGED <<schedule, panicked>>

Next == Environment \/ CallStep \/ IpStep \/ \E p \in Port : LinkStep(p)

\* Goroutines run on, and a mutex is handed to one that waits for it: Go's
\* mutexes serve a waiter that was passed over.
Fairness == SF_vars(CallStep) /\ SF_vars(IpStep) /\ \A p \in Port : SF_vars(LinkStep(p))

Spec == Init /\ [][Next]_vars
FairSpec == Spec /\ Fairness

-----------------------------------------------------------------------------
Masters(n) == {p \in Port : master[p] = n}

\* Between calls, under any interleaving with link events, the bond of a LAG and
\* the LAG of the ASIC have exactly the members of the table, unless a creation
\* that failed in the kernel left a LAG in the ASIC; the ports in L2 mode are
\* the members.
MembersAgree ==
  call = None =>
    /\ bonds = {lagDB[l].name : l \in Lags}
    /\ \A l \in Lags : Masters(lagDB[l].name) = lagDB[l].members
    /\ hwLags = Lags => \A p \in Port : InLag(p) = {hwLagOf[p]} \ {None}
    /\ \A p \in Port : portMode[p] = "L2" <=> InLag(p) # {}

\* With one thing at a time, through creates, updates, deletes and link events,
\* a LAG counts its members whose link is up.  Unless an update made it active or
\* inactive, which UpdateLag (lagMgr.go:357) keeps to itself, the layers above
\* know too: its VLAN counts it while a member is up, and its address is not up
\* without one, nor down with one if it is enabled.
CountsFollowLinks ==
  Serial /\ Quiet => \A l \in Lags :
    LET up == {p \in lagDB[l].members : hwLink[p] = "UP"}
    IN /\ lagDB[l].active = Cardinality(up)
       /\ l \notin silent =>
            /\ vlanActive[l] = IF up # {} THEN 1 ELSE 0
            /\ ipDB[l] # None => /\ ipDB[l].oper = "UP" => up # {}
                                 /\ up # {} /\ ipDB[l].admin = "UP" => ipDB[l].oper = "UP"

\* No call of the LAG manager and no link event waits for ever, in spite of the
\* mutexes that are taken inside each other, unless the process ends.
CallsReturn == /\ call # None ~> call = None \/ panicked
               /\ \A p \in Port : link[p] # None ~> link[p] = None \/ panicked

-----------------------------------------------------------------------------
(***************************************************************************)
(* What a comment of the code says and it does not do.                     *)
(***************************************************************************)
\* "Send IP Create Notification & L3 State Notification" (l3IntfMgr.go:606) at
\* the end of UpdateIPIntf: every update comes to it.
UpdatesNotified == ipCall # None ~> ipCall = None \/ panicked
=============================================================================
