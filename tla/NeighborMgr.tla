---------------------------- MODULE NeighborMgr ----------------------------
(***************************************************************************)
(* The neighbour manager (src/pluginManager/neighborMgr.go, with the       *)
(* per-family UpdateNbrDb of ipv4Mgr.go and ipv6Mgr.go) and the MAC table  *)
(* of the L2 manager (l2Mgr.go), which call each other: a MAC that moves   *)
(* re-programs the neighbours learned on it, a neighbour that goes takes   *)
(* the MAC entry it kept alive with it.                                    *)
(*                                                                         *)
(* Threads: one per thrift client (arpd, ndpd), each working on addresses  *)
(* of its own, and the SAI callback thread "fdb".  The neighbour manager   *)
(* has no lock, and RemoveMacIpAdjEntry does not take the one of the L2    *)
(* manager: a call is cut after each call it makes to the ASIC or to the   *)
(* next hop manager, and between its accesses to tables that other threads *)
(* use.  To look at an entry of one table and change it is one step.       *)
(*                                                                         *)
(* Abstractions.  All MACs are learned on one VLAN, none the default VLAN. *)
(* The flap counter, the state database and the notification to arpd/ndpd  *)
(* are left out.  The key list, which each client has to itself, changes   *)
(* with the table next to it.  ProcessMacMove walks the list as it was     *)
(* when the MAC moved (in the code a delete meanwhile moves the elements   *)
(* of that array down).  The VLAN and the port of a neighbour are passed on *)
(* and stored, and nothing here depends on them: they are left out.        *)
(***************************************************************************)
EXTENDS NextHopMgr, SequencesExt

CONSTANTS
  Client,      \* thrift clients
  Owner,       \* the client that owns each address
  Mac,
  Port,        \* the ports MACs are learned on
  None

ASSUME OwnerAssumption == Owner \in [NextHop -> Client]
ASSUME FdbAssumption == "fdb" \notin Client
ASSUME NbrNoneAssumption ==
  /\ None \notin Mac \cup Port
  /\ None \notin [port : Port, ipAdj : BOOLEAN]

Thread == Client \cup {"fdb"}

VARIABLES
  nbrDB,        \* ipv4NeighborDB and ipv6NeighborDB: the MAC of each
  nbrKeys,      \* ipv4NeighborDBKeys and ipv6NeighborDBKeys
  xref,         \* macAddrToIPNbrXref, <<>> where there is no entry
  linked,       \* the MACs that have an entry there, which may be empty
  macDB,        \* macEntries: port and ipAdj
  hwNbr,        \* the MAC of each neighbour entry of the ASIC
  learned,      \* the port each MAC is learned on in the ASIC
  at,           \* where each thread is in its call
  job,          \* what it works on
  todo,         \* addresses ProcessMacMove has not come to
  panicked      \* a slice expression went out of range

nbrVars == <<nbrDB, nbrKeys, xref, linked>>
l2Vars == <<macDB, learned>>
threadVars == <<at, job, todo>>
nbrMgrVars == <<nbrVars, l2Vars, hwNbr, threadVars, panicked>>

NbrMgrInit ==
  /\ nbrDB = [ip \in NextHop |-> None]
  /\ nbrKeys = <<>>
  /\ xref = [mac \in Mac |-> <<>>]
  /\ linked = {}
  /\ macDB = [mac \in Mac |-> None]
  /\ hwNbr = [ip \in NextHop |-> None]
  /\ learned = [mac \in Mac |-> None]
  /\ at = [t \in Thread |-> "idle"]
  /\ job = [t \in Thread |-> None]
  /\ todo = <<>>
  /\ panicked = FALSE

Begins(t, step, ip, mac) ==
  /\ at[t] = "idle"
  /\ at' = [at EXCEPT ![t] = step]
  /\ job' = [job EXCEPT ![t] = [ip |-> ip, mac |-> mac]]
  /\ UNCHANGED todo

Goes(t, to) ==
  /\ at' = [at EXCEPT ![t] = to]
  /\ UNCHANGED <<job, todo>>

\* A call returns; ProcessMacMove ignores what UpdateIPNeighbor returns.
Returns(t) ==
  /\ IF t = "fdb"
     THEN at' = [at EXCEPT ![t] = "move"] /\ UNCHANGED job
     ELSE at' = [at EXCEPT ![t] = "idle"] /\ job' = [job EXCEPT ![t] = None]
  /\ UNCHANGED todo

-----------------------------------------------------------------------------
(***************************************************************************)
(* CreateIPNeighbor.  A neighbour that exists is updated instead.  The     *)
(* ASIC refuses a second entry for an address.                             *)
(***************************************************************************)
CreateIPNeighbor(ip, mac) ==
  /\ Begins(Owner[ip], IF nbrDB[ip] = None THEN "hwCreate" ELSE "updNextHop",
            ip, mac)
  /\ UNCHANGED <<nhMgrVars, nbrVars, l2Vars, hwNbr, panicked>>

HwCreate(t) ==
  LET ip == job[t].ip
  IN /\ at[t] = "hwCreate"
     /\ IF hwNbr[ip] # None
        THEN Returns(t) /\ UNCHANGED hwNbr
        ELSE /\ Goes(t, "takeNextHop")
             /\ hwNbr' = [hwNbr EXCEPT ![ip] = job[t].mac]
     /\ UNCHANGED <<nhMgrVars, nbrVars, l2Vars, panicked>>

TakeNextHop(t) ==
  /\ at[t] = "takeNextHop"
  /\ Goes(t, "storeNew")
  /\ CreateNextHop(job[t].ip, "NBR_CREATE")
  /\ UNCHANGED <<nbrVars, l2Vars, hwNbr, panicked>>

StoreNew(t) ==
  LET j == job[t]
  IN /\ at[t] = "storeNew"
     /\ Goes(t, "link")
     /\ nbrDB' = [nbrDB EXCEPT ![j.ip] = j.mac]
     /\ nbrKeys' = Append(nbrKeys, j.ip)
     /\ UNCHANGED <<nhMgrVars, xref, linked, l2Vars, hwNbr, panicked>>

Link(t) ==
  LET j == job[t]
  IN /\ at[t] = "link"
     /\ Returns(t)
     /\ xref' = [xref EXCEPT ![j.mac] = Append(@, j.ip)]
     /\ linked' = linked \cup {j.mac}
     /\ UNCHANGED <<nhMgrVars, nbrDB, nbrKeys, l2Vars, hwNbr, panicked>>

-----------------------------------------------------------------------------
(***************************************************************************)
(* UpdateIPNeighbor, called by clients and by ProcessMacMove.  The next    *)
(* hop and the ASIC entry must exist; the ASIC has no next hop update.     *)
(***************************************************************************)
UpdateIPNeighbor(ip, mac) ==
  /\ nbrDB[ip] # None
  /\ Begins(Owner[ip], "updNextHop", ip, mac)
  /\ UNCHANGED <<nhMgrVars, nbrVars, l2Vars, hwNbr, panicked>>

UpdNextHop(t) ==
  /\ at[t] = "updNextHop"
  /\ IF job[t].ip \in nextHopDB THEN Goes(t, "hwUpdate")
                                ELSE Returns(t)
  /\ UNCHANGED <<nhMgrVars, nbrVars, l2Vars, hwNbr, panicked>>

HwUpdate(t) ==
  LET ip == job[t].ip
  IN /\ at[t] = "hwUpdate"
     /\ IF hwNbr[ip] = None
        THEN Returns(t) /\ UNCHANGED hwNbr
        ELSE /\ Goes(t, "storeUpdated")
             /\ hwNbr' = [hwNbr EXCEPT ![ip] = job[t].mac]
     /\ UNCHANGED <<nhMgrVars, nbrVars, l2Vars, panicked>>

\* Neither the keys nor the cross reference are touched by an update.
\* (Mutant: the keys are, as by a create.)
StoreUpdatedAppends(t) ==
  LET j == job[t]
  IN /\ at[t] = "storeUpdated"
     /\ Returns(t)
     /\ nbrDB' = [nbrDB EXCEPT ![j.ip] = j.mac]
     /\ nbrKeys' = Append(nbrKeys, j.ip)
     /\ UNCHANGED <<nhMgrVars, xref, linked, l2Vars, hwNbr, panicked>>

StoreUpdated(t) ==
  LET j == job[t]
  IN /\ at[t] = "storeUpdated"
     /\ Returns(t)
     /\ nbrDB' = [nbrDB EXCEPT ![j.ip] = j.mac]
     /\ UNCHANGED <<nhMgrVars, nbrKeys, xref, linked, l2Vars, hwNbr, panicked>>

-----------------------------------------------------------------------------
(***************************************************************************)
(* DeleteIPNeighbor.  The MAC is the one the database has.                 *)
(***************************************************************************)
DeleteIPNeighbor(ip) ==
  /\ nbrDB[ip] # None
  /\ Begins(Owner[ip], "hwDelete", ip, nbrDB[ip])
  /\ UNCHANGED <<nhMgrVars, nbrVars, l2Vars, hwNbr, panicked>>

HwDelete(t) ==
  LET ip == job[t].ip
  IN /\ at[t] = "hwDelete"
     /\ IF hwNbr[ip] = None THEN Returns(t)
                            ELSE Goes(t, "dropNextHop")
     /\ hwNbr' = [hwNbr EXCEPT ![ip] = None]
     /\ UNCHANGED <<nhMgrVars, nbrVars, l2Vars, panicked>>

\* busy are the next hops that routes in the ASIC use.
DropNextHop(t, busy) ==
  LET ip == job[t].ip
  IN /\ at[t] = "dropNextHop"
     /\ IF DeleteNextHopFails(ip, busy) THEN Returns(t)
                                        ELSE Goes(t, "forget")
     /\ DeleteNextHop(ip, busy)
     /\ UNCHANGED <<nbrVars, l2Vars, hwNbr, panicked>>

(***************************************************************************)
(* The loop that deletes ip from the list of its MAC: "break" leaves the   *)
(* switch, not the loop, which goes on over the original length of a list  *)
(* whose elements have moved down; learnedIps[idx+1:] panics when idx+1    *)
(* exceeds the shortened length.                                           *)
(***************************************************************************)
Removal(acc, i, ip) ==
  IF ~acc.ok \/ acc.array[i] # ip THEN acc
  ELSE IF i > acc.len THEN [acc EXCEPT !.ok = FALSE]
  ELSE [array |-> [k \in DOMAIN acc.array |->
                     IF k \in i .. (acc.len - 1) THEN acc.array[k + 1] ELSE acc.array[k]],
        len |-> acc.len - 1, ok |-> TRUE]

RemoveIp(ips, ip) ==
  LET after[i \in 0 .. Len(ips)] ==
        IF i = 0 THEN [array |-> ips, len |-> Len(ips), ok |-> TRUE]
        ELSE Removal(after[i - 1], i, ip)
  IN after[Len(ips)]

\* UpdateNbrDb, one table after the other: the neighbour,
Forget(t) ==
  /\ at[t] = "forget"
  /\ Goes(t, "unlist")
  /\ nbrDB' = [nbrDB EXCEPT ![job[t].ip] = None]
  /\ UNCHANGED <<nhMgrVars, nbrKeys, xref, linked, l2Vars, hwNbr, panicked>>

\* its place in the list of its MAC,
Unlist(t) ==
  LET j == job[t]
      rest == RemoveIp(xref[j.mac], j.ip)
  IN /\ at[t] = "unlist"
     /\ IF rest.ok
        THEN /\ xref' = [xref EXCEPT ![j.mac] = SubSeq(rest.array, 1, rest.len)]
             /\ linked' = linked \cup {j.mac}
             /\ Goes(t, IF rest.len = 0 THEN "dropAdj" ELSE "unkey")
             /\ UNCHANGED panicked
        ELSE /\ panicked' = TRUE
             /\ UNCHANGED <<xref, linked, threadVars>>
     /\ UNCHANGED <<nhMgrVars, nbrDB, nbrKeys, l2Vars, hwNbr>>

\* of the last one the MAC entry, if an aged MAC was kept for its neighbours
\* (RemoveMacIpAdjEntry),
DropAdj(t) ==
  LET mac == job[t].mac
  IN /\ at[t] = "dropAdj"
     /\ Goes(t, "unlink")
     /\ macDB' = IF macDB[mac] # None /\ macDB[mac].ipAdj
                 THEN [macDB EXCEPT ![mac] = None] ELSE macDB
     /\ UNCHANGED <<nhMgrVars, nbrVars, learned, hwNbr, panicked>>

\* and the cross reference, with whatever it lists by now,
Unlink(t) ==
  /\ at[t] = "unlink"
  /\ Goes(t, "unkey")
  /\ xref' = [xref EXCEPT ![job[t].mac] = <<>>]
  /\ linked' = linked \ {job[t].mac}
  /\ UNCHANGED <<nhMgrVars, nbrDB, nbrKeys, l2Vars, hwNbr, panicked>>

\* and the key.
Unkey(t) ==
  /\ at[t] = "unkey"
  /\ Returns(t)
  /\ nbrKeys' = RemoveFirst(nbrKeys, job[t].ip)
  /\ UNCHANGED <<nhMgrVars, nbrDB, xref, linked, l2Vars, hwNbr, panicked>>

-----------------------------------------------------------------------------
(***************************************************************************)
(* The SAI FDB callback (UpdateMacDB).  AddMacTableEntryState: a known MAC *)
(* on another port has moved; ProcessMacMove walks the list of addresses   *)
(* it has then.                                                            *)
(***************************************************************************)
FdbGoes(to, mac) ==
  /\ at' = [at EXCEPT !["fdb"] = to]
  /\ job' = [job EXCEPT !["fdb"] = [ip |-> None, mac |-> mac]]
  /\ UNCHANGED todo

FdbReturns ==
  /\ at' = [at EXCEPT !["fdb"] = "idle"]
  /\ job' = [job EXCEPT !["fdb"] = None]
  /\ UNCHANGED todo

MacLearned(mac, port) ==
  /\ at["fdb"] = "idle"
  /\ learned' = [learned EXCEPT ![mac] = port]
  /\ IF macDB[mac] # None /\ macDB[mac].port = port
     THEN UNCHANGED <<macDB, threadVars>>
     ELSE /\ macDB' = [macDB EXCEPT ![mac] = [port |-> port, ipAdj |-> FALSE]]
          /\ IF macDB[mac] = None THEN UNCHANGED threadVars
                                  ELSE FdbGoes("list", mac)
  /\ UNCHANGED <<nhMgrVars, nbrVars, hwNbr, panicked>>

ReadList ==
  /\ at["fdb"] = "list"
  /\ at' = [at EXCEPT !["fdb"] = "move"]
  /\ todo' = xref[job["fdb"].mac]
  /\ UNCHANGED <<nhMgrVars, nbrVars, l2Vars, hwNbr, job, panicked>>

\* DelMacTableEntryState: HasIpAdj looks whether the MAC has a cross reference;
\* the entry is dropped, or marked if it has (one that DropAdj took out
\* meanwhile is marked where nobody sees it).
MacAged(mac) ==
  /\ at["fdb"] = "idle"
  /\ learned[mac] # None
  /\ learned' = [learned EXCEPT ![mac] = None]
  /\ IF macDB[mac] = None THEN UNCHANGED threadVars
     ELSE FdbGoes(IF mac \in linked THEN "mark" ELSE "drop", mac)
  /\ UNCHANGED <<nhMgrVars, nbrVars, macDB, hwNbr, panicked>>

AgedEntry ==
  LET mac == job["fdb"].mac
  IN /\ \/ /\ at["fdb"] = "drop"
           /\ macDB' = [macDB EXCEPT ![mac] = None]
        \/ /\ at["fdb"] = "mark"
           /\ macDB' = IF macDB[mac] = None THEN macDB
                       ELSE [macDB EXCEPT ![mac].ipAdj = TRUE]
     /\ FdbReturns
     /\ UNCHANGED <<nhMgrVars, nbrVars, learned, hwNbr, panicked>>

\* The next address of ProcessMacMove; one that is no neighbour any more is
\* passed over.
MoveNext ==
  /\ at["fdb"] = "move"
  /\ todo # <<>>
  /\ todo' = Tail(todo)
  /\ at' = [at EXCEPT !["fdb"] = IF nbrDB[Head(todo)] = None THEN "move"
                                                             ELSE "updNextHop"]
  /\ job' = [job EXCEPT !["fdb"].ip = Head(todo)]
  /\ UNCHANGED <<nhMgrVars, nbrVars, l2Vars, hwNbr, panicked>>

MoveDone ==
  /\ at["fdb"] = "move"
  /\ todo = <<>>
  /\ FdbReturns
  /\ UNCHANGED <<nhMgrVars, nbrVars, l2Vars, hwNbr, panicked>>
=============================================================================
