------------------------------ MODULE L3Proofs ------------------------------
(***************************************************************************)
(* Proofs about L3System: the routes of the database keep their next hops  *)
(* and groups, and the drained ASIC and kernel have exactly those routes,  *)
(* although the neighbour manager takes and releases the same next hops.   *)
(*                                                                         *)
(* What RouteProofs shows of the route manager alone is not true here: a   *)
(* next hop may count more references than are held (a neighbour of a next *)
(* hop that exists counts two), a removal may be refused and leave an      *)
(* entry with count zero, and a create that is queued may be for a next    *)
(* hop that is gone by the time the ASIC gets it.  Such a create is always *)
(* followed by the delete of its prefix.  So the tables are only bounded   *)
(* (Loose), and the channel is only consistent at its live creates, those  *)
(* that no delete of the prefix follows.                                   *)
(*                                                                         *)
(* The last part is about NextHopPool, the same next hop manager under     *)
(* clients that keep to what they hold: there its tables are exact.        *)
(***************************************************************************)
EXTENDS L3System, RouteProofs, NextHopPool

-----------------------------------------------------------------------------
(***************************************************************************)
(* The neighbour manager's part in the counts.                             *)
(***************************************************************************)
Busy == {"hwCreate", "takeNextHop", "storeNew", "link", "updNextHop", "hwUpdate",
         "storeUpdated", "hwDelete", "dropNextHop", "forget", "unlist", "dropAdj",
         "unlink", "unkey"}
FdbStep == {"idle", "list", "move", "mark", "drop"}

\* The step of the call that the owner of ip is making on ip.
Where(ip) == IF at[Owner[ip]] # "idle" /\ job[Owner[ip]].ip = ip THEN at[Owner[ip]]
                                                                 ELSE "idle"

\* A thread that writes a neighbour entry of the ASIC knows the MAC.
MacKnown(t) == at[t] \in {"hwCreate", "updNextHop", "hwUpdate"} => job[t].mac \in Mac

\* A client works on addresses of its own; the callback thread only updates.
ThreadInv ==
  /\ at \in [Thread -> Busy \cup FdbStep] /\ DOMAIN job = Thread
  /\ \A c \in Client : at[c] # "idle" => /\ at[c] \in Busy /\ job[c].ip \in NextHop
                                         /\ Owner[job[c].ip] = c /\ MacKnown(c)
  /\ at["fdb"] # "idle" =>
       /\ at["fdb"] \in {"updNextHop", "hwUpdate", "storeUpdated"} \cup FdbStep
       /\ DOMAIN job["fdb"] = {"ip", "mac"} /\ job["fdb"].mac \in Mac
       /\ at["fdb"] = "hwUpdate" => job["fdb"].ip \in NextHop

NbrInv ==
  /\ ThreadInv
  /\ hwNbr \in [NextHop -> Mac \cup {None}]
  /\ \A ip \in NextHop : /\ Where(ip) = "takeNextHop" => hwNbr[ip] # None
                         /\ Where(ip) = "dropNextHop" => hwNbr[ip] = None

\* The next hops the neighbour manager holds a reference on: the neighbour entry
\* of the ASIC stands for it, from when it is taken to when it is given back.
Holding(ip) == Where(ip) = "dropNextHop" \/ (hwNbr[ip] # None /\ Where(ip) # "takeNextHop")
NbrHolds == {ip \in NextHop : Holding(ip)}

UseCount == [ip \in NextHop |-> SingleCount[ip] + (IF ip \in NbrHolds THEN 1 ELSE 0)]

\* The tables when s[ip] references on next hop ip and h[g] on group g are
\* held: both may count more, and a removal the ASIC refused leaves an entry
\* that counts none.
Loose(s, h) ==
  /\ NHMgrTypeOK
  /\ hwNextHop = nextHopDB /\ hwGroup = ipNextHopGroupDB
  /\ \A ip \in NextHop : /\ refCount[ip] >= s[ip] + Cardinality(Memberships(ip))
                         /\ refCount[ip] > 0 => ip \in nextHopDB
  /\ \A g \in Group : /\ grpRefCount[g] >= h[g]
                      /\ g \in ipNextHopGroupDB <=> grpRefCount[g] > 0

LNhInv == Loose(UseCount, HoldCount)

\* Only the route handler uses groups: what it read of one is still so.
GroupRefs ==
  /\ Deleting /\ ecmpGrpId[cur.prefix] # NoGroup => cur.refs = grpRefCount[ecmpGrpId[cur.prefix]]
  /\ Replacing /\ cur.refs = 1 => /\ grpRefCount[ecmpGrpId[cur.prefix]] = 1
                                  /\ Holders(ecmpGrpId[cur.prefix]) = {}

-----------------------------------------------------------------------------
(***************************************************************************)
(* The ASIC's channel.                                                     *)
(***************************************************************************)
\* No delete of its prefix follows message j.
Live(j) == \A k \in j + 1 .. Len(asicCh) :
             asicCh[k].op = "Del" => asicCh[k].prefix # asicCh[j].prefix

LiveSet == {j \in DOMAIN asicCh : Live(j)}

LiveInv == ChannelBase /\ Marked(LiveSet)

\* Prefix p, or a group, holds what target t refers to.
HeldTarget(p, t) ==
  \/ t.kind = "group" /\ t.nhs \in ipNextHopGroupDB
  \/ t.kind = "nh" /\ \E ip \in NextHop :
       /\ t.nhs = {ip}
       /\ ip \in SingleNh(p) \/ \E g \in ipNextHopGroupDB : ip \in g

LiveHeld ==
  \A j \in LiveSet : asicCh[j].op = "Add" => HeldTarget(asicCh[j].prefix, asicCh[j].target)

\* A route with one next hop is known by it: BusyNextHops finds it.
Plain(t) == t.kind = "nh" => \E ip \in NextHop : t.nhs = {ip}

HwInv == /\ \A p \in Prefix : Plain(hwRoute[p]) /\ Exists(hwRoute[p])
         /\ \A j \in DOMAIN asicCh : Plain(asicCh[j].target)

LInv == DbInv /\ LNhInv /\ GroupRefs /\ LiveInv /\ LiveHeld /\ HwInv /\ DoneInv
-----------------------------------------------------------------------------
(***************************************************************************)
(* The neighbour manager's steps.                                          *)
(***************************************************************************)
LEMMA ThreadFacts ==
  ASSUME ThreadInv, NEW t \in Thread, at[t] \in Busy
  PROVE  /\ MacKnown(t)
         /\ t \in Client => /\ job[t].ip \in NextHop /\ Owner[job[t].ip] = t
                            /\ Where(job[t].ip) = at[t]
         /\ t \notin Client => t = "fdb" /\ at[t] \in {"updNextHop", "hwUpdate", "storeUpdated"}
         /\ at[t] = "hwUpdate" => job[t].ip \in NextHop
<1>1. t \in Client \/ t = "fdb"
  BY DEF Thread
<1>2. CASE t \in Client
  <2>1. job[t].ip \in NextHop /\ Owner[job[t].ip] = t /\ MacKnown(t)
    BY <1>2 DEF ThreadInv, Busy
  <2> QED BY <1>2, <2>1 DEF Where, Busy
<1>3. CASE t \notin Client
  BY <1>1, <1>3 DEF ThreadInv, MacKnown, Busy, FdbStep
<1> QED BY <1>2, <1>3

\* A call goes on or, when to is "idle", returns.
Moves(t, to) ==
  \/ /\ Goes(t, to) /\ to \in Busy
     /\ t \notin Client => to \in {"hwUpdate", "storeUpdated"}
     /\ to = "hwUpdate" => job[t].ip \in NextHop /\ at[t] = "updNextHop"
     /\ to \notin {"hwCreate", "updNextHop"}
  \/ Returns(t) /\ to = "idle"

LEMMA MovesEffect ==
  ASSUME ThreadInv, NEW t \in Thread, at[t] \in Busy, NEW to, Moves(t, to)
  PROVE  /\ ThreadInv'
         /\ \A ip \in NextHop :
              Where(ip)' = IF t \in Client /\ job[t].ip = ip THEN to ELSE Where(ip)
<1>0. /\ t \in Client => /\ job[t].ip \in NextHop /\ Owner[job[t].ip] = t
                         /\ Where(job[t].ip) = at[t]
      /\ t \notin Client => t = "fdb"
      /\ MacKnown(t)
  BY ThreadFacts
<1>c. "fdb" \in Thread /\ "fdb" \notin Client /\ \A c \in Client : c \in Thread
  BY FdbAssumption DEF Thread
<1>w. \A ip \in NextHop : Owner[ip] \in Client
  BY OwnerAssumption
<1>1. CASE Goes(t, to) /\ to # "idle"
  <2>1. at' = [at EXCEPT ![t] = to] /\ job' = job
    BY <1>1 DEF Goes
  <2>2. /\ to \in Busy /\ (t \notin Client => to \in {"hwUpdate", "storeUpdated"})
        /\ to = "hwUpdate" => job[t].ip \in NextHop /\ at[t] = "updNextHop"
        /\ to \notin {"hwCreate", "updNextHop", "idle"}
    BY <1>1 DEF Moves, Busy
  <2>3. /\ at' \in [Thread -> Busy \cup FdbStep]
        /\ at'[t] = to /\ \A u \in Thread \ {t} : at'[u] = at[u]
    BY <2>1, <2>2 DEF ThreadInv
  <2>4. MacKnown(t)'
    BY <1>0, <2>1, <2>2, <2>3 DEF MacKnown
  <2>5. ASSUME NEW c \in Client, at'[c] # "idle"
        PROVE  at'[c] \in Busy /\ job'[c].ip \in NextHop /\ Owner[job'[c].ip] = c /\ MacKnown(c)'
    <3>1. CASE c = t
      BY <1>0, <2>1, <2>2, <2>3, <2>4, <3>1
    <3>2. CASE c # t
      <4>1. at'[c] = at[c] /\ job'[c] = job[c]
        BY <1>c, <2>1, <2>3, <3>2
      <4>2. at[c] \in Busy /\ job[c].ip \in NextHop /\ Owner[job[c].ip] = c /\ MacKnown(c)
        BY <2>5, <4>1 DEF ThreadInv
      <4> QED BY <4>1, <4>2 DEF MacKnown
    <3> QED BY <3>1, <3>2
  <2>6. ASSUME at'["fdb"] # "idle"
        PROVE  /\ at'["fdb"] \in {"updNextHop", "hwUpdate", "storeUpdated"} \cup FdbStep
               /\ DOMAIN job'["fdb"] = {"ip", "mac"} /\ job'["fdb"].mac \in Mac
               /\ at'["fdb"] = "hwUpdate" => job'["fdb"].ip \in NextHop
    <3>1. at["fdb"] # "idle"
      BY <1>c, <2>3, <2>6 DEF Busy
    <3> QED BY <1>c, <2>1, <2>2, <2>3, <3>1 DEF ThreadInv
  <2>7. ASSUME NEW ip \in NextHop
        PROVE  Where(ip)' = IF t \in Client /\ job[t].ip = ip THEN to ELSE Where(ip)
    BY <1>0, <1>c, <1>w, <2>1, <2>2, <2>3 DEF Where
  <2>8. DOMAIN job' = Thread
    BY <2>1 DEF ThreadInv
  <2> QED BY <2>3, <2>5, <2>6, <2>7, <2>8 DEF ThreadInv
<1>2. CASE Returns(t) /\ to = "idle" /\ t = "fdb"
  <2>1. at' = [at EXCEPT ![t] = "move"] /\ job' = job
    BY <1>2 DEF Returns
  <2>2. /\ at' \in [Thread -> Busy \cup FdbStep]
        /\ at'["fdb"] = "move" /\ \A u \in Client : at'[u] = at[u]
    BY <1>c, <1>2, <2>1 DEF ThreadInv, FdbStep
  <2>3. \A c \in Client : MacKnown(c)' <=> MacKnown(c)
    BY <2>1, <2>2 DEF MacKnown
  <2>4. ThreadInv'
    BY <1>0, <1>c, <1>2, <2>1, <2>2, <2>3 DEF ThreadInv, FdbStep, Busy
  <2> QED BY <1>c, <1>w, <1>2, <2>1, <2>2, <2>4 DEF Where
<1>3. CASE Returns(t) /\ to = "idle" /\ t # "fdb"
  <2>1. at' = [at EXCEPT ![t] = "idle"] /\ job' = [job EXCEPT ![t] = None]
    BY <1>3 DEF Returns
  <2>2. /\ at' \in [Thread -> Busy \cup FdbStep] /\ DOMAIN job' = Thread
        /\ at'[t] = "idle" /\ \A u \in Thread \ {t} : at'[u] = at[u] /\ job'[u] = job[u]
    BY <2>1 DEF ThreadInv, FdbStep
  <2>3. "fdb" \in Thread \ {t} /\ t \in Client
    BY <1>0, <1>c, <1>3
  <2>4. ASSUME NEW c \in Client, at'[c] # "idle"
        PROVE  at'[c] \in Busy /\ job'[c].ip \in NextHop /\ Owner[job'[c].ip] = c /\ MacKnown(c)'
    <3>1. at'[c] = at[c] /\ job'[c] = job[c]
      BY <1>c, <2>2, <2>4
    <3>2. at[c] \in Busy /\ job[c].ip \in NextHop /\ Owner[job[c].ip] = c /\ MacKnown(c)
      BY <2>4, <3>1 DEF ThreadInv
    <3> QED BY <3>1, <3>2 DEF MacKnown
  <2>5. at'["fdb"] = at["fdb"] /\ job'["fdb"] = job["fdb"]
    BY <2>2, <2>3
  <2>6. ThreadInv'
    BY <2>2, <2>4, <2>5 DEF ThreadInv
  <2>7. ASSUME NEW ip \in NextHop
        PROVE  Where(ip)' = IF job[t].ip = ip THEN "idle" ELSE Where(ip)
    <3>1. Owner[ip] \in Thread
      BY <1>c, <1>w
    <3>2. CASE Owner[ip] = t
      BY <1>w, <2>2, <3>2 DEF Where
    <3>3. CASE Owner[ip] # t
      BY <1>0, <2>2, <2>3, <3>1, <3>3 DEF Where
    <3> QED BY <3>2, <3>3
  <2> QED BY <1>3, <2>3, <2>6, <2>7
<1> QED BY <1>1, <1>2, <1>3 DEF Moves, Busy

LEMMA BeginsEffect ==
  ASSUME ThreadInv, NEW ip \in NextHop, NEW mac,
         NEW step \in {"hwCreate", "updNextHop", "hwDelete"}, step # "hwDelete" => mac \in Mac,
         Begins(Owner[ip], step, ip, mac)
  PROVE  /\ ThreadInv'
         /\ Where(ip) = "idle"
         /\ \A k \in NextHop : Where(k)' = IF k = ip THEN step ELSE Where(k)
<1>0. PICK c \in Client : c = Owner[ip]
  BY OwnerAssumption
<1>1. /\ c \in Thread /\ c # "fdb" /\ "fdb" \in Thread
      /\ step # "idle" /\ step \in Busy
      /\ \A d \in Client : d \in Thread
  BY FdbAssumption DEF Thread, Busy
<1>2. /\ at[c] = "idle" /\ at' = [at EXCEPT ![c] = step]
      /\ job' = [job EXCEPT ![c] = [ip |-> ip, mac |-> mac]]
  BY <1>0 DEF Begins
<1>3. /\ at' \in [Thread -> Busy \cup FdbStep] /\ DOMAIN job' = Thread
      /\ at'[c] = step /\ job'[c] = [ip |-> ip, mac |-> mac]
      /\ \A u \in Thread \ {c} : at'[u] = at[u] /\ job'[u] = job[u]
  BY <1>1, <1>2 DEF ThreadInv
<1>4. ThreadInv'
  <2>1. ASSUME NEW d \in Client, at'[d] # "idle"
        PROVE  at'[d] \in Busy /\ job'[d].ip \in NextHop /\ Owner[job'[d].ip] = d /\ MacKnown(d)'
    <3>1. CASE d = c
      BY <1>0, <1>1, <1>3, <3>1 DEF MacKnown
    <3>2. CASE d # c
      <4>1. at'[d] = at[d] /\ job'[d] = job[d]
        BY <1>1, <1>3, <3>2
      <4>2. at[d] \in Busy /\ job[d].ip \in NextHop /\ Owner[job[d].ip] = d /\ MacKnown(d)
        BY <2>1, <4>1 DEF ThreadInv
      <4> QED BY <4>1, <4>2 DEF MacKnown
    <3> QED BY <3>1, <3>2
  <2>2. at'["fdb"] = at["fdb"] /\ job'["fdb"] = job["fdb"]
    BY <1>1, <1>3
  <2> QED BY <1>3, <2>1, <2>2 DEF ThreadInv
<1>5. Where(ip) = "idle"
  BY <1>0, <1>2 DEF Where
<1>6. ASSUME NEW k \in NextHop
      PROVE  Where(k)' = IF k = ip THEN step ELSE Where(k)
  <2>1. Owner[k] \in Thread
    BY OwnerAssumption DEF Thread
  <2>2. CASE Owner[k] = c
    BY <1>0, <1>1, <1>2, <1>3, <2>2 DEF Where
  <2>3. CASE Owner[k] # c
    BY <1>0, <1>3, <2>1, <2>3 DEF Where
  <2> QED BY <2>2, <2>3
<1> QED BY <1>4, <1>5, <1>6

\* What a step of the neighbour manager does to the next hops it holds.
KeepsHolds == UNCHANGED nhMgrVars /\ NbrHolds' = NbrHolds
TakesHold == \E ip \in NextHop : /\ ip \notin NbrHolds /\ NbrHolds' = NbrHolds \cup {ip}
                                 /\ CreateNextHop(ip, "NBR_CREATE")
DropsHold == \E ip \in NextHop : /\ ip \in NbrHolds /\ NbrHolds' = NbrHolds \ {ip}
                                 /\ DeleteNextHop(ip, BusyNextHops)

\* A step in which no call takes or drops a next hop.
LEMMA NbrQuiet ==
  ASSUME NbrInv, ThreadInv', UNCHANGED nhMgrVars, hwNbr' \in [NextHop -> Mac \cup {None}],
         \A ip \in NextHop :
           /\ Holding(ip)' <=> Holding(ip)
           /\ Where(ip)' = "takeNextHop" => hwNbr'[ip] # None
           /\ Where(ip)' = "dropNextHop" => hwNbr'[ip] = None
  PROVE  NbrInv' /\ KeepsHolds
BY DEF NbrInv, KeepsHolds, NbrHolds

LEMMA StartEffect ==
  ASSUME NbrInv, NEW ip \in NextHop, NEW mac \in Mac,
         \/ CreateIPNeighbor(ip, mac)
         \/ UpdateIPNeighbor(ip, mac)
         \/ DeleteIPNeighbor(ip)
  PROVE  NbrInv' /\ KeepsHolds
<1>1. PICK step, m : /\ step \in {"hwCreate", "updNextHop", "hwDelete"}
                     /\ Begins(Owner[ip], step, ip, m)
                     /\ step # "hwDelete" => m \in Mac
  BY DEF CreateIPNeighbor, UpdateIPNeighbor, DeleteIPNeighbor
<1>2. UNCHANGED <<nhMgrVars, hwNbr>>
  BY DEF CreateIPNeighbor, UpdateIPNeighbor, DeleteIPNeighbor
<1>3. /\ ThreadInv' /\ Where(ip) = "idle"
      /\ \A k \in NextHop : Where(k)' = IF k = ip THEN step ELSE Where(k)
  BY <1>1, BeginsEffect DEF NbrInv
<1>4. \A k \in NextHop : /\ Holding(k)' <=> Holding(k)
                         /\ Where(k)' = "takeNextHop" => hwNbr'[k] # None
                         /\ Where(k)' = "dropNextHop" => hwNbr'[k] = None
  BY <1>1, <1>2, <1>3 DEF NbrInv, Holding
<1> QED BY <1>2, <1>3, <1>4, NbrQuiet DEF NbrInv

LEMMA HwCreateEffect ==
  ASSUME NbrInv, NEW t \in Thread, HwCreate(t)
  PROVE  NbrInv' /\ KeepsHolds
<1>0. PICK ip, mac : ip = job[t].ip /\ mac = job[t].mac
  OBVIOUS
<1>1. /\ at[t] = "hwCreate" /\ at[t] \in Busy /\ t \in Client /\ ip \in NextHop /\ mac \in Mac
      /\ Where(ip) = "hwCreate"
  BY <1>0, ThreadFacts DEF NbrInv, HwCreate, MacKnown, Busy
<1>2. UNCHANGED nhMgrVars
  BY DEF HwCreate
<1>3. CASE hwNbr[ip] # None
  <2>1. Moves(t, "idle") /\ UNCHANGED hwNbr
    BY <1>0, <1>3 DEF HwCreate, Moves
  <2>2. /\ ThreadInv'
        /\ \A k \in NextHop : Where(k)' = IF k = ip THEN "idle" ELSE Where(k)
    BY <1>0, <1>1, <2>1, MovesEffect DEF NbrInv
  <2>3. \A k \in NextHop : /\ Holding(k)' <=> Holding(k)
                           /\ Where(k)' = "takeNextHop" => hwNbr'[k] # None
                           /\ Where(k)' = "dropNextHop" => hwNbr'[k] = None
    BY <1>1, <2>1, <2>2 DEF NbrInv, Holding
  <2> QED BY <1>2, <2>1, <2>2, <2>3, NbrQuiet DEF NbrInv
<1>4. CASE hwNbr[ip] = None
  <2>1. Moves(t, "takeNextHop") /\ hwNbr' = [hwNbr EXCEPT ![ip] = mac]
    BY <1>0, <1>1, <1>4 DEF HwCreate, Moves, Busy
  <2>2. /\ ThreadInv'
        /\ \A k \in NextHop : Where(k)' = IF k = ip THEN "takeNextHop" ELSE Where(k)
    BY <1>0, <1>1, <2>1, MovesEffect DEF NbrInv
  <2>3. /\ hwNbr' \in [NextHop -> Mac \cup {None}] /\ mac # None
        /\ \A k \in NextHop : hwNbr'[k] = IF k = ip THEN mac ELSE hwNbr[k]
    BY <1>1, <2>1, NbrNoneAssumption DEF NbrInv
  <2>4. \A k \in NextHop : /\ Holding(k)' <=> Holding(k)
                           /\ Where(k)' = "takeNextHop" => hwNbr'[k] # None
                           /\ Where(k)' = "dropNextHop" => hwNbr'[k] = None
    BY <1>1, <1>4, <2>2, <2>3 DEF NbrInv, Holding
  <2> QED BY <1>2, <2>2, <2>3, <2>4, NbrQuiet
<1> QED BY <1>3, <1>4

LEMMA TakeNextHopEffect ==
  ASSUME NbrInv, NEW t \in Thread, TakeNextHop(t)
  PROVE  NbrInv' /\ TakesHold
<1>0. PICK ip : ip = job[t].ip
  OBVIOUS
<1>1. at[t] = "takeNextHop" /\ at[t] \in Busy /\ t \in Client /\ ip \in NextHop /\ Where(ip) = "takeNextHop"
  BY <1>0, ThreadFacts DEF NbrInv, TakeNextHop, Busy
<1>2. Moves(t, "storeNew") /\ UNCHANGED hwNbr /\ CreateNextHop(ip, "NBR_CREATE")
  BY <1>0, <1>1 DEF TakeNextHop, Moves, Busy
<1>3. /\ ThreadInv'
      /\ \A k \in NextHop : Where(k)' = IF k = ip THEN "storeNew" ELSE Where(k)
  BY <1>0, <1>1, <1>2, MovesEffect DEF NbrInv
<1>4. hwNbr[ip] # None
  BY <1>1 DEF NbrInv
<1>5. ~Holding(ip) /\ Holding(ip)' /\ \A k \in NextHop \ {ip} : Holding(k)' <=> Holding(k)
  BY <1>1, <1>2, <1>3, <1>4 DEF Holding
<1>6. \A k \in NextHop : /\ Where(k)' = "takeNextHop" => hwNbr'[k] # None
                         /\ Where(k)' = "dropNextHop" => hwNbr'[k] = None
  BY <1>2, <1>3 DEF NbrInv
<1>7. NbrInv'
  BY <1>2, <1>3, <1>6 DEF NbrInv
<1>8. ip \notin NbrHolds /\ NbrHolds' = NbrHolds \cup {ip}
  BY <1>1, <1>5 DEF NbrHolds
<1> QED BY <1>1, <1>2, <1>7, <1>8 DEF TakesHold

LEMMA HwUpdateEffect ==
  ASSUME NbrInv, NEW t \in Thread, HwUpdate(t)
  PROVE  NbrInv' /\ KeepsHolds
<1>0. PICK ip, mac : ip = job[t].ip /\ mac = job[t].mac
  OBVIOUS
<1>1. /\ at[t] = "hwUpdate" /\ at[t] \in Busy /\ ip \in NextHop /\ mac \in Mac
      /\ t \in Client => Where(ip) = "hwUpdate"
  BY <1>0, ThreadFacts DEF NbrInv, HwUpdate, MacKnown, Busy
<1>2. UNCHANGED nhMgrVars
  BY DEF HwUpdate
<1>3. CASE hwNbr[ip] = None
  <2>1. Moves(t, "idle") /\ UNCHANGED hwNbr
    BY <1>0, <1>3 DEF HwUpdate, Moves
  <2>2. /\ ThreadInv'
        /\ \A k \in NextHop : Where(k)' = IF t \in Client /\ k = ip THEN "idle" ELSE Where(k)
    BY <1>0, <1>1, <2>1, MovesEffect DEF NbrInv
  <2>3. \A k \in NextHop : /\ Holding(k)' <=> Holding(k)
                           /\ Where(k)' = "takeNextHop" => hwNbr'[k] # None
                           /\ Where(k)' = "dropNextHop" => hwNbr'[k] = None
    BY <1>1, <2>1, <2>2 DEF NbrInv, Holding
  <2> QED BY <1>2, <2>1, <2>2, <2>3, NbrQuiet DEF NbrInv
<1>4. CASE hwNbr[ip] # None
  <2>1. Moves(t, "storeUpdated") /\ hwNbr' = [hwNbr EXCEPT ![ip] = mac]
    BY <1>0, <1>1, <1>4 DEF HwUpdate, Moves, Busy
  <2>2. /\ ThreadInv'
        /\ \A k \in NextHop : Where(k)' = IF t \in Client /\ k = ip THEN "storeUpdated" ELSE Where(k)
    BY <1>0, <1>1, <2>1, MovesEffect DEF NbrInv
  <2>3. /\ hwNbr' \in [NextHop -> Mac \cup {None}] /\ mac # None
        /\ \A k \in NextHop : hwNbr'[k] = IF k = ip THEN mac ELSE hwNbr[k]
    BY <1>1, <2>1, NbrNoneAssumption DEF NbrInv
  <2>4. \A k \in NextHop : /\ Holding(k)' <=> Holding(k)
                           /\ Where(k)' = "takeNextHop" => hwNbr'[k] # None
                           /\ Where(k)' = "dropNextHop" => hwNbr'[k] = None
    BY <1>1, <1>4, <2>2, <2>3 DEF NbrInv, Holding
  <2> QED BY <1>2, <2>2, <2>3, <2>4, NbrQuiet
<1> QED BY <1>3, <1>4

LEMMA HwDeleteEffect ==
  ASSUME NbrInv, NEW t \in Thread, HwDelete(t)
  PROVE  NbrInv' /\ KeepsHolds
<1>0. PICK ip : ip = job[t].ip
  OBVIOUS
<1>1. at[t] = "hwDelete" /\ at[t] \in Busy /\ t \in Client /\ ip \in NextHop /\ Where(ip) = "hwDelete"
  BY <1>0, ThreadFacts DEF NbrInv, HwDelete, Busy
<1>2. UNCHANGED nhMgrVars
  BY DEF HwDelete
<1>3. PICK to \in {"idle", "dropNextHop"} :
        Moves(t, to) /\ (to = "dropNextHop" <=> hwNbr[ip] # None)
  BY <1>0, <1>1 DEF HwDelete, Moves, Busy
<1>4. /\ ThreadInv'
      /\ \A k \in NextHop : Where(k)' = IF k = ip THEN to ELSE Where(k)
  BY <1>0, <1>1, <1>3, MovesEffect DEF NbrInv
<1>5. /\ hwNbr' \in [NextHop -> Mac \cup {None}]
      /\ \A k \in NextHop : hwNbr'[k] = IF k = ip THEN None ELSE hwNbr[k]
  BY <1>0, <1>1 DEF NbrInv, HwDelete
<1>6. \A k \in NextHop : /\ Holding(k)' <=> Holding(k)
                         /\ Where(k)' = "takeNextHop" => hwNbr'[k] # None
                         /\ Where(k)' = "dropNextHop" => hwNbr'[k] = None
  BY <1>1, <1>3, <1>4, <1>5 DEF NbrInv, Holding
<1> QED BY <1>2, <1>4, <1>5, <1>6, NbrQuiet

LEMMA DropNextHopEffect ==
  ASSUME NbrInv, NEW t \in Thread, DropNextHop(t, BusyNextHops)
  PROVE  NbrInv' /\ DropsHold
<1>0. PICK ip : ip = job[t].ip
  OBVIOUS
<1>1. at[t] = "dropNextHop" /\ at[t] \in Busy /\ t \in Client /\ ip \in NextHop /\ Where(ip) = "dropNextHop"
  BY <1>0, ThreadFacts DEF NbrInv, DropNextHop, Busy
<1>2. UNCHANGED hwNbr /\ DeleteNextHop(ip, BusyNextHops)
  BY <1>0 DEF DropNextHop
<1>3. PICK to \in {"idle", "forget"} : Moves(t, to)
  BY <1>0, <1>1 DEF DropNextHop, Moves, Busy
<1>4. /\ ThreadInv'
      /\ \A k \in NextHop : Where(k)' = IF k = ip THEN to ELSE Where(k)
  BY <1>0, <1>1, <1>3, MovesEffect DEF NbrInv
<1>5. hwNbr[ip] = None
  BY <1>1 DEF NbrInv
<1>6. Holding(ip) /\ ~Holding(ip)' /\ \A k \in NextHop \ {ip} : Holding(k)' <=> Holding(k)
  BY <1>1, <1>2, <1>3, <1>4, <1>5 DEF Holding
<1>7. \A k \in NextHop : /\ Where(k)' = "takeNextHop" => hwNbr'[k] # None
                         /\ Where(k)' = "dropNextHop" => hwNbr'[k] = None
  BY <1>2, <1>3, <1>4 DEF NbrInv
<1>8. NbrInv'
  BY <1>2, <1>4, <1>7 DEF NbrInv
<1>9. ip \in NbrHolds /\ NbrHolds' = NbrHolds \ {ip}
  BY <1>1, <1>6 DEF NbrHolds
<1> QED BY <1>1, <1>2, <1>8, <1>9 DEF DropsHold

\* Steps that touch neither the ASIC's neighbours nor the next hops.
TableStep(t) ==
  \/ StoreNew(t) \/ Link(t) \/ UpdNextHop(t) \/ StoreUpdated(t)
  \/ Forget(t) \/ Unlist(t) \/ DropAdj(t) \/ Unlink(t) \/ Unkey(t)

LEMMA GoesEffect ==
  ASSUME NbrInv, NHMgrTypeOK, NEW t \in Thread, TableStep(t)
  PROVE  NbrInv' /\ KeepsHolds
<1>0. PICK ip : ip = job[t].ip
  OBVIOUS
<1>1. /\ at[t] \in Busy \ {"takeNextHop", "dropNextHop"}
      /\ UNCHANGED <<nhMgrVars, hwNbr>>
  BY DEF TableStep, StoreNew, Link, UpdNextHop, StoreUpdated, Forget, Unlist, DropAdj, Unlink,
         Unkey, Busy
<1>2. t \in Client => ip \in NextHop /\ Where(ip) = at[t]
  BY <1>0, <1>1, ThreadFacts DEF NbrInv
<1>3. \/ UNCHANGED threadVars
      \/ \E to \in {"idle", "hwUpdate", "link", "unlist", "dropAdj", "unlink", "unkey"} :
           Moves(t, to)
  <2>0. at[t] \notin {"updNextHop", "hwUpdate", "storeUpdated"} => t \in Client
    BY <1>1, ThreadFacts DEF NbrInv
  <2>1. CASE UpdNextHop(t)
    <3>1. at[t] = "updNextHop" /\ (ip \in nextHopDB => ip \in NextHop)
      BY <2>1 DEF UpdNextHop, NHMgrTypeOK
    <3> QED BY <1>0, <2>1, <3>1 DEF UpdNextHop, Moves, Busy
  <2>2. CASE StoreNew(t) \/ Link(t) \/ StoreUpdated(t)
    BY <2>0, <2>2 DEF StoreNew, Link, StoreUpdated, Moves, Busy
  <2>3. CASE Forget(t) \/ DropAdj(t) \/ Unlink(t) \/ Unkey(t)
    BY <2>0, <2>3 DEF Forget, DropAdj, Unlink, Unkey, Moves, Busy
  <2>4. CASE Unlist(t)
    <3>1. at[t] = "unlist" /\ (UNCHANGED threadVars \/ \E to \in {"dropAdj", "unkey"} : Goes(t, to))
      BY <2>4 DEF Unlist
    <3> QED BY <2>0, <3>1 DEF Moves, Busy
  <2> QED BY <2>1, <2>2, <2>3, <2>4 DEF TableStep
<1>4. /\ ThreadInv'
      /\ \A k \in NextHop :
           \/ Where(k)' = Where(k)
           \/ t \in Client /\ k = ip /\ Where(k)' \notin {"takeNextHop", "dropNextHop"}
  <2>1. CASE UNCHANGED threadVars
    <3>1. \A u : MacKnown(u)' <=> MacKnown(u)
      BY <2>1 DEF threadVars, MacKnown
    <3> QED BY <2>1, <3>1 DEF threadVars, NbrInv, ThreadInv, Where
  <2>2. CASE \E to \in {"idle", "hwUpdate", "link", "unlist", "dropAdj", "unlink", "unkey"} :
               Moves(t, to)
    <3>1. PICK to \in {"idle", "hwUpdate", "link", "unlist", "dropAdj", "unlink", "unkey"} :
            Moves(t, to)
      BY <2>2
    <3>2. /\ ThreadInv'
          /\ \A k \in NextHop : Where(k)' = IF t \in Client /\ k = ip THEN to ELSE Where(k)
      BY <1>0, <1>1, <3>1, MovesEffect DEF NbrInv
    <3> QED BY <3>1, <3>2
  <2> QED BY <1>3, <2>1, <2>2
<1>5. \A k \in NextHop : /\ Holding(k)' <=> Holding(k)
                         /\ Where(k)' = "takeNextHop" => hwNbr'[k] # None
                         /\ Where(k)' = "dropNextHop" => hwNbr'[k] = None
  BY <1>1, <1>2, <1>4 DEF NbrInv, Holding
<1> QED BY <1>1, <1>4, <1>5, NbrQuiet DEF NbrInv

\* The callback thread takes up, goes on with or leaves its work.
Callback ==
  \/ \E mac \in Mac : MacAged(mac) \/ \E port \in Port : MacLearned(mac, port)
  \/ ReadList
  \/ AgedEntry
  \/ MoveNext
  \/ MoveDone

LEMMA FdbMoves ==
  ASSUME NbrInv, UNCHANGED <<nhMgrVars, hwNbr>>, NEW to \in {"updNextHop"} \cup FdbStep, NEW j,
         at' = [at EXCEPT !["fdb"] = to],
         job' = [job EXCEPT !["fdb"] = j] \/ (job' = job /\ j = job["fdb"]),
         to # "idle" => DOMAIN j = {"ip", "mac"} /\ j.mac \in Mac
  PROVE  NbrInv' /\ KeepsHolds
<1>1. "fdb" \in Thread /\ "fdb" \notin Client /\ \A c \in Client : c \in Thread /\ c # "fdb"
  BY FdbAssumption DEF Thread
<1>2. /\ at' \in [Thread -> Busy \cup FdbStep] /\ DOMAIN job' = Thread
      /\ at'["fdb"] = to /\ job'["fdb"] = j
      /\ \A c \in Client : at'[c] = at[c] /\ job'[c] = job[c]
  BY <1>1 DEF NbrInv, ThreadInv, Busy
<1>3. ThreadInv'
  <2>1. \A c \in Client : MacKnown(c)' <=> MacKnown(c)
    BY <1>2 DEF MacKnown
  <2>2. to # "hwUpdate"
    BY DEF FdbStep
  <2> QED BY <1>1, <1>2, <2>1, <2>2 DEF NbrInv, ThreadInv
<1>4. \A k \in NextHop : Where(k)' = Where(k)
  BY <1>2, OwnerAssumption DEF Where
<1>5. \A k \in NextHop : /\ Holding(k)' <=> Holding(k)
                         /\ Where(k)' = "takeNextHop" => hwNbr'[k] # None
                         /\ Where(k)' = "dropNextHop" => hwNbr'[k] = None
  BY <1>4 DEF NbrInv, Holding
<1> QED BY <1>3, <1>5, NbrQuiet DEF NbrInv

LEMMA CallbackEffect ==
  ASSUME NbrInv, Callback
  PROVE  NbrInv' /\ KeepsHolds
<1>1. UNCHANGED <<nhMgrVars, hwNbr>>
  BY DEF Callback, MacLearned, MacAged, ReadList, AgedEntry, MoveNext, MoveDone
<1>2. CASE UNCHANGED threadVars
  <2>1. \A u : MacKnown(u)' <=> MacKnown(u)
    BY <1>2 DEF threadVars, MacKnown
  <2>2. ThreadInv' /\ \A k \in NextHop : Where(k)' = Where(k)
    BY <1>2, <2>1 DEF threadVars, NbrInv, ThreadInv, Where
  <2>3. \A k \in NextHop : /\ Holding(k)' <=> Holding(k)
                           /\ Where(k)' = "takeNextHop" => hwNbr'[k] # None
                           /\ Where(k)' = "dropNextHop" => hwNbr'[k] = None
    BY <1>1, <2>2 DEF NbrInv, Holding
  <2> QED BY <1>1, <2>2, <2>3, NbrQuiet DEF NbrInv
<1>3. ASSUME NEW mac \in Mac, NEW to \in {"list", "mark", "drop"}, FdbGoes(to, mac)
      PROVE  NbrInv' /\ KeepsHolds
  <2>1. PICK j : j = [ip |-> None, mac |-> mac]
    OBVIOUS
  <2>2. at' = [at EXCEPT !["fdb"] = to] /\ job' = [job EXCEPT !["fdb"] = j]
    BY <1>3, <2>1 DEF FdbGoes
  <2>3. DOMAIN j = {"ip", "mac"} /\ j.mac \in Mac /\ to \in FdbStep
    BY <2>1 DEF FdbStep
  <2> QED BY <1>1, <2>2, <2>3, FdbMoves
<1>4. CASE FdbReturns
  <2>1. PICK j : j = None
    OBVIOUS
  <2>2. at' = [at EXCEPT !["fdb"] = "idle"] /\ job' = [job EXCEPT !["fdb"] = j]
    BY <1>4, <2>1 DEF FdbReturns
  <2>3. "idle" \in FdbStep
    BY DEF FdbStep
  <2> QED BY <1>1, <2>2, <2>3, FdbMoves
<1>5. ASSUME at["fdb"] # "idle"
      PROVE  DOMAIN job["fdb"] = {"ip", "mac"} /\ job["fdb"].mac \in Mac
  BY <1>5 DEF NbrInv, ThreadInv
<1>6. CASE ReadList
  <2>1. PICK j : j = job["fdb"]
    OBVIOUS
  <2>2. /\ at' = [at EXCEPT !["fdb"] = "move"] /\ job' = job /\ at["fdb"] # "idle"
    BY <1>6, <2>1 DEF ReadList
  <2>3. "move" \in FdbStep
    BY DEF FdbStep
  <2> QED BY <1>1, <1>5, <2>1, <2>2, <2>3, FdbMoves
<1>7. CASE MoveNext
  <2>1. PICK j : j = [job["fdb"] EXCEPT !.ip = Head(todo)]
    OBVIOUS
  <2>2. at["fdb"] # "idle" /\ job' = [job EXCEPT !["fdb"] = j]
    BY <1>7, <2>1 DEF MoveNext
  <2>3. DOMAIN j = {"ip", "mac"} /\ j.mac \in Mac
    BY <1>5, <2>1, <2>2
  <2>4. PICK to \in {"move", "updNextHop"} : at' = [at EXCEPT !["fdb"] = to]
    BY <1>7 DEF MoveNext
  <2>5. to \in {"updNextHop"} \cup FdbStep
    BY DEF FdbStep
  <2> QED BY <1>1, <2>2, <2>3, <2>4, <2>5, FdbMoves
<1> QED BY <1>2, <1>3, <1>4, <1>6, <1>7
        DEF Callback, MacLearned, MacAged, AgedEntry, MoveDone

LEMMA NeighborsEffect ==
  ASSUME NbrInv, NHMgrTypeOK, Neighbors
  PROVE  NbrInv' /\ (KeepsHolds \/ TakesHold \/ DropsHold)
<1>1. CASE \E ip \in Attached, mac \in Mac :
             \/ CreateIPNeighbor(ip, mac) \/ UpdateIPNeighbor(ip, mac)
             \/ DeleteIPNeighbor(ip)
  BY <1>1, StartEffect, AttachedAssumption
<1>2. CASE Callback
  BY <1>2, CallbackEffect
<1>3. ASSUME NEW t \in Thread, HwCreate(t) \/ HwUpdate(t) \/ HwDelete(t) \/ TableStep(t)
      PROVE  NbrInv' /\ KeepsHolds
  BY <1>3, HwCreateEffect, HwUpdateEffect, HwDeleteEffect, GoesEffect
<1>4. ASSUME NEW t \in Thread, TakeNextHop(t) \/ DropNextHop(t, BusyNextHops)
      PROVE  NbrInv' /\ (TakesHold \/ DropsHold)
  BY <1>4, TakeNextHopEffect, DropNextHopEffect
<1> QED BY <1>1, <1>2, <1>3, <1>4 DEF Neighbors, Callback, TableStep

-----------------------------------------------------------------------------
(***************************************************************************)
(* The tables under each operation of the next hop manager.                *)
(***************************************************************************)
LEMMA LooseNat ==
  ASSUME NEW s, NEW h, Counts(s, h), Loose(s, h)
  PROVE  /\ \A ip \in NextHop :
              /\ refCount[ip] \in Nat /\ s[ip] \in Nat /\ Cardinality(Memberships(ip)) \in Nat
              /\ refCount[ip] >= s[ip] + Cardinality(Memberships(ip))
              /\ refCount[ip] > 0 => ip \in nextHopDB
         /\ \A g \in Group :
              /\ grpRefCount[g] \in Nat /\ h[g] \in Nat /\ grpRefCount[g] >= h[g]
              /\ g \in ipNextHopGroupDB <=> grpRefCount[g] > 0
<1>1. ASSUME NEW ip \in NextHop
      PROVE  /\ refCount[ip] \in Nat /\ s[ip] \in Nat /\ Cardinality(Memberships(ip)) \in Nat
             /\ refCount[ip] >= s[ip] + Cardinality(Memberships(ip))
             /\ refCount[ip] > 0 => ip \in nextHopDB
  <2>1. s[ip] \in Nat /\ Cardinality(Memberships(ip)) \in Nat
    BY MembershipsFinite DEF Loose, Counts
  <2>2. /\ refCount[ip] >= s[ip] + Cardinality(Memberships(ip)) /\ refCount[ip] \in Int
        /\ refCount[ip] > 0 => ip \in nextHopDB
    BY DEF Loose, NHMgrTypeOK
  <2> QED BY <2>1, <2>2
<1>2. ASSUME NEW g \in Group
      PROVE  /\ grpRefCount[g] \in Nat /\ h[g] \in Nat /\ grpRefCount[g] >= h[g]
             /\ g \in ipNextHopGroupDB <=> grpRefCount[g] > 0
  <2>1. h[g] \in Nat /\ grpRefCount[g] \in Int /\ grpRefCount[g] >= h[g]
    BY DEF Loose, Counts, NHMgrTypeOK
  <2> QED BY <2>1 DEF Loose
<1> QED BY <1>1, <1>2

LEMMA LooseSame ==
  ASSUME NEW s, NEW h, Loose(s, h), UNCHANGED nhMgrVars
  PROVE  Loose(s, h)'
BY DEF Loose, nhMgrVars, NHMgrTypeOK, Memberships

\* One reference is held more; a neighbour may count two.
LEMMA CreateNextHopLoose ==
  ASSUME NEW s, NEW h, Counts(s, h), Loose(s, h), NEW ip \in NextHop, NEW op,
         CreateNextHop(ip, op),
         NEW s2, Counts(s2, h), s2[ip] = s[ip] + 1, \A x \in NextHop \ {ip} : s2[x] = s[x]
  PROVE  Loose(s2, h)'
<1>1. /\ NHMgrTypeOK /\ hwNextHop = nextHopDB /\ hwGroup = ipNextHopGroupDB
      /\ \A x \in NextHop : /\ refCount[x] \in Nat /\ s[x] \in Nat
                            /\ refCount[x] >= s[x] + Cardinality(Memberships(x))
                            /\ Cardinality(Memberships(x)) \in Nat
                            /\ refCount[x] > 0 => x \in nextHopDB
  BY LooseNat DEF Loose
<1>2. /\ nextHopDB' = nextHopDB \cup {ip} /\ hwNextHop' = nextHopDB'
      /\ refCount' = [refCount EXCEPT ![ip] = IF ip \in nextHopDB THEN @ + ReferencesTaken(op) ELSE 1]
      /\ UNCHANGED <<ipNextHopGroupDB, grpRefCount, hwGroup>>
  BY <1>1 DEF CreateNextHop
<1>3. ReferencesTaken(op) \in {1, 2}
  BY DEF ReferencesTaken
<1>4. /\ refCount' \in [NextHop -> Int]
      /\ refCount'[ip] >= refCount[ip] + 1 /\ \A x \in NextHop \ {ip} : refCount'[x] = refCount[x]
  <2>1. /\ refCount' \in [NextHop -> Int]
        /\ refCount'[ip] = IF ip \in nextHopDB THEN refCount[ip] + ReferencesTaken(op) ELSE 1
        /\ \A x \in NextHop \ {ip} : refCount'[x] = refCount[x]
    BY <1>1, <1>2, <1>3 DEF NHMgrTypeOK
  <2>2. ip \notin nextHopDB => refCount[ip] = 0
    BY <1>1
  <2> QED BY <1>1, <1>3, <2>1, <2>2
<1>5. NHMgrTypeOK'
  BY <1>1, <1>2, <1>4 DEF NHMgrTypeOK
<1>6. \A x \in NextHop : Memberships(x)' = Memberships(x)
  BY <1>2 DEF Memberships
<1>7. \A x \in NextHop : /\ refCount'[x] >= s2[x] + Cardinality(Memberships(x)')
                         /\ refCount'[x] > 0 => x \in nextHopDB'
  <2> TAKE x \in NextHop
  <2>1. CASE x = ip
    BY <1>1, <1>2, <1>4, <1>6, <2>1
  <2>2. CASE x # ip
    BY <1>1, <1>2, <1>4, <1>6, <2>2
  <2> QED BY <2>1, <2>2
<1>8. \A g \in Group : grpRefCount'[g] >= h[g] /\ (g \in ipNextHopGroupDB' <=> grpRefCount'[g] > 0)
  BY <1>2 DEF Loose
<1> QED BY <1>1, <1>2, <1>5, <1>7, <1>8 DEF Loose

\* A reference is given back; the ASIC may keep the next hop.
LEMMA DeleteNextHopLoose ==
  ASSUME NEW s, NEW h, Counts(s, h), Loose(s, h), NEW ip \in NextHop, NEW busy,
         DeleteNextHop(ip, busy),
         NEW s2, Counts(s2, h), s[ip] = s2[ip] + 1, \A x \in NextHop \ {ip} : s2[x] = s[x]
  PROVE  Loose(s2, h)'
<1>1. /\ NHMgrTypeOK /\ hwNextHop = nextHopDB /\ hwGroup = ipNextHopGroupDB
      /\ \A x \in NextHop : /\ refCount[x] \in Nat /\ s[x] \in Nat /\ s2[x] \in Nat
                            /\ refCount[x] >= s[x] + Cardinality(Memberships(x))
                            /\ Cardinality(Memberships(x)) \in Nat
                            /\ refCount[x] > 0 => x \in nextHopDB
  BY LooseNat DEF Loose, Counts
<1>2. refCount[ip] >= 1 /\ ip \in nextHopDB
  BY <1>1
<1>3. /\ nextHopDB' = nextHopDB \/ (refCount[ip] = 1 /\ nextHopDB' = nextHopDB \ {ip})
      /\ hwNextHop' = nextHopDB'
      /\ refCount' = [refCount EXCEPT ![ip] = @ - 1]
      /\ UNCHANGED <<ipNextHopGroupDB, grpRefCount, hwGroup>>
  BY <1>1, <1>2 DEF DeleteNextHop, DropsNextHop
<1>4. /\ refCount' \in [NextHop -> Int]
      /\ refCount'[ip] = refCount[ip] - 1 /\ \A x \in NextHop \ {ip} : refCount'[x] = refCount[x]
  BY <1>1, <1>3 DEF NHMgrTypeOK
<1>5. NHMgrTypeOK'
  BY <1>1, <1>3, <1>4 DEF NHMgrTypeOK
<1>6. \A x \in NextHop : Memberships(x)' = Memberships(x)
  BY <1>3 DEF Memberships
<1>7. \A x \in NextHop : /\ refCount'[x] >= s2[x] + Cardinality(Memberships(x)')
                         /\ refCount'[x] > 0 => x \in nextHopDB'
  <2> TAKE x \in NextHop
  <2>1. CASE x = ip
    BY <1>1, <1>2, <1>3, <1>4, <1>6, <2>1
  <2>2. CASE x # ip
    BY <1>1, <1>3, <1>4, <1>6, <2>2
  <2> QED BY <2>1, <2>2
<1>8. \A g \in Group : grpRefCount'[g] >= h[g] /\ (g \in ipNextHopGroupDB' <=> grpRefCount'[g] > 0)
  BY <1>3 DEF Loose
<1> QED BY <1>1, <1>3, <1>5, <1>7, <1>8 DEF Loose

LEMMA TakeMembersLoose ==
  ASSUME NEW s, NEW h, Counts(s, h), Loose(s, h), NEW g \in Group,
         g \notin ipNextHopGroupDB, TakeMembers(g),
         ipNextHopGroupDB' = ipNextHopGroupDB \cup {g}, hwGroup' = hwGroup \cup {g},
         grpRefCount' \in [Group -> Int]
  PROVE  /\ NHMgrTypeOK' /\ hwNextHop' = nextHopDB' /\ hwGroup' = ipNextHopGroupDB'
         /\ nextHopDB \subseteq nextHopDB'
         /\ \A ip \in NextHop : /\ refCount'[ip] >= s[ip] + Cardinality(Memberships(ip)')
                                /\ refCount'[ip] > 0 => ip \in nextHopDB'
<1>1. /\ NHMgrTypeOK /\ hwNextHop = nextHopDB /\ hwGroup = ipNextHopGroupDB
      /\ \A x \in NextHop : /\ refCount[x] \in Nat /\ s[x] \in Nat
                            /\ refCount[x] >= s[x] + Cardinality(Memberships(x))
                            /\ Cardinality(Memberships(x)) \in Nat
                            /\ refCount[x] > 0 => x \in nextHopDB
  BY LooseNat DEF Loose
<1>2. /\ nextHopDB' = nextHopDB \cup g /\ hwNextHop' = hwNextHop \cup (g \ nextHopDB)
      /\ refCount' = [ip \in NextHop |-> IF ip \notin g THEN refCount[ip]
                                         ELSE IF ip \in nextHopDB THEN refCount[ip] + 1 ELSE 1]
  BY DEF TakeMembers
<1>3. \A ip \in NextHop : refCount'[ip] = refCount[ip] + (IF ip \in g THEN 1 ELSE 0)
  <2> TAKE ip \in NextHop
  <2>1. ip \notin nextHopDB => refCount[ip] = 0
    BY <1>1
  <2> QED BY <1>1, <1>2, <2>1
<1>4. NHMgrTypeOK'
  <2>1. refCount' \in [NextHop -> Int]
    BY <1>1, <1>2
  <2>2. g \subseteq NextHop
    BY DEF Group
  <2> QED BY <1>1, <1>2, <2>1, <2>2 DEF NHMgrTypeOK
<1>5. \A ip \in NextHop : Cardinality(Memberships(ip)') = Cardinality(Memberships(ip)) + (IF ip \in g THEN 1 ELSE 0)
  BY <1>1, MembershipsMore
<1>6. \A ip \in NextHop : /\ refCount'[ip] >= s[ip] + Cardinality(Memberships(ip)')
                          /\ refCount'[ip] > 0 => ip \in nextHopDB'
  BY <1>1, <1>2, <1>3, <1>5
<1> QED BY <1>1, <1>2, <1>4, <1>6

LEMMA CreateGroupLoose ==
  ASSUME NEW s, NEW h, Counts(s, h), Loose(s, h), NEW g \in Group, CreateNextHopGroup(g),
         NEW h2, Counts(s, h2), h2[g] = h[g] + 1, \A x \in Group \ {g} : h2[x] = h[x]
  PROVE  /\ Loose(s, h2)'
         /\ nextHopDB \subseteq nextHopDB' /\ ipNextHopGroupDB \subseteq ipNextHopGroupDB'
<1>1. /\ NHMgrTypeOK /\ hwNextHop = nextHopDB /\ hwGroup = ipNextHopGroupDB
      /\ \A x \in Group : /\ grpRefCount[x] \in Nat /\ h[x] \in Nat /\ grpRefCount[x] >= h[x]
                          /\ x \in ipNextHopGroupDB <=> grpRefCount[x] > 0
                          /\ x \notin ipNextHopGroupDB => grpRefCount[x] = 0
  BY LooseNat DEF Loose
<1>2. CASE ShareGroup(g)
  <2>1. /\ g \in ipNextHopGroupDB /\ grpRefCount' = [grpRefCount EXCEPT ![g] = @ + 1]
        /\ UNCHANGED <<nextHopDB, refCount, ipNextHopGroupDB, hwNextHop, hwGroup>>
    BY <1>2 DEF ShareGroup
  <2>2. /\ grpRefCount' \in [Group -> Int] /\ grpRefCount'[g] = grpRefCount[g] + 1
        /\ \A x \in Group \ {g} : grpRefCount'[x] = grpRefCount[x]
    BY <1>1, <2>1 DEF NHMgrTypeOK
  <2>3. NHMgrTypeOK'
    BY <1>1, <2>1, <2>2 DEF NHMgrTypeOK
  <2>4. \A x \in Group : grpRefCount'[x] >= h2[x] /\ (x \in ipNextHopGroupDB' <=> grpRefCount'[x] > 0)
    BY <1>1, <2>1, <2>2
  <2>5. \A ip \in NextHop : /\ refCount'[ip] >= s[ip] + Cardinality(Memberships(ip)')
                            /\ refCount'[ip] > 0 => ip \in nextHopDB'
    BY <2>1 DEF Loose, Memberships
  <2> QED BY <1>1, <2>1, <2>3, <2>4, <2>5 DEF Loose
<1>3. CASE NewGroup(g)
  <2>1. /\ g \notin ipNextHopGroupDB /\ TakeMembers(g)
        /\ ipNextHopGroupDB' = ipNextHopGroupDB \cup {g} /\ hwGroup' = hwGroup \cup {g}
        /\ grpRefCount' = [grpRefCount EXCEPT ![g] = 1]
    BY <1>3 DEF NewGroup
  <2>2. /\ grpRefCount' \in [Group -> Int] /\ grpRefCount'[g] = 1
        /\ \A x \in Group \ {g} : grpRefCount'[x] = grpRefCount[x]
    BY <1>1, <2>1 DEF NHMgrTypeOK
  <2>3. /\ NHMgrTypeOK' /\ hwNextHop' = nextHopDB' /\ hwGroup' = ipNextHopGroupDB'
        /\ nextHopDB \subseteq nextHopDB'
        /\ \A ip \in NextHop : /\ refCount'[ip] >= s[ip] + Cardinality(Memberships(ip)')
                               /\ refCount'[ip] > 0 => ip \in nextHopDB'
    BY <2>1, <2>2, TakeMembersLoose
  <2>4. \A x \in Group : grpRefCount'[x] >= h2[x] /\ (x \in ipNextHopGroupDB' <=> grpRefCount'[x] > 0)
    BY <1>1, <2>1, <2>2
  <2> QED BY <2>1, <2>3, <2>4 DEF Loose
<1> QED BY <1>2, <1>3 DEF CreateNextHopGroup

\* A holder moves from one group to another; the old one is never dropped.
LEMMA UpdateGroupLoose ==
  ASSUME NEW s, NEW h, Counts(s, h), Loose(s, h), NEW g \in Group, NEW new \in Group, g # new,
         UpdateNextHopGroup(g, new),
         NEW h2, Counts(s, h2), h[g] = h2[g] + 1, h2[new] = h[new] + 1,
         \A x \in Group \ {g, new} : h2[x] = h[x]
  PROVE  /\ Loose(s, h2)'
         /\ nextHopDB \subseteq nextHopDB' /\ ipNextHopGroupDB \subseteq ipNextHopGroupDB'
         /\ grpRefCount[g] = 1 => grpRefCount'[g] = 1
<1>1. /\ NHMgrTypeOK /\ hwNextHop = nextHopDB /\ hwGroup = ipNextHopGroupDB
      /\ \A x \in Group : /\ grpRefCount[x] \in Nat /\ h[x] \in Nat /\ h2[x] \in Nat
                          /\ grpRefCount[x] >= h[x]
                          /\ x \in ipNextHopGroupDB <=> grpRefCount[x] > 0
                          /\ x \notin ipNextHopGroupDB => grpRefCount[x] = 0
  BY LooseNat DEF Loose, Counts
<1>2. PICK kept : kept = IF grpRefCount[g] > 1 THEN [grpRefCount EXCEPT ![g] = @ - 1] ELSE grpRefCount
  OBVIOUS
<1>3. /\ kept \in [Group -> Int] /\ kept[g] = IF grpRefCount[g] > 1 THEN grpRefCount[g] - 1 ELSE grpRefCount[g]
      /\ \A x \in Group \ {g} : kept[x] = grpRefCount[x]
  BY <1>1, <1>2 DEF NHMgrTypeOK
<1>4. kept[g] > 0 /\ kept[g] >= h2[g] /\ g \in ipNextHopGroupDB
  BY <1>1, <1>3
<1>5. CASE new \in ipNextHopGroupDB
  <2>1. /\ grpRefCount' = [kept EXCEPT ![new] = @ + 1]
        /\ UNCHANGED <<nextHopDB, refCount, ipNextHopGroupDB, hwNextHop, hwGroup>>
    BY <1>2, <1>5 DEF UpdateNextHopGroup
  <2>2. /\ grpRefCount' \in [Group -> Int] /\ grpRefCount'[new] = grpRefCount[new] + 1
        /\ grpRefCount'[g] = kept[g]
        /\ \A x \in Group \ {g, new} : grpRefCount'[x] = grpRefCount[x]
    BY <1>3, <2>1
  <2>3. NHMgrTypeOK'
    BY <1>1, <2>1, <2>2 DEF NHMgrTypeOK
  <2>4. \A x \in Group : grpRefCount'[x] >= h2[x] /\ (x \in ipNextHopGroupDB' <=> grpRefCount'[x] > 0)
    BY <1>1, <1>4, <1>5, <2>1, <2>2
  <2>5. \A ip \in NextHop : /\ refCount'[ip] >= s[ip] + Cardinality(Memberships(ip)')
                            /\ refCount'[ip] > 0 => ip \in nextHopDB'
    BY <2>1 DEF Loose, Memberships
  <2> QED BY <1>1, <1>3, <2>1, <2>2, <2>3, <2>4, <2>5 DEF Loose
<1>6. CASE new \notin ipNextHopGroupDB
  <2>1. /\ TakeMembers(new)
        /\ ipNextHopGroupDB' = ipNextHopGroupDB \cup {new} /\ hwGroup' = hwGroup \cup {new}
        /\ grpRefCount' = [kept EXCEPT ![new] = 1]
    BY <1>2, <1>6 DEF UpdateNextHopGroup
  <2>2. /\ grpRefCount' \in [Group -> Int] /\ grpRefCount'[new] = 1
        /\ grpRefCount'[g] = kept[g]
        /\ \A x \in Group \ {g, new} : grpRefCount'[x] = grpRefCount[x]
    BY <1>3, <2>1
  <2>3. /\ NHMgrTypeOK' /\ hwNextHop' = nextHopDB' /\ hwGroup' = ipNextHopGroupDB'
        /\ nextHopDB \subseteq nextHopDB'
        /\ \A ip \in NextHop : /\ refCount'[ip] >= s[ip] + Cardinality(Memberships(ip)')
                               /\ refCount'[ip] > 0 => ip \in nextHopDB'
    BY <1>6, <2>1, <2>2, TakeMembersLoose
  <2>4. \A x \in Group : grpRefCount'[x] >= h2[x] /\ (x \in ipNextHopGroupDB' <=> grpRefCount'[x] > 0)
    BY <1>1, <1>4, <1>6, <2>1, <2>2
  <2> QED BY <1>3, <2>1, <2>2, <2>3, <2>4 DEF Loose
<1> QED BY <1>5, <1>6

\* A reference on a group is given back; with the last one the group goes, and
\* with it those members that nobody else counts and no route uses.
LEMMA DeleteGroupLoose ==
  ASSUME NEW s, NEW h, Counts(s, h), Loose(s, h), NEW g \in Group, NEW busy, NEW busyGroups,
         DeleteNextHopGroup(g, busy, busyGroups),
         grpRefCount[g] >= 1, grpRefCount[g] = 1 => g \notin busyGroups,
         NEW h2, Counts(s, h2), h2[g] <= grpRefCount[g] - 1, \A x \in Group \ {g} : h2[x] = h[x]
  PROVE  /\ Loose(s, h2)'
         /\ grpRefCount[g] # 1 => UNCHANGED <<nextHopDB, ipNextHopGroupDB>>
<1>1. /\ NHMgrTypeOK /\ hwNextHop = nextHopDB /\ hwGroup = ipNextHopGroupDB
      /\ \A x \in Group : /\ grpRefCount[x] \in Nat /\ h[x] \in Nat /\ h2[x] \in Nat
                          /\ grpRefCount[x] >= h[x]
                          /\ x \in ipNextHopGroupDB <=> grpRefCount[x] > 0
  BY LooseNat DEF Loose, Counts
<1>2. \A x \in NextHop : /\ refCount[x] \in Nat /\ s[x] \in Nat
                         /\ refCount[x] >= s[x] + Cardinality(Memberships(x))
                         /\ Cardinality(Memberships(x)) \in Nat
                         /\ refCount[x] > 0 => x \in nextHopDB
  BY <1>1, LooseNat
<1>3. g \in ipNextHopGroupDB /\ g \subseteq NextHop
  BY <1>1 DEF Group
<1>4. CASE grpRefCount[g] # 1
  <2>1. /\ grpRefCount' = [grpRefCount EXCEPT ![g] = @ - 1]
        /\ UNCHANGED <<nextHopDB, refCount, ipNextHopGroupDB, hwNextHop, hwGroup>>
    BY <1>3, <1>4 DEF DeleteNextHopGroup
  <2>2. /\ grpRefCount' \in [Group -> Int] /\ grpRefCount'[g] = grpRefCount[g] - 1
        /\ \A x \in Group \ {g} : grpRefCount'[x] = grpRefCount[x]
    BY <1>1, <2>1 DEF NHMgrTypeOK
  <2>3. NHMgrTypeOK'
    BY <1>1, <2>1, <2>2 DEF NHMgrTypeOK
  <2>4. \A x \in Group : grpRefCount'[x] >= h2[x] /\ (x \in ipNextHopGroupDB' <=> grpRefCount'[x] > 0)
    BY <1>1, <1>4, <2>1, <2>2
  <2>5. \A ip \in NextHop : /\ refCount'[ip] >= s[ip] + Cardinality(Memberships(ip)')
                            /\ refCount'[ip] > 0 => ip \in nextHopDB'
    BY <2>1 DEF Loose, Memberships
  <2> QED BY <1>1, <1>4, <2>1, <2>3, <2>4, <2>5 DEF Loose
<1>5. CASE grpRefCount[g] = 1
  <2>1. /\ ReleaseMembers(g, busy)
        /\ ipNextHopGroupDB' = ipNextHopGroupDB \ {g} /\ hwGroup' = hwGroup \ {g}
        /\ grpRefCount' = [grpRefCount EXCEPT ![g] = 0]
    BY <1>3, <1>5 DEF DeleteNextHopGroup
  <2>2. PICK gone : gone = {ip \in g : DropsNextHop(ip, hwGroup \ {g}, busy)}
    OBVIOUS
  <2>3. \A ip \in NextHop : Cardinality(Memberships(ip)') = Cardinality(Memberships(ip)) - (IF ip \in g THEN 1 ELSE 0)
    BY <1>1, <1>3, <2>1, MembershipsLess
  <2>4. ASSUME NEW ip \in g
        PROVE  ip \in NextHop /\ refCount[ip] >= 1 /\ ip \in nextHopDB /\ (ip \in gone => refCount[ip] = 1)
    <3>1. ip \in NextHop
      BY <1>3
    <3>2. Cardinality(Memberships(ip)) # 0
      BY <1>1, <1>3, <3>1, MembershipsFinite
    <3>3. refCount[ip] >= 1 /\ ip \in nextHopDB
      BY <1>2, <3>1, <3>2
    <3> QED BY <2>2, <3>1, <3>3 DEF DropsNextHop
  <2>5. /\ nextHopDB' = nextHopDB \ gone /\ hwNextHop' = nextHopDB'
        /\ refCount' = [ip \in NextHop |-> IF ip \in g \cap nextHopDB THEN refCount[ip] - 1 ELSE refCount[ip]]
    BY <1>1, <2>1, <2>2 DEF ReleaseMembers
  <2>6. /\ refCount' \in [NextHop -> Int]
        /\ \A ip \in NextHop : refCount'[ip] = refCount[ip] - (IF ip \in g THEN 1 ELSE 0)
    BY <1>2, <2>4, <2>5
  <2>7. \A ip \in NextHop : /\ refCount'[ip] >= s[ip] + Cardinality(Memberships(ip)')
                            /\ refCount'[ip] > 0 => ip \in nextHopDB'
    <3> TAKE ip \in NextHop
    <3>1. CASE ip \in g
      BY <1>2, <2>3, <2>4, <2>5, <2>6, <3>1
    <3>2. CASE ip \notin g
      <4>1. ip \notin gone
        BY <2>2, <3>2
      <4> QED BY <1>2, <2>3, <2>5, <2>6, <3>2, <4>1
    <3> QED BY <3>1, <3>2
  <2>8. /\ grpRefCount' \in [Group -> Int] /\ grpRefCount'[g] = 0
        /\ \A x \in Group \ {g} : grpRefCount'[x] = grpRefCount[x]
    BY <1>1, <2>1 DEF NHMgrTypeOK
  <2>9. \A x \in Group : grpRefCount'[x] >= h2[x] /\ (x \in ipNextHopGroupDB' <=> grpRefCount'[x] > 0)
    BY <1>1, <1>5, <2>1, <2>8
  <2>10. NHMgrTypeOK'
    BY <1>1, <2>1, <2>5, <2>6, <2>8 DEF NHMgrTypeOK
  <2> QED BY <1>1, <1>5, <2>1, <2>5, <2>7, <2>9, <2>10 DEF Loose
<1> QED BY <1>4, <1>5

-----------------------------------------------------------------------------
(***************************************************************************)
(* What is held exists.                                                    *)
(***************************************************************************)
LEMMA UseIs ==
  /\ Counts(UseCount, HoldCount) /\ Counts(UseCount', HoldCount')
  /\ \A x \in NextHop : UseCount[x] = SingleCount[x] + (IF x \in NbrHolds THEN 1 ELSE 0)
  /\ \A x \in NextHop : UseCount'[x] = SingleCount'[x] + (IF x \in NbrHolds' THEN 1 ELSE 0)
<1>1. /\ \A x \in NextHop : SingleCount[x] \in Nat /\ SingleCount'[x] \in Nat
      /\ HoldCount \in [Group -> Nat] /\ HoldCount' \in [Group -> Nat]
  BY HoldingsCounts, HoldingsNext DEF Counts
<1>2. /\ UseCount = [x \in NextHop |-> SingleCount[x] + (IF x \in NbrHolds THEN 1 ELSE 0)]
      /\ UseCount' = [x \in NextHop |-> SingleCount'[x] + (IF x \in NbrHolds' THEN 1 ELSE 0)]
  BY DEF UseCount
<1> QED BY <1>1, <1>2 DEF Counts

LEMMA UseSame ==
  ASSUME NbrHolds' = NbrHolds, \A q \in Prefix : SingleNh(q)' = SingleNh(q)
  PROVE  UseCount' = UseCount
BY SinglesSame DEF UseCount

LEMMA LNhNext ==
  ASSUME NEW s, NEW h, s = UseCount', h = HoldCount', Loose(s, h)'
  PROVE  LNhInv'
BY DEF LNhInv, Loose

\* A step that holds what was held.
LEMMA LNhSame ==
  ASSUME LNhInv, UNCHANGED nhMgrVars, NbrHolds' = NbrHolds,
         \A q \in Prefix : SingleNh(q)' = SingleNh(q) /\ HeldGroup(q)' = HeldGroup(q)
  PROVE  LNhInv'
<1>1. PICK s, h : s = UseCount /\ h = HoldCount
  OBVIOUS
<1>2. s = UseCount' /\ h = HoldCount' /\ Loose(s, h)
  BY <1>1, UseSame, HoldersSame DEF LNhInv
<1>3. Loose(s, h)'
  BY <1>2, LooseSame
<1> QED BY <1>2, <1>3, LNhNext

LEMMA LooseHeld ==
  DbInv /\ LNhInv =>
    \A q \in Prefix :
      /\ \A ip \in SingleNh(q) : ip \in NextHop /\ ip \in nextHopDB /\ SingleCount[ip] >= 1
      /\ HeldGroup(q) # NoGroup => /\ HeldGroup(q) \in Group /\ HeldGroup(q) \in ipNextHopGroupDB
                                   /\ HoldCount[HeldGroup(q)] >= 1
<1> SUFFICES ASSUME DbInv, LNhInv, NEW q \in Prefix
             PROVE  /\ \A ip \in SingleNh(q) : ip \in NextHop /\ ip \in nextHopDB /\ SingleCount[ip] >= 1
                    /\ HeldGroup(q) # NoGroup => /\ HeldGroup(q) \in Group /\ HeldGroup(q) \in ipNextHopGroupDB
                                                 /\ HoldCount[HeldGroup(q)] >= 1
  OBVIOUS
<1>1. SingleNh(q) \subseteq NextHop /\ HeldGroup(q) \subseteq NextHop
  BY DEF DbInv, DbType, SingleNh, HeldGroup, Mine, Adding, Deleting
<1>2. PICK s, h : s = UseCount /\ h = HoldCount
  OBVIOUS
<1>3. Counts(s, h) /\ Loose(s, h)
  BY <1>2, UseIs DEF LNhInv
<1>4. ASSUME NEW ip \in SingleNh(q)
      PROVE  ip \in NextHop /\ ip \in nextHopDB /\ SingleCount[ip] >= 1
  <2>1. ip \in NextHop /\ q \in Singles(ip)
    BY <1>1, <1>4 DEF Singles
  <2>2. Cardinality(Singles(ip)) # 0
    BY <2>1, HoldingsFinite, FS_EmptySet
  <2>3. SingleCount[ip] >= 1 /\ SingleCount[ip] \in Nat
    BY <2>1, <2>2, HoldingsFinite DEF SingleCount
  <2>4. s[ip] >= 1
    BY <1>2, <2>1, <2>3, UseIs
  <2>5. /\ refCount[ip] \in Nat /\ s[ip] \in Nat /\ Cardinality(Memberships(ip)) \in Nat
        /\ refCount[ip] >= s[ip] + Cardinality(Memberships(ip))
        /\ refCount[ip] > 0 => ip \in nextHopDB
    BY <1>3, <2>1, LooseNat
  <2> QED BY <2>1, <2>3, <2>4, <2>5
<1>5. ASSUME HeldGroup(q) # NoGroup
      PROVE  /\ HeldGroup(q) \in Group /\ HeldGroup(q) \in ipNextHopGroupDB
             /\ HoldCount[HeldGroup(q)] >= 1
  <2>1. PICK g : g = HeldGroup(q)
    OBVIOUS
  <2>2. g \in Group /\ q \in Holders(g)
    <3>1. g \subseteq NextHop /\ g # {}
      BY <1>1, <1>5, <2>1 DEF NoGroup
    <3>2. g \in Group
      BY <3>1 DEF Group
    <3>3. q \in Holders(g)
      BY <2>1 DEF Holders
    <3> QED BY <3>2, <3>3
  <2>3. Cardinality(Holders(g)) # 0
    BY <2>2, HoldingsFinite, FS_EmptySet
  <2>4. HoldCount[g] >= 1 /\ HoldCount[g] \in Nat
    BY <2>2, <2>3, HoldingsFinite DEF HoldCount
  <2>5. grpRefCount[g] >= h[g] /\ grpRefCount[g] \in Nat /\ (g \in ipNextHopGroupDB <=> grpRefCount[g] > 0)
    BY <1>3, <2>2, LooseNat
  <2> QED BY <1>2, <2>1, <2>2, <2>4, <2>5
<1> QED BY <1>4, <1>5

\* The members of a group exist.
LEMMA MembersExist ==
  LNhInv => \A g \in ipNextHopGroupDB : \A ip \in g : ip \in NextHop /\ ip \in nextHopDB
<1> SUFFICES ASSUME LNhInv, NEW g \in ipNextHopGroupDB, NEW ip \in g
             PROVE  ip \in NextHop /\ ip \in nextHopDB
  OBVIOUS
<1>1. PICK s, h : s = UseCount /\ h = HoldCount
  OBVIOUS
<1>2. Counts(s, h) /\ Loose(s, h) /\ NHMgrTypeOK
  BY <1>1, UseIs DEF LNhInv, Loose
<1>3. ip \in NextHop
  BY <1>2 DEF NHMgrTypeOK, Group
<1>4. Cardinality(Memberships(ip)) # 0
  BY <1>2, <1>3, MembershipsFinite
<1>5. /\ refCount[ip] \in Nat /\ s[ip] \in Nat /\ Cardinality(Memberships(ip)) \in Nat
      /\ refCount[ip] >= s[ip] + Cardinality(Memberships(ip))
      /\ refCount[ip] > 0 => ip \in nextHopDB
  BY <1>2, <1>3, LooseNat
<1> QED BY <1>3, <1>4, <1>5

LEMMA HeldTargetExists ==
  ASSUME DbInv, LNhInv, NEW q \in Prefix, NEW t, HeldTarget(q, t)
  PROVE  Exists(t)
<1>1. hwNextHop = nextHopDB /\ hwGroup = ipNextHopGroupDB
  BY DEF LNhInv, Loose
<1>2. CASE t.kind = "group"
  BY <1>1, <1>2 DEF HeldTarget, Exists
<1>3. CASE t.kind = "nh"
  <2>1. PICK ip \in NextHop : t.nhs = {ip} /\ (ip \in SingleNh(q) \/ \E g \in ipNextHopGroupDB : ip \in g)
    BY <1>3 DEF HeldTarget
  <2>2. ip \in nextHopDB
    BY <2>1, LooseHeld, MembersExist
  <2> QED BY <1>1, <1>3, <2>1, <2>2 DEF Exists
<1> QED BY <1>2, <1>3 DEF HeldTarget

\* Between operations what was asked for a prefix is what it holds.
LEMMA SettledHeld ==
  DbInv /\ LNhInv =>
    \A q \in Prefix : ~Mine(q) =>
      AskedTarget(q) = NoRoute \/ (Plain(AskedTarget(q)) /\ HeldTarget(q, AskedTarget(q)))
<1> SUFFICES ASSUME DbInv, LNhInv, NEW q \in Prefix, ~Mine(q), AskedTarget(q) # NoRoute
             PROVE  Plain(AskedTarget(q)) /\ HeldTarget(q, AskedTarget(q))
  OBVIOUS
<1>1. CASE \E ip \in SingleNh(q) : AskedTarget(q) = [kind |-> "nh", nhs |-> {ip}]
  <2>1. PICK ip \in SingleNh(q) : AskedTarget(q) = [kind |-> "nh", nhs |-> {ip}]
    BY <1>1
  <2>2. ip \in NextHop
    BY LooseHeld
  <2> QED BY <2>1, <2>2 DEF Plain, HeldTarget
<1>2. CASE HeldGroup(q) # NoGroup /\ AskedTarget(q) = GroupTarget(HeldGroup(q))
  BY <1>2, LooseHeld DEF Plain, HeldTarget, GroupTarget
<1> QED BY <1>1, <1>2, SettledAsked

-----------------------------------------------------------------------------
(***************************************************************************)
(* What the ASIC's routes use exists.                                      *)
(***************************************************************************)
\* What the routes of the ASIC use is not removed.
KeepsBusy ==
  /\ \A ip \in BusyNextHops : ip \in hwNextHop => ip \in hwNextHop'
  /\ \A g \in BusyGroups : g \in hwGroup => g \in hwGroup'

LEMMA HwExists ==
  ASSUME HwInv, ChannelBase, UNCHANGED hwRoute, KeepsBusy, NEW p \in Prefix
  PROVE  Plain(hwRoute'[p]) /\ Exists(hwRoute[p])'
<1>1. /\ Plain(hwRoute[p]) /\ Exists(hwRoute[p]) /\ hwRoute[p] \in Target
      /\ Forwards(hwRoute[p]) \/ hwRoute[p] = NoRoute
  BY DEF HwInv, ChannelBase
<1>2. CASE hwRoute[p].kind = "nh"
  <2>1. PICK ip \in NextHop : hwRoute[p].nhs = {ip}
    BY <1>1, <1>2 DEF Plain
  <2>2. hwRoute[p] = [kind |-> "nh", nhs |-> {ip}]
    BY <1>1, <1>2, <2>1 DEF Target
  <2>3. ip \in BusyNextHops /\ ip \in hwNextHop
    BY <1>1, <1>2, <2>1, <2>2 DEF BusyNextHops, Exists
  <2> QED BY <1>1, <1>2, <2>1, <2>3 DEF KeepsBusy, Exists
<1>3. CASE hwRoute[p].kind = "group"
  <2>1. hwRoute[p].nhs \in BusyGroups /\ hwRoute[p].nhs \in hwGroup
    BY <1>1, <1>3 DEF BusyGroups, Exists
  <2> QED BY <1>1, <1>3, <2>1 DEF KeepsBusy, Exists
<1>4. CASE hwRoute[p] = NoRoute
  BY <1>1, <1>4 DEF Exists, NoRoute
<1> QED BY <1>1, <1>2, <1>3, <1>4 DEF Forwards

LEMMA HwKept ==
  ASSUME HwInv, ChannelBase, UNCHANGED <<asicCh, hwRoute>>, KeepsBusy
  PROVE  HwInv'
<1>1. \A p \in Prefix : Plain(hwRoute'[p]) /\ Exists(hwRoute[p])'
  BY HwExists
<1>2. \A j \in DOMAIN asicCh : Plain(asicCh[j].target)
  BY DEF HwInv
<1> QED BY <1>1, <1>2 DEF HwInv, Plain

LEMMA HwSent ==
  ASSUME HwInv, ChannelBase, UNCHANGED hwRoute, KeepsBusy,
         NEW m, ToAsic(m), Plain(m.target)
  PROVE  HwInv'
<1>1. \A p \in Prefix : Plain(hwRoute'[p]) /\ Exists(hwRoute[p])'
  BY HwExists
<1>2. asicCh \in Seq(Message) /\ asicCh' = Append(asicCh, m)
  BY DEF ChannelBase, ToAsic
<1>3. PICK n \in Nat : n = Len(asicCh) /\ DOMAIN asicCh = 1 .. n
  BY AsicSeq
<1>4. /\ DOMAIN asicCh' = 1 .. n + 1 /\ asicCh'[n + 1] = m
      /\ \A i \in 1 .. n : asicCh'[i] = asicCh[i]
  BY <1>2, <1>3, AppendProperties, LenProperties
<1>5. \A j \in DOMAIN asicCh' : Plain(asicCh'[j].target)
  <2> TAKE j \in DOMAIN asicCh'
  <2>1. CASE j = n + 1
    BY <1>4, <2>1
  <2>2. CASE j # n + 1
    <3>1. j \in 1 .. n
      BY <1>3, <1>4, <2>2
    <3> QED BY <1>3, <1>4, <3>1 DEF HwInv
  <2> QED BY <2>1, <2>2
<1> QED BY <1>1, <1>5 DEF HwInv, Plain

LEMMA DeleteNextHopKeeps ==
  ASSUME NEW ip, DeleteNextHop(ip, BusyNextHops)
  PROVE  KeepsBusy
BY DEF DeleteNextHop, DropsNextHop, NextHopInUse, KeepsBusy

LEMMA DeleteGroupKeeps ==
  ASSUME NEW g, DeleteNextHopGroup(g, BusyNextHops, BusyGroups)
  PROVE  KeepsBusy
<1>1. CASE g \in ipNextHopGroupDB /\ grpRefCount[g] = 1 /\ g \notin BusyGroups
  <2>1. /\ hwNextHop' = hwNextHop \ {ip \in g : DropsNextHop(ip, hwGroup \ {g}, BusyNextHops)}
        /\ hwGroup' = hwGroup \ {g}
    BY <1>1 DEF DeleteNextHopGroup, ReleaseMembers
  <2> QED BY <1>1, <2>1 DEF DropsNextHop, NextHopInUse, KeepsBusy
<1>2. CASE ~(g \in ipNextHopGroupDB /\ grpRefCount[g] = 1 /\ g \notin BusyGroups)
  BY <1>2 DEF DeleteNextHopGroup, KeepsBusy
<1> QED BY <1>1, <1>2

LEMMA GrowingKeeps ==
  ASSUME LNhInv, LNhInv',
         nextHopDB \subseteq nextHopDB', ipNextHopGroupDB \subseteq ipNextHopGroupDB'
  PROVE  KeepsBusy
BY DEF LNhInv, Loose, KeepsBusy

-----------------------------------------------------------------------------
(***************************************************************************)
(* The live creates.                                                       *)
(***************************************************************************)
\* A prefix with a live create is asked to have a route.
LEMMA LiveAsked ==
  ASSUME ChannelBase, NEW j \in LiveSet, asicCh[j].op = "Add", NEW q, q = asicCh[j].prefix
  PROVE  AskedTarget(q) # NoRoute
<1>1. PICK n \in Nat : /\ n = Len(asicCh) /\ Len(AsicKeyOf) = n /\ DOMAIN asicCh = 1 .. n
                       /\ \A i \in 1 .. n : AsicKeyOf[i] = asicCh[i].prefix /\ asicCh[i] \in Message
  BY AsicSeq
<1>2. j \in 1 .. n /\ Live(j) /\ AsicKeyOf[j] = q /\ q \in Prefix
  BY <1>1 DEF LiveSet, Message
<1>3. PICK i \in 0 .. n : Before(AsicKeyOf, q, i, n + 1)
  BY <1>1, <1>2 DEF ChannelBase
<1>4. i >= j
  <2> SUFFICES ASSUME ~(i >= j) PROVE FALSE
    OBVIOUS
  <2>1. j \in i + 1 .. (n + 1) - 1
    BY <1>2
  <2> QED BY <1>2, <1>3, <2>1 DEF Before
<1>5. i \in 1 .. n /\ asicCh[i].prefix = q /\ asicCh[i] \in Message
  BY <1>1, <1>2, <1>3, <1>4 DEF Before
<1>6. asicCh[i].op = "Add"
  <2>1. CASE i = j
    BY <2>1
  <2>2. CASE i # j
    <3>1. i \in j + 1 .. Len(asicCh)
      BY <1>1, <1>2, <1>4, <1>5, <2>2
    <3> QED BY <1>2, <1>5, <3>1 DEF Live, Message
  <2> QED BY <2>1, <2>2
<1>7. Forwards(asicCh[i].target)
  BY <1>1, <1>5, <1>6 DEF ChannelBase
<1>8. AsicAfter(q, i) = AskedTarget(q) /\ AsicAfter(q, i) = asicCh[i].target
  BY <1>1, <1>2, <1>3, <1>5 DEF ChannelBase, AsicAfter
<1> QED BY <1>7, <1>8 DEF Forwards, NoRoute

\* What the live creates refer to stays held; a next hop that is given up is in
\* a group then, or its prefix was asked to have no route.
LEMMA HeldKept ==
  ASSUME ChannelBase, LiveHeld, UNCHANGED asicCh,
         asicCh = <<>> \/ ipNextHopGroupDB \subseteq ipNextHopGroupDB',
         \A q \in Prefix : asicCh = <<>> \/ AskedTarget(q) = NoRoute \/
           \A ip \in SingleNh(q) : ip \in SingleNh(q)' \/ \E g \in ipNextHopGroupDB' : ip \in g
  PROVE  LiveHeld'
<1>1. LiveSet' = LiveSet
  BY DEF LiveSet, Live
<1>2. ASSUME NEW j \in LiveSet, asicCh[j].op = "Add", NEW q, q = asicCh[j].prefix,
             NEW t, t = asicCh[j].target
      PROVE  HeldTarget(q, t)'
  <2>1. j \in DOMAIN asicCh /\ asicCh # <<>> /\ q \in Prefix
    <3>1. j \in DOMAIN asicCh
      BY DEF LiveSet
    <3>2. asicCh # <<>>
      BY <3>1, EmptySeq
    <3> QED BY <1>2, <3>1, <3>2, AsicSeq DEF Message
  <2>2. AskedTarget(q) # NoRoute
    BY <1>2, LiveAsked
  <2>3. HeldTarget(q, t)
    BY <1>2 DEF LiveHeld
  <2>4. ipNextHopGroupDB \subseteq ipNextHopGroupDB'
    BY <2>1
  <2>5. \A ip \in SingleNh(q) : ip \in SingleNh(q)' \/ \E g \in ipNextHopGroupDB' : ip \in g
    BY <2>1, <2>2
  <2> QED BY <2>3, <2>4, <2>5 DEF HeldTarget
<1>3. ASSUME NEW j \in LiveSet', asicCh'[j].op = "Add"
      PROVE  HeldTarget(asicCh[j].prefix, asicCh[j].target)'
  <2>1. PICK q, t : q = asicCh[j].prefix /\ t = asicCh[j].target
    OBVIOUS
  <2>2. HeldTarget(q, t)'
    BY <1>1, <1>2, <1>3, <2>1
  <2> QED BY <2>1, <2>2 DEF HeldTarget
<1> QED BY <1>3 DEF LiveHeld

LEMMA MarkedFewer ==
  ASSUME NEW js, NEW js2, js2 \subseteq js, Marked(js)'
  PROVE  Marked(js2)'
BY DEF Marked

LEMMA LiveNext ==
  ASSUME NEW js, js = LiveSet', ChannelBase', Marked(js)'
  PROVE  LiveInv'
BY DEF LiveInv, Marked

LEMMA LiveKept ==
  ASSUME LiveInv, UNCHANGED <<asicCh, hwRoute>>,
         \A q \in Prefix : AskedTarget(q)' = AskedTarget(q)
  PROVE  LiveInv'
<1>1. PICK js : js = LiveSet
  OBVIOUS
<1>2. js = LiveSet' /\ js \subseteq DOMAIN asicCh
  BY <1>1 DEF LiveSet, Live
<1>3. ChannelBase' /\ Marked(js)'
  BY <1>1, <1>2, BaseSame DEF LiveInv
<1> QED BY <1>2, <1>3, LiveNext

\* The creates that live after a message was queued.
LEMMA LiveLonger ==
  ASSUME ChannelBase, NEW n, n = Len(asicCh), NEW m \in Message, ToAsic(m)
  PROVE  /\ LiveSet' \subseteq LiveSet \cup {n + 1}
         /\ DOMAIN asicCh' = 1 .. n + 1 /\ asicCh'[n + 1] = m /\ DOMAIN asicCh = 1 .. n
         /\ \A j \in LiveSet : asicCh'[j] = asicCh[j]
         /\ \A j \in LiveSet' : j # n + 1 /\ m.op = "Del" => asicCh[j].prefix # m.prefix
<1>1. asicCh \in Seq(Message) /\ asicCh' = Append(asicCh, m) /\ n \in Nat /\ DOMAIN asicCh = 1 .. n
  BY AsicSeq DEF ChannelBase, ToAsic
<1>2. /\ DOMAIN asicCh' = 1 .. n + 1 /\ asicCh'[n + 1] = m /\ Len(asicCh') = n + 1
      /\ \A i \in 1 .. n : asicCh'[i] = asicCh[i]
  BY <1>1, AppendProperties, LenProperties
<1>3. ASSUME NEW j \in LiveSet', j # n + 1
      PROVE  j \in LiveSet /\ (m.op = "Del" => asicCh[j].prefix # m.prefix)
  <2>1. j \in 1 .. n /\ \A k \in j + 1 .. n + 1 : asicCh'[k].op = "Del" => asicCh'[k].prefix # asicCh'[j].prefix
    BY <1>1, <1>2, <1>3 DEF LiveSet, Live
  <2>2. \A k \in j + 1 .. n : k \in j + 1 .. n + 1 /\ k \in 1 .. n
    BY <1>1, <2>1
  <2>3. n + 1 \in j + 1 .. n + 1
    BY <1>1, <2>1
  <2>4. \A k \in j + 1 .. n : asicCh[k].op = "Del" => asicCh[k].prefix # asicCh[j].prefix
    BY <1>2, <2>1, <2>2
  <2>5. m.op = "Del" => m.prefix # asicCh[j].prefix
    BY <1>2, <2>1, <2>3
  <2> QED BY <1>1, <2>1, <2>4, <2>5 DEF LiveSet, Live
<1>4. \A j \in LiveSet : j \in 1 .. n
  BY <1>1 DEF LiveSet
<1> QED BY <1>1, <1>2, <1>3, <1>4

\* A message is queued; what it asks for is held if it is a create.
LEMMA LiveSent ==
  ASSUME LiveInv, NEW m \in Message, NEW p, p = m.prefix, ToAsic(m), UNCHANGED hwRoute,
         IF m.op = "Add" THEN Forwards(m.target) ELSE m.target = NoRoute,
         m.op = "Add" => (m.update <=> AskedTarget(p) # NoRoute),
         AskedTarget(p)' = m.target,
         \A q \in Prefix \ {p} : AskedTarget(q)' = AskedTarget(q)
  PROVE  LiveInv'
<1>1. PICK js, js2, n : js = LiveSet /\ js2 = LiveSet' /\ n = Len(asicCh)
  OBVIOUS
<1>2. ChannelBase /\ Marked(js) /\ js \subseteq DOMAIN asicCh
  BY <1>1 DEF LiveInv, LiveSet
<1>3. ChannelBase' /\ Marked(js \cup {n + 1})'
  BY <1>1, <1>2, BaseSent
<1>4. js2 \subseteq js \cup {n + 1}
  BY <1>1, <1>2, LiveLonger
<1>5. Marked(js2)'
  BY <1>3, <1>4, MarkedFewer
<1> QED BY <1>1, <1>3, <1>5, LiveNext

LEMMA HeldSent ==
  ASSUME ChannelBase, LiveHeld, NEW m \in Message, NEW p, p = m.prefix, ToAsic(m),
         ipNextHopGroupDB \subseteq ipNextHopGroupDB',
         \A q \in Prefix : SingleNh(q)' = SingleNh(q),
         NEW t, t = m.target, m.op = "Add" => HeldTarget(p, t)'
  PROVE  LiveHeld'
<1>1. PICK n : n = Len(asicCh)
  OBVIOUS
<1>2. /\ LiveSet' \subseteq LiveSet \cup {n + 1} /\ asicCh'[n + 1] = m
      /\ \A j \in LiveSet : asicCh'[j] = asicCh[j]
  BY <1>1, LiveLonger
<1>3. ASSUME NEW j \in LiveSet', asicCh'[j].op = "Add", NEW q, q = asicCh'[j].prefix,
             NEW u, u = asicCh'[j].target
      PROVE  HeldTarget(q, u)'
  <2>1. CASE j = n + 1
    BY <1>2, <1>3, <2>1 DEF HeldTarget
  <2>2. CASE j # n + 1
    <3>1. j \in LiveSet /\ asicCh[j].op = "Add" /\ q = asicCh[j].prefix /\ u = asicCh[j].target
      BY <1>2, <1>3, <2>2
    <3>2. q \in Prefix
      BY <3>1, AsicSeq DEF LiveSet, Message
    <3>3. HeldTarget(q, u)
      BY <3>1 DEF LiveHeld
    <3> QED BY <3>2, <3>3 DEF HeldTarget
  <2> QED BY <2>1, <2>2
<1>4. ASSUME NEW j \in LiveSet', asicCh'[j].op = "Add"
      PROVE  HeldTarget(asicCh[j].prefix, asicCh[j].target)'
  <2>1. PICK q, u : q = asicCh'[j].prefix /\ u = asicCh'[j].target
    OBVIOUS
  <2>2. HeldTarget(q, u)'
    BY <1>3, <1>4, <2>1
  <2> QED BY <2>1, <2>2 DEF HeldTarget
<1> QED BY <1>4 DEF LiveHeld

-----------------------------------------------------------------------------
(***************************************************************************)
(* The route handler's steps.  That the database stays consistent          *)
(* (DbInv') is known from RouteProofs; the neighbour manager is still.     *)
(***************************************************************************)
RouteStep == OrdinaryOnly /\ LInv /\ DbInv' /\ NbrHolds' = NbrHolds

LEMMA LTakeAddFirst ==
  ASSUME RouteStep, TakeAddFirst
  PROVE  LInv'
<1>0. PICK p, n : p = Head(routeOpChannel).prefix /\ n = Head(routeOpChannel).nh
  OBVIOUS
<1>1. /\ pc = "idle" /\ pc' = "program" /\ p \in Prefix /\ n \in NextHop
      /\ CreateNextHop(n, "RT_NBR_CREATE")
      /\ UNCHANGED <<ipRouteDB, nextHopMap, ecmpGrpId, doneChannel, asicCh, hwRoute>>
  BY <1>0, TakeAddFirstHolds DEF RouteStep, LInv
<1>2. /\ SingleNh(p) = {} /\ SingleNh(p)' = {n}
      /\ \A q \in Prefix \ {p} : SingleNh(q)' = SingleNh(q)
      /\ \A q \in Prefix : HeldGroup(q)' = HeldGroup(q)
  BY <1>0, TakeAddFirstHolds DEF RouteStep, LInv
<1>3. LNhInv'
  <2>1. PICK s, h, s2 : s = UseCount /\ h = HoldCount /\ s2 = UseCount'
    OBVIOUS
  <2>2. h = HoldCount'
    BY <1>2, <2>1, HoldersSame
  <2>3. Counts(s, h) /\ Counts(s2, h) /\ Loose(s, h)
    BY <2>1, <2>2, UseIs DEF RouteStep, LInv, LNhInv
  <2>4. /\ SingleCount'[n] = SingleCount[n] + 1
        /\ \A x \in NextHop \ {n} : SingleCount'[x] = SingleCount[x]
    BY <1>1, <1>2, SinglesMore
  <2>5. \A x \in NextHop : SingleCount[x] \in Nat
    BY HoldingsCounts DEF Counts
  <2>6. s2[n] = s[n] + 1 /\ \A x \in NextHop \ {n} : s2[x] = s[x]
    BY <1>1, <2>1, <2>4, <2>5, UseIs DEF RouteStep
  <2>7. Loose(s2, h)'
    BY <1>1, <2>3, <2>6, CreateNextHopLoose
  <2> QED BY <2>1, <2>2, <2>7, LNhNext
<1>4. LiveInv'
  BY <1>1, QuietAsked, LiveKept DEF RouteStep, LInv
<1>5. nextHopDB \subseteq nextHopDB' /\ ipNextHopGroupDB \subseteq ipNextHopGroupDB'
  BY <1>1 DEF CreateNextHop
<1>6. LiveHeld'
  BY <1>1, <1>2, <1>5, HeldKept DEF RouteStep, LInv, LiveInv
<1>7. HwInv'
  BY <1>1, <1>3, <1>5, GrowingKeeps, HwKept DEF RouteStep, LInv, LiveInv
<1>8. GroupRefs' /\ DoneInv'
  BY <1>1, DoneQuiet DEF RouteStep, LInv, GroupRefs, Deleting, Replacing, Waiting
<1> QED BY <1>3, <1>4, <1>6, <1>7, <1>8 DEF RouteStep, LInv

\* A group is taken for the prefix, a new one or in place of a smaller one.
LEMMA LTakeAddSecond ==
  ASSUME RouteStep, TakeAddSecond \/ TakeAddMore
  PROVE  LInv'
<1>0. PICK p, n, members : /\ p = Head(routeOpChannel).prefix /\ n = Head(routeOpChannel).nh
                           /\ members = nextHopMap[p] \cup {n}
  OBVIOUS
<1>1. pc = "idle" /\ p \in Prefix /\ members \in Group /\ members # NoGroup
  BY <1>0, TakeAddSecondHolds DEF RouteStep, LInv
<1>2. /\ UNCHANGED <<ipRouteDB, ecmpGrpId, doneChannel, asicCh, hwRoute>>
      /\ \/ ecmpGrpId[p] = NoGroup /\ pc' = "dropSingle" /\ CreateNextHopGroup(members)
         \/ /\ ecmpGrpId[p] # NoGroup /\ pc' = "program"
            /\ UpdateNextHopGroup(ecmpGrpId[p], members)
  BY <1>0, TakeAddSecondHolds DEF RouteStep, LInv
<1>3. \A q \in Prefix : SingleNh(q)' = SingleNh(q)
  BY <1>0, TakeAddSecondHolds DEF RouteStep, LInv
<1>4. PICK g : g = ecmpGrpId[p]
  OBVIOUS
<1>5. /\ HeldGroup(p) = g /\ HeldGroup(p)' = members /\ g # members
      /\ \A q \in Prefix \ {p} : HeldGroup(q)' = HeldGroup(q)
  BY <1>0, <1>4, TakeAddSecondHolds DEF RouteStep, LInv
<1>6. PICK s, h, h2 : s = UseCount /\ h = HoldCount /\ h2 = HoldCount'
  OBVIOUS
<1>7. s = UseCount' /\ Counts(s, h) /\ Counts(s, h2) /\ Loose(s, h)
  BY <1>3, <1>6, UseSame, UseIs DEF RouteStep, LInv, LNhInv
<1>8. /\ g \in Group => h[g] = h2[g] + 1
      /\ h2[members] = h[members] + 1
      /\ \A x \in Group \ {g, members} : h2[x] = h[x]
  <2>1. /\ g \in Group => HoldCount[g] = HoldCount'[g] + 1
        /\ members \in Group => HoldCount'[members] = HoldCount[members] + 1
        /\ \A x \in Group \ {g, members} : HoldCount'[x] = HoldCount[x]
    BY <1>1, <1>5, HoldersMove
  <2> QED BY <1>1, <1>6, <2>1
<1>9. /\ Loose(s, h2)'
      /\ nextHopDB \subseteq nextHopDB' /\ ipNextHopGroupDB \subseteq ipNextHopGroupDB'
  <2>1. CASE g = NoGroup
    <3>1. g \notin Group
      BY <2>1 DEF Group, NoGroup
    <3>2. \A x \in Group \ {members} : h2[x] = h[x]
      BY <1>8, <3>1
    <3> QED BY <1>1, <1>2, <1>4, <1>7, <1>8, <2>1, <3>2, CreateGroupLoose
  <2>2. CASE g # NoGroup
    <3>1. g \in Group
      BY <1>1, <1>5, <2>2, LooseHeld DEF RouteStep, LInv
    <3>2. UpdateNextHopGroup(g, members)
      BY <1>2, <1>4, <2>2
    <3> QED BY <1>1, <1>5, <1>7, <1>8, <3>1, <3>2, UpdateGroupLoose
  <2> QED BY <2>1, <2>2
<1>10. LNhInv'
  BY <1>6, <1>7, <1>9, LNhNext
<1>11. LiveInv'
  BY <1>2, QuietAsked, LiveKept DEF RouteStep, LInv
<1>12. LiveHeld'
  BY <1>2, <1>3, <1>9, HeldKept DEF RouteStep, LInv, LiveInv
<1>13. HwInv'
  BY <1>2, <1>9, <1>10, GrowingKeeps, HwKept DEF RouteStep, LInv, LiveInv
<1>14. GroupRefs' /\ DoneInv'
  BY <1>1, <1>2, DoneQuiet DEF RouteStep, LInv, GroupRefs, Deleting, Replacing, Waiting
<1> QED BY <1>10, <1>11, <1>12, <1>13, <1>14 DEF RouteStep, LInv

\* The next hop that was alone is in the group by now.
LEMMA LDropSingle ==
  ASSUME RouteStep, DropSingle
  PROVE  LInv'
<1>0. PICK p : p = cur.prefix
  OBVIOUS
<1>1. /\ pc = "dropSingle" /\ pc' = "program"
      /\ UNCHANGED <<ipRouteDB, nextHopMap, ecmpGrpId, cur, doneChannel, asicCh, hwRoute>>
  BY DEF DropSingle, dbVars, hwVars
<1>2. PICK old \in cur.nhs :
        /\ old \in NextHop /\ DeleteNextHop(old, BusyNextHops)
        /\ p \in Prefix /\ SingleNh(p) = {old} /\ SingleNh(p)' = {}
        /\ HeldGroup(p) = cur.nhs /\ cur.nhs # NoGroup
  BY <1>0, DropSingleHolds DEF RouteStep, LInv
<1>3. /\ \A q \in Prefix \ {p} : SingleNh(q)' = SingleNh(q)
      /\ \A q \in Prefix : HeldGroup(q)' = HeldGroup(q)
  BY <1>0, DropSingleHolds DEF RouteStep, LInv
<1>4. LNhInv'
  <2>1. PICK s, h, s2 : s = UseCount /\ h = HoldCount /\ s2 = UseCount'
    OBVIOUS
  <2>2. h = HoldCount'
    BY <1>3, <2>1, HoldersSame
  <2>3. Counts(s, h) /\ Counts(s2, h) /\ Loose(s, h)
    BY <2>1, <2>2, UseIs DEF RouteStep, LInv, LNhInv
  <2>4. /\ SingleCount[old] = SingleCount'[old] + 1
        /\ \A x \in NextHop \ {old} : SingleCount'[x] = SingleCount[x]
    BY <1>2, <1>3, SinglesLess
  <2>5. \A x \in NextHop : SingleCount[x] \in Nat /\ SingleCount'[x] \in Nat
    BY HoldingsCounts, HoldingsNext DEF Counts
  <2>6. s[old] = s2[old] + 1 /\ \A x \in NextHop \ {old} : s2[x] = s[x]
    BY <1>2, <2>1, <2>4, <2>5, UseIs DEF RouteStep
  <2>7. Loose(s2, h)'
    BY <1>2, <2>3, <2>6, DeleteNextHopLoose
  <2> QED BY <2>1, <2>2, <2>7, LNhNext
<1>5. ipNextHopGroupDB' = ipNextHopGroupDB
  BY <1>2 DEF DeleteNextHop
<1>6. cur.nhs \in ipNextHopGroupDB'
  BY <1>2, <1>5, LooseHeld DEF RouteStep, LInv
<1>7. LiveInv'
  BY <1>1, QuietAsked, LiveKept DEF RouteStep, LInv
<1>8. LiveHeld'
  <2>1. \A q \in Prefix : \A ip \in SingleNh(q) : ip \in SingleNh(q)' \/ \E g \in ipNextHopGroupDB' : ip \in g
    BY <1>2, <1>3, <1>6
  <2> QED BY <1>1, <1>5, <2>1, HeldKept DEF RouteStep, LInv, LiveInv
<1>9. HwInv'
  BY <1>1, <1>2, DeleteNextHopKeeps, HwKept DEF RouteStep, LInv, LiveInv
<1>10. GroupRefs' /\ DoneInv'
  BY <1>1, DoneQuiet DEF RouteStep, LInv, GroupRefs, Deleting, Replacing, Waiting
<1> QED BY <1>4, <1>7, <1>8, <1>9, <1>10 DEF RouteStep, LInv

LEMMA LProgram ==
  ASSUME RouteStep, Program
  PROVE  LInv'
<1>0. PICK p, n : p = cur.prefix /\ n = cur.nh
  OBVIOUS
<1>1. /\ pc = "program" /\ pc' = "idle"
      /\ UNCHANGED <<nhMgrVars, doneChannel, hwRoute>>
  BY DEF Program, hwVars
<1>2. /\ p \in Prefix
      /\ Forwards(cur.target) /\ cur.target \in Target
      /\ (AskedTarget(p) # NoRoute <=> p \in ipRouteDB) /\ AskedTarget(p)' = cur.target
      /\ \A q \in Prefix \ {p} : AskedTarget(q)' = AskedTarget(q)
  BY <1>0, ProgramAsked DEF RouteStep, LInv
<1>3. \A q \in Prefix : SingleNh(q)' = SingleNh(q) /\ HeldGroup(q)' = HeldGroup(q)
  BY ProgramHolds DEF RouteStep, LInv
<1>4. LNhInv'
  BY <1>1, <1>3, LNhSame DEF RouteStep, LInv
<1>5. PICK m, t : t = cur.target /\ m = AsicMsg("Add", p, t, p \in ipRouteDB, FALSE)
  OBVIOUS
<1>6. /\ m \in Message /\ m.op = "Add" /\ m.prefix = p /\ m.target = t
      /\ m.update <=> p \in ipRouteDB
      /\ ~m.done
  <2>1. (p \in ipRouteDB) \in BOOLEAN
    OBVIOUS
  <2> QED BY <1>2, <1>5, <2>1 DEF AsicMsg, Message
<1>7. ToAsic(m) /\ asicCh \in Seq(Message)
  BY <1>0, <1>5 DEF Program, RouteStep, LInv, LiveInv, ChannelBase
<1>8. Plain(t) /\ HeldTarget(p, t)'
  <2>1. (DbInv /\ LNhInv =>
           \A q \in Prefix : ~Mine(q) =>
             AskedTarget(q) = NoRoute \/ (Plain(AskedTarget(q)) /\ HeldTarget(q, AskedTarget(q))))'
    BY SettledHeld, PTL
  <2>2. ~Mine(p)'
    BY <1>1 DEF Mine
  <2>3. AskedTarget(p)' # NoRoute /\ AskedTarget(p)' = t
    BY <1>2, <1>5 DEF Forwards, NoRoute
  <2>4. Plain(AskedTarget(p))' /\ HeldTarget(p, AskedTarget(p))'
    BY <1>2, <1>4, <2>1, <2>2, <2>3 DEF RouteStep
  <2> QED BY <2>3, <2>4 DEF Plain, HeldTarget
<1>9. LiveInv'
  BY <1>1, <1>2, <1>5, <1>6, <1>7, LiveSent DEF RouteStep, LInv
<1>10. ipNextHopGroupDB' = ipNextHopGroupDB
  BY <1>1 DEF nhMgrVars
<1>11. LiveHeld'
  BY <1>3, <1>6, <1>7, <1>8, <1>10, HeldSent DEF RouteStep, LInv, LiveInv
<1>12. HwInv'
  <2>1. KeepsBusy
    BY <1>1 DEF nhMgrVars, KeepsBusy
  <2> QED BY <1>1, <1>6, <1>7, <1>8, <2>1, HwSent DEF RouteStep, LInv, LiveInv
<1>13. GroupRefs' /\ DoneInv'
  <2>1. GroupRefs'
    BY <1>1 DEF GroupRefs, Deleting, Replacing
  <2> QED BY <1>1, <1>6, <1>7, <2>1, DoneSent DEF RouteStep, LInv, Waiting
<1> QED BY <1>4, <1>9, <1>11, <1>12, <1>13 DEF RouteStep, LInv

LEMMA LTakeDel ==
  ASSUME RouteStep, TakeDel
  PROVE  LInv'
<1>0. PICK p, n, left, refs :
         /\ p = Head(routeOpChannel).prefix /\ n = Head(routeOpChannel).nh
         /\ left = nextHopMap[p] \ {n} /\ refs = References(p, n)
  OBVIOUS
<1>1. /\ pc = "idle" /\ p \in Prefix /\ n \in NextHop
      /\ \A q \in Prefix : Settled(q) /\ ~Mine(q)
  BY <1>0, TakenOp DEF TakeDel, Operations, RouteStep, LInv
<1>2. /\ p \in ipRouteDB /\ n \in nextHopMap[p]
      /\ nextHopMap' = [nextHopMap EXCEPT ![p] = left]
      /\ cur'.prefix = p /\ cur'.nh = n /\ cur'.refs = refs
      /\ pc' = IF left = {} /\ MustWait(refs) THEN "waitDel" ELSE "release"
      /\ UNCHANGED <<nhMgrVars, ipRouteDB, ecmpGrpId, doneChannel, hwRoute>>
      /\ IF left = {} THEN ToAsic(AsicMsg("Del", p, NoRoute, FALSE, MustWait(refs)))
         ELSE UNCHANGED asicCh
  BY <1>0 DEF TakeDel, Knows, hwVars
<1>3. /\ nextHopMap'[p] = left
      /\ \A q \in Prefix \ {p} : nextHopMap'[q] = nextHopMap[q]
  BY <1>1, <1>2 DEF RouteStep, LInv, DbInv, DbType
<1>4. \A q \in Prefix : SingleNh(q)' = SingleNh(q) /\ HeldGroup(q)' = HeldGroup(q)
  BY TakeDelHolds DEF RouteStep, LInv
<1>5. LNhInv'
  BY <1>2, <1>4, LNhSame DEF RouteStep, LInv
<1>6. GroupRefs'
  <2>1. UNCHANGED grpRefCount
    BY <1>2 DEF nhMgrVars
  <2>2. ecmpGrpId[p] # NoGroup => refs = grpRefCount[ecmpGrpId[p]]
    BY <1>0 DEF References
  <2>3. ~Replacing'
    BY <1>2 DEF Replacing
  <2> QED BY <1>2, <2>1, <2>2, <2>3 DEF GroupRefs
<1>7. KeepsBusy /\ ipNextHopGroupDB' = ipNextHopGroupDB /\ asicCh \in Seq(Message)
  BY <1>2 DEF nhMgrVars, KeepsBusy, RouteStep, LInv, LiveInv, ChannelBase
<1>8. LiveInv' /\ LiveHeld' /\ HwInv' /\ DoneInv'
  <2>1. CASE left = {}
    <3>1. PICK m : m = AsicMsg("Del", p, NoRoute, FALSE, MustWait(refs))
      OBVIOUS
    <3>2. NoRoute \in Target /\ MustWait(refs) \in BOOLEAN
      BY DEF NoRoute, Target, MustWait
    <3>3. /\ m \in Message /\ m.op = "Del" /\ m.prefix = p /\ m.target = NoRoute
          /\ m.done <=> MustWait(refs)
      BY <1>1, <3>1, <3>2 DEF AsicMsg, Message
    <3>4. ToAsic(m)
      BY <1>2, <2>1, <3>1
    <3>5. AskedTarget(p)' = NoRoute /\ \A q \in Prefix \ {p} : AskedTarget(q)' = AskedTarget(q)
      BY <1>0, <1>3, <2>1, TakeDelAsked DEF RouteStep, LInv
    <3>6. LiveInv'
      BY <1>2, <3>3, <3>4, <3>5, LiveSent DEF RouteStep, LInv
    <3>7. LiveHeld'
      BY <1>4, <1>7, <3>3, <3>4, HeldSent DEF RouteStep, LInv, LiveInv
    <3>8. HwInv'
      <4>1. Plain(m.target)
        BY <3>3 DEF Plain, NoRoute
      <4> QED BY <1>2, <1>7, <3>4, <4>1, HwSent DEF RouteStep, LInv, LiveInv
    <3>9. DoneInv'
      <4>1. Waiting' <=> MustWait(refs)
        BY <1>2, <2>1 DEF Waiting
      <4>2. ~(pc' = "release" /\ cur'.refs <= 1)
        BY <1>2, <2>1 DEF MustWait
      <4> QED BY <1>1, <1>2, <1>7, <3>3, <3>4, <4>1, <4>2, DoneSent DEF RouteStep, LInv, Waiting
    <3> QED BY <3>6, <3>7, <3>8, <3>9
  <2>2. CASE left # {}
    <3>1. \A q \in Prefix : AskedTarget(q)' = AskedTarget(q)
      BY <1>0, <1>3, <2>2, QuietAsked DEF RouteStep, LInv
    <3>2. UNCHANGED <<asicCh, hwRoute>>
      BY <1>2, <2>2
    <3>3. LiveInv'
      BY <3>1, <3>2, LiveKept DEF RouteStep, LInv
    <3>4. LiveHeld'
      BY <1>4, <1>7, <3>2, HeldKept DEF RouteStep, LInv, LiveInv
    <3>5. HwInv'
      BY <1>7, <3>2, HwKept DEF RouteStep, LInv, LiveInv
    <3>6. DoneInv'
      BY <1>1, <1>2, <1>3, <2>2, <3>2 DEF RouteStep, LInv, DoneInv, Waiting
    <3> QED BY <3>3, <3>4, <3>5, <3>6
  <2> QED BY <2>1, <2>2
<1> QED BY <1>5, <1>6, <1>8 DEF RouteStep, LInv

LEMMA LWaitDel ==
  ASSUME RouteStep, WaitDel
  PROVE  LInv'
<1>1. /\ pc = "waitDel" /\ pc' = "release" /\ doneChannel > 0 /\ doneChannel' = doneChannel - 1
      /\ UNCHANGED <<nhMgrVars, ipRouteDB, nextHopMap, ecmpGrpId, cur, asicCh, hwRoute>>
  BY DEF WaitDel, dbVars, hwVars
<1>2. asicCh = <<>> /\ doneChannel = 1
  BY <1>1 DEF RouteStep, LInv, DoneInv
<1>3. \A q \in Prefix : SingleNh(q)' = SingleNh(q) /\ HeldGroup(q)' = HeldGroup(q)
  BY <1>1 DEF SingleNh, HeldGroup, Mine, Deleting, Adding
<1>4. LNhInv' /\ LiveInv'
  BY <1>1, <1>3, LNhSame, QuietAsked, LiveKept DEF RouteStep, LInv
<1>5. LiveHeld'
  BY <1>1, <1>2, HeldKept DEF RouteStep, LInv, LiveInv
<1>6. KeepsBusy /\ UNCHANGED grpRefCount
  BY <1>1 DEF nhMgrVars, KeepsBusy
<1>7. HwInv'
  BY <1>1, <1>6, HwKept DEF RouteStep, LInv, LiveInv
<1>8. GroupRefs'
  BY <1>1, <1>6 DEF RouteStep, LInv, GroupRefs, Deleting, Replacing
<1>9. DoneInv'
  BY <1>1, <1>2 DEF DoneInv, Waiting
<1> QED BY <1>4, <1>5, <1>7, <1>8, <1>9 DEF RouteStep, LInv

\* The last next hop of a prefix is released.  A group goes only when the ASIC
\* has followed; a next hop the neighbour manager has taken stays.
LEMMA LReleaseLast ==
  ASSUME RouteStep, ReleaseLast
  PROVE  LInv'
<1>0. PICK p, n, g : p = cur.prefix /\ n = cur.nh /\ g = ecmpGrpId[p]
  OBVIOUS
<1>1. /\ pc = "release" /\ pc' = "idle" /\ nextHopMap[p] = {}
      /\ UNCHANGED <<nextHopMap, doneChannel, asicCh, hwRoute>>
      /\ IF g = NoGroup THEN DeleteNextHop(n, BusyNextHops)
         ELSE DeleteNextHopGroup(g, BusyNextHops, BusyGroups)
  BY <1>0, ReleaseLastHolds DEF RouteStep, LInv
<1>2. /\ p \in Prefix /\ n \in NextHop /\ Mine(p)
      /\ g # NoGroup => cur.refs = grpRefCount[g]
  BY <1>0, <1>1 DEF RouteStep, LInv, DbInv, DbType, Mine, Deleting, GroupRefs
<1>3. /\ \A q \in Prefix \ {p} : SingleNh(q)' = SingleNh(q) /\ HeldGroup(q)' = HeldGroup(q)
      /\ HeldGroup(p) = g /\ HeldGroup(p)' = NoGroup
      /\ SingleNh(p) = (IF g = NoGroup THEN {n} ELSE {}) /\ SingleNh(p)' = {}
  BY <1>0, ReleaseLastHolds DEF RouteStep, LInv
<1>4. AskedTarget(p) = NoRoute
  BY <1>1, <1>2 DEF AskedTarget, Asked, Adding, Replacing
<1>5. PICK s, h, s2, h2 : s = UseCount /\ h = HoldCount /\ s2 = UseCount' /\ h2 = HoldCount'
  OBVIOUS
<1>6. Counts(s, h) /\ Counts(s2, h2) /\ Loose(s, h)
  BY <1>5, UseIs DEF RouteStep, LInv, LNhInv
<1>7. /\ Loose(s2, h2)' /\ KeepsBusy
      /\ asicCh # <<>> => ipNextHopGroupDB' = ipNextHopGroupDB
  <2>1. CASE g = NoGroup
    <3>1. /\ SingleCount[n] = SingleCount'[n] + 1
          /\ \A x \in NextHop \ {n} : SingleCount'[x] = SingleCount[x]
      BY <1>2, <1>3, <2>1, SinglesLess
    <3>2. \A x \in NextHop : SingleCount[x] \in Nat /\ SingleCount'[x] \in Nat
      BY HoldingsCounts, HoldingsNext DEF Counts
    <3>3. s[n] = s2[n] + 1 /\ \A x \in NextHop \ {n} : s2[x] = s[x]
      BY <1>2, <1>5, <3>1, <3>2, UseIs DEF RouteStep
    <3>4. \A q \in Prefix : HeldGroup(q)' = HeldGroup(q)
      BY <1>3, <2>1
    <3>5. h2 = h
      BY <1>5, <3>4, HoldersSame
    <3>6. Loose(s2, h)'
      BY <1>1, <1>2, <1>6, <2>1, <3>3, <3>5, DeleteNextHopLoose
    <3>7. KeepsBusy /\ ipNextHopGroupDB' = ipNextHopGroupDB
      BY <1>1, <2>1, DeleteNextHopKeeps DEF DeleteNextHop
    <3> QED BY <3>5, <3>6, <3>7
  <2>2. CASE g # NoGroup
    <3>1. g \in Group /\ h[g] >= 1
      BY <1>2, <1>3, <1>5, <2>2, LooseHeld DEF RouteStep, LInv
    <3>2. /\ grpRefCount[g] >= h[g] /\ grpRefCount[g] \in Nat
          /\ h[g] \in Nat /\ h2[g] \in Nat
      BY <1>6, <3>1, LooseNat DEF Counts
    <3>3. grpRefCount[g] = 1 => asicCh = <<>>
      BY <1>0, <1>1, <1>2, <2>2 DEF RouteStep, LInv, DoneInv
    <3>4. \A q \in Prefix : SingleNh(q)' = SingleNh(q)
      BY <1>3, <2>2
    <3>5. s2 = s
      BY <1>5, <3>4, UseSame DEF RouteStep
    <3>6. h[g] = h2[g] + 1 /\ \A x \in Group \ {g} : h2[x] = h[x]
      <4>1. NoGroup \notin Group
        BY DEF Group, NoGroup
      <4>2. /\ g \in Group => HoldCount[g] = HoldCount'[g] + 1
            /\ \A x \in Group \ {g, NoGroup} : HoldCount'[x] = HoldCount[x]
        BY <1>2, <1>3, <2>2, <3>1, HoldersMove
      <4> QED BY <1>5, <2>2, <3>1, <4>1, <4>2
    <3>7. grpRefCount[g] = 1 => g \notin BusyGroups
      <4> SUFFICES ASSUME grpRefCount[g] = 1 PROVE g \notin BusyGroups
        OBVIOUS
      <4>1. p \in Holders(g) /\ h[g] <= 1
        BY <1>2, <1>3, <3>2 DEF Holders
      <4>2. Holders(g) = {p}
        BY <1>5, <3>1, <4>1, OnlyHolder
      <4>3. \A x \in BusyGroups : \E q \in Prefix : q # p /\ HeldGroup(q) = x
        BY <1>0, <1>1, <3>3, BusyHeld DEF RouteStep, LInv, LiveInv
      <4> QED BY <4>2, <4>3 DEF Holders
    <3>8. DeleteNextHopGroup(g, BusyNextHops, BusyGroups)
      BY <1>1, <2>2
    <3>9. grpRefCount[g] >= 1 /\ h2[g] <= grpRefCount[g] - 1
      BY <3>1, <3>2, <3>6
    <3>10. Loose(s, h2)' /\ (grpRefCount[g] # 1 => ipNextHopGroupDB' = ipNextHopGroupDB)
      BY <1>6, <3>1, <3>5, <3>6, <3>7, <3>8, <3>9, DeleteGroupLoose
    <3> QED BY <3>3, <3>5, <3>8, <3>10, DeleteGroupKeeps
  <2> QED BY <2>1, <2>2
<1>8. LNhInv'
  BY <1>5, <1>7, LNhNext
<1>9. LiveInv'
  BY <1>1, QuietAsked, LiveKept DEF RouteStep, LInv
<1>10. LiveHeld'
  <2>1. \A q \in Prefix : q # p => \A ip \in SingleNh(q) : ip \in SingleNh(q)'
    BY <1>3
  <2> QED BY <1>1, <1>4, <1>7, <2>1, HeldKept DEF RouteStep, LInv, LiveInv
<1>11. HwInv'
  BY <1>1, <1>7, HwKept DEF RouteStep, LInv, LiveInv
<1>12. GroupRefs' /\ DoneInv'
  BY <1>1, DoneQuiet DEF RouteStep, LInv, GroupRefs, Deleting, Replacing, Waiting
<1> QED BY <1>8, <1>9, <1>10, <1>11, <1>12 DEF RouteStep, LInv

LEMMA LReplaceGroup ==
  ASSUME RouteStep, ReplaceGroup
  PROVE  LInv'
<1>0. PICK p, n, g, members : p = cur.prefix /\ n = cur.nh /\ g = ecmpGrpId[p] /\ members = nextHopMap[p]
  OBVIOUS
<1>1. /\ pc = "release" /\ pc' = "waitUpd"
      /\ UpdateNextHopGroup(g, members)
      /\ ToAsic(AsicMsg("Add", p, GroupTarget(members), TRUE, TRUE))
      /\ UNCHANGED <<ipRouteDB, nextHopMap, ecmpGrpId, cur, doneChannel, hwRoute>>
  BY <1>0 DEF ReplaceGroup, dbVars, hwVars
<1>2. /\ p \in Prefix /\ members # {} /\ members \subseteq NextHop
      /\ n \notin members /\ g = members \cup {n} /\ g # NoGroup
      /\ AskedTarget(p) # NoRoute
      /\ AskedTarget(p)' = GroupTarget(members)
      /\ \A q \in Prefix \ {p} : AskedTarget(q)' = AskedTarget(q)
  BY <1>0, ReplaceGroupAsked DEF RouteStep, LInv
<1>3. cur.refs = grpRefCount[g]
  BY <1>0, <1>1, <1>2 DEF RouteStep, LInv, GroupRefs, Deleting
<1>4. /\ \A q \in Prefix : SingleNh(q)' = SingleNh(q)
      /\ \A q \in Prefix \ {p} : HeldGroup(q)' = HeldGroup(q)
      /\ HeldGroup(p) = g /\ HeldGroup(p)' = members /\ g # members
  BY <1>0, ReplaceGroupHolds DEF RouteStep, LInv
<1>5. PICK s, h, h2 : s = UseCount /\ h = HoldCount /\ h2 = HoldCount'
  OBVIOUS
<1>6. s = UseCount' /\ Counts(s, h) /\ Counts(s, h2) /\ Loose(s, h)
  BY <1>4, <1>5, UseSame, UseIs DEF RouteStep, LInv, LNhInv
<1>7. g \in Group /\ h[g] >= 1 /\ members \in Group
  <2>1. members \in Group
    BY <1>2 DEF Group
  <2> QED BY <1>2, <1>4, <1>5, <2>1, LooseHeld DEF RouteStep, LInv
<1>8. /\ h[g] = h2[g] + 1 /\ h2[members] = h[members] + 1
      /\ \A x \in Group \ {g, members} : h2[x] = h[x]
      /\ Holders(g)' = Holders(g) \ {p}
  <2>1. /\ g \in Group => HoldCount[g] = HoldCount'[g] + 1
        /\ members \in Group => HoldCount'[members] = HoldCount[members] + 1
        /\ Holders(g)' = Holders(g) \ {p}
        /\ \A x \in Group \ {g, members} : HoldCount'[x] = HoldCount[x]
    BY <1>2, <1>4, HoldersMove
  <2> QED BY <1>5, <1>7, <2>1
<1>9. /\ Loose(s, h2)'
      /\ nextHopDB \subseteq nextHopDB' /\ ipNextHopGroupDB \subseteq ipNextHopGroupDB'
      /\ grpRefCount[g] = 1 => grpRefCount'[g] = 1
  BY <1>1, <1>4, <1>6, <1>7, <1>8, UpdateGroupLoose
<1>10. LNhInv'
  BY <1>5, <1>6, <1>9, LNhNext
<1>11. GroupRefs'
  <2>1. ASSUME cur.refs = 1
        PROVE  grpRefCount'[g] = 1 /\ Holders(g)' = {}
    <3>1. grpRefCount[g] = 1 /\ h[g] <= 1
      BY <1>3, <1>6, <1>7, <2>1 DEF Loose
    <3>2. p \in Holders(g)
      BY <1>2, <1>4 DEF Holders
    <3>3. Holders(g) = {p}
      BY <1>5, <1>7, <3>1, <3>2, OnlyHolder
    <3> QED BY <1>8, <1>9, <3>1, <3>3
  <2> QED BY <1>0, <1>1, <2>1 DEF GroupRefs, Deleting, Replacing
<1>12. PICK m, t : t = GroupTarget(members) /\ m = AsicMsg("Add", p, t, TRUE, TRUE)
  OBVIOUS
<1>13. /\ m \in Message /\ m.op = "Add" /\ m.prefix = p /\ m.target = t
       /\ m.update /\ m.done /\ ToAsic(m) /\ Forwards(m.target) /\ Plain(m.target)
  <2>1. t \in Target /\ Forwards(t) /\ Plain(t)
    BY <1>2, <1>12 DEF GroupTarget, Target, Forwards, Plain
  <2> QED BY <1>1, <1>2, <1>12, <2>1 DEF AsicMsg, Message
<1>14. LiveInv' /\ asicCh \in Seq(Message)
  BY <1>1, <1>2, <1>12, <1>13, LiveSent DEF RouteStep, LInv, LiveInv, ChannelBase
<1>15. LiveHeld'
  <2>1. (DbInv /\ LNhInv =>
           \A q \in Prefix :
             /\ \A ip \in SingleNh(q) : ip \in NextHop /\ ip \in nextHopDB /\ SingleCount[ip] >= 1
             /\ HeldGroup(q) # NoGroup => /\ HeldGroup(q) \in Group /\ HeldGroup(q) \in ipNextHopGroupDB
                                          /\ HoldCount[HeldGroup(q)] >= 1)'
    BY LooseHeld, PTL
  <2>2. HeldGroup(p)' # NoGroup
    BY <1>2, <1>4 DEF NoGroup
  <2>3. members \in ipNextHopGroupDB'
    BY <1>2, <1>4, <1>10, <2>1, <2>2 DEF RouteStep
  <2>4. HeldTarget(p, t)'
    BY <1>12, <2>3 DEF HeldTarget, GroupTarget
  <2> QED BY <1>4, <1>9, <1>13, <2>4, HeldSent DEF RouteStep, LInv, LiveInv
<1>16. HwInv'
  BY <1>1, <1>9, <1>10, <1>13, GrowingKeeps, HwSent DEF RouteStep, LInv, LiveInv
<1>17. DoneInv'
  BY <1>1, <1>13, <1>14, DoneSent DEF RouteStep, LInv, Waiting
<1> QED BY <1>10, <1>11, <1>14, <1>15, <1>16, <1>17 DEF RouteStep, LInv

\* The ASIC has followed: the replaced group goes if the prefix was its last.
LEMMA LWaitUpd ==
  ASSUME RouteStep, WaitUpd
  PROVE  LInv'
<1>0. PICK p, g : p = cur.prefix /\ g = ecmpGrpId[p]
  OBVIOUS
<1>1. /\ pc = "waitUpd" /\ pc' = "idle" /\ doneChannel > 0 /\ doneChannel' = doneChannel - 1
      /\ UNCHANGED <<ipRouteDB, nextHopMap, asicCh, hwRoute>>
      /\ IF cur.refs = 1 THEN DeleteNextHopGroup(g, BusyNextHops, BusyGroups)
         ELSE UNCHANGED nhMgrVars
  BY <1>0 DEF WaitUpd, hwVars
<1>2. asicCh = <<>> /\ doneChannel = 1
  BY <1>1 DEF RouteStep, LInv, DoneInv
<1>3. /\ p \in Prefix /\ g # NoGroup /\ g \subseteq NextHop
      /\ cur.refs = 1 => grpRefCount[g] = 1 /\ Holders(g) = {}
  BY <1>0, <1>1 DEF RouteStep, LInv, DbInv, DbType, JobInv, Replacing, GroupRefs
<1>4. g \in Group
  <2>1. g # {}
    BY <1>3 DEF NoGroup
  <2> QED BY <1>3, <2>1 DEF Group
<1>5. \A q \in Prefix : SingleNh(q)' = SingleNh(q) /\ HeldGroup(q)' = HeldGroup(q)
  BY WaitUpdHolds DEF RouteStep, LInv
<1>6. PICK s, h : s = UseCount /\ h = HoldCount
  OBVIOUS
<1>7. s = UseCount' /\ h = HoldCount' /\ Counts(s, h) /\ Loose(s, h)
  BY <1>5, <1>6, UseSame, HoldersSame, UseIs DEF RouteStep, LInv, LNhInv
<1>8. Loose(s, h)' /\ KeepsBusy
  <2>1. CASE cur.refs # 1
    <3>1. UNCHANGED nhMgrVars
      BY <1>1, <2>1
    <3> QED BY <1>7, <3>1, LooseSame DEF nhMgrVars, KeepsBusy
  <2>2. CASE cur.refs = 1
    <3>1. h[g] = 0
      BY <1>3, <1>4, <1>6, <2>2, FS_EmptySet DEF HoldCount
    <3>2. g \notin BusyGroups
      <4>1. \A q \in Prefix : HeldGroup(q) # g
        BY <1>3, <2>2 DEF Holders
      <4> QED BY <1>1, <1>2, <4>1, BusyHeld DEF RouteStep, LInv, LiveInv
    <3>3. /\ DeleteNextHopGroup(g, BusyNextHops, BusyGroups)
          /\ grpRefCount[g] = 1 /\ h[g] <= grpRefCount[g] - 1
      BY <1>1, <1>3, <2>2, <3>1
    <3>4. Loose(s, h)'
      BY <1>4, <1>7, <3>2, <3>3, DeleteGroupLoose
    <3> QED BY <3>3, <3>4, DeleteGroupKeeps
  <2> QED BY <2>1, <2>2
<1>9. LNhInv'
  BY <1>7, <1>8, LNhNext
<1>10. LiveInv'
  BY <1>1, QuietAsked, LiveKept DEF RouteStep, LInv
<1>11. LiveHeld'
  BY <1>1, <1>2, HeldKept DEF RouteStep, LInv, LiveInv
<1>12. HwInv'
  BY <1>1, <1>8, HwKept DEF RouteStep, LInv, LiveInv
<1>13. GroupRefs'
  BY <1>1 DEF GroupRefs, Deleting, Replacing
<1>14. DoneInv'
  BY <1>1, <1>2 DEF DoneInv, Waiting
<1> QED BY <1>9, <1>10, <1>11, <1>12, <1>13, <1>14 DEF RouteStep, LInv

-----------------------------------------------------------------------------
(***************************************************************************)
(* The route server, and what does not concern the handler.                *)
(***************************************************************************)
\* What the first message makes of its prefix: its target, or, when a delete
\* follows, a route of which everything exists.
LEMMA ServedLive ==
  ASSUME DbInv, LNhInv, LiveInv, LiveHeld, HwInv, AsicServer,
         NEW n \in Nat, Len(asicCh) = n + 1, NEW m, m = asicCh[1], NEW p, p = m.prefix
  PROVE  \E t \in Target :
           /\ hwRoute' = [hwRoute EXCEPT ![p] = t]
           /\ Forwards(t) \/ t = NoRoute
           /\ t = m.target \/ Overtaken(p, LiveSet)
           /\ Plain(t) /\ Exists(t)
<1>1. /\ DOMAIN asicCh = 1 .. n + 1 /\ Head(asicCh) = m /\ Len(AsicKeyOf) = n + 1
      /\ \A i \in 1 .. n + 1 : AsicKeyOf[i] = asicCh[i].prefix /\ asicCh[i] \in Message
  BY AsicSeq, HeadTailProperties DEF LiveInv, ChannelBase, AsicServer
<1>2. PICK js : js = LiveSet
  OBVIOUS
<1>3. ChannelBase /\ Marked(js) /\ js \subseteq DOMAIN asicCh
  BY <1>2 DEF LiveInv, LiveSet
<1>4. /\ m \in Message /\ p \in Prefix /\ m.target \in Target /\ Plain(m.target)
      /\ IF m.op = "Add" THEN Forwards(m.target) ELSE m.target = NoRoute
  <2>1. 1 \in DOMAIN asicCh
    BY <1>1
  <2> QED BY <1>1, <1>3, <2>1 DEF ChannelBase, HwInv, Message
<1>5. CASE m.op = "Add" => 1 \in js
  <2>1. Exists(m.target)
    <3>1. CASE m.op = "Add"
      <4>1. HeldTarget(p, m.target)
        BY <1>2, <1>5, <3>1 DEF LiveHeld
      <4> QED BY <1>4, <4>1, HeldTargetExists
    <3>2. CASE m.op # "Add"
      BY <1>4, <3>2 DEF Exists, NoRoute
    <3> QED BY <3>1, <3>2
  <2>2. hwRoute' = [hwRoute EXCEPT ![p] = m.target]
    BY <1>3, <1>5, <2>1, ServedTarget
  <2> QED BY <1>4, <2>1, <2>2
<1>6. CASE m.op = "Add" /\ 1 \notin js
  <2>1. hwRoute' = [hwRoute EXCEPT ![p] = RouteAfterAdd(m)]
    BY <1>1, <1>6 DEF AsicServer
  <2>2. PICK t : t = RouteAfterAdd(m)
    OBVIOUS
  <2>3. t = hwRoute[p] \/ (t = m.target /\ Exists(m.target))
    BY <2>2 DEF RouteAfterAdd
  <2>4. t \in Target /\ (Forwards(t) \/ t = NoRoute) /\ Plain(t) /\ Exists(t)
    BY <1>3, <1>4, <1>6, <2>3 DEF ChannelBase, HwInv
  <2>5. PICK k \in 2 .. n + 1 : asicCh[k].op = "Del" /\ asicCh[k].prefix = p
    <3>1. ~Live(1)
      BY <1>1, <1>2, <1>6 DEF LiveSet
    <3>2. PICK k \in 1 + 1 .. n + 1 : asicCh[k].op = "Del" /\ asicCh[k].prefix = asicCh[1].prefix
      BY <3>1 DEF Live
    <3> QED BY <3>2
  <2>6. AsicKeyOf[k] = p
    BY <1>1, <2>5
  <2>7. ASSUME NEW j \in js, asicCh[j].op = "Add", AsicKeyOf[j] = p
        PROVE  k \in 2 .. j - 1
    <3>1. j \in 1 .. n + 1 /\ Live(j) /\ asicCh[j].prefix = p
      BY <1>1, <1>2, <1>3, <2>7 DEF LiveSet
    <3>2. j # k
      BY <2>5, <2>7
    <3>3. ~(j < k)
      <4> SUFFICES ASSUME j < k PROVE FALSE
        OBVIOUS
      <4>1. k \in j + 1 .. Len(asicCh)
        BY <3>1
      <4> QED BY <2>5, <3>1, <4>1 DEF Live
    <3> QED BY <3>1, <3>2, <3>3
  <2>8. Overtaken(p, js)
    BY <2>5, <2>6, <2>7 DEF Overtaken
  <2> QED BY <1>2, <2>1, <2>2, <2>4, <2>8
<1>7. m.op = "Add" \/ m.op = "Del"
  BY <1>4 DEF Message
<1> QED BY <1>5, <1>6, <1>7

LEMMA LAsicServer ==
  ASSUME RouteStep, AsicServer
  PROVE  LInv'
<1>1. UNCHANGED <<nhMgrVars, ipRouteDB, nextHopMap, ecmpGrpId, pc, cur>>
  BY DEF AsicServer, dbVars
<1>2. \A q \in Prefix : SingleNh(q)' = SingleNh(q) /\ HeldGroup(q)' = HeldGroup(q)
  BY <1>1, SameHoldings
<1>3. LNhInv'
  BY <1>1, <1>2, LNhSame DEF RouteStep, LInv
<1>4. PICK n \in Nat : /\ Len(asicCh) = n + 1 /\ DOMAIN asicCh = 1 .. n + 1
                       /\ \A i \in 1 .. n + 1 : AsicKeyOf[i] = asicCh[i].prefix /\ asicCh[i] \in Message
                       /\ Len(asicCh') = n /\ DOMAIN asicCh' = 1 .. n
                       /\ \A i \in 1 .. n : asicCh'[i] = asicCh[i + 1]
  BY Received DEF RouteStep, LInv, LiveInv
<1>5. PICK m, p, js : m = asicCh[1] /\ p = m.prefix /\ js = LiveSet
  OBVIOUS
<1>6. PICK t \in Target : /\ hwRoute' = [hwRoute EXCEPT ![p] = t]
                          /\ Forwards(t) \/ t = NoRoute
                          /\ t = m.target \/ Overtaken(p, js)
                          /\ Plain(t) /\ Exists(t)
  BY <1>4, <1>5, ServedLive DEF RouteStep, LInv
<1>7. LiveSet' = {j \in 1 .. n : j + 1 \in js}
  <2>1. ASSUME NEW j \in 1 .. n
        PROVE  Live(j)' <=> Live(j + 1)
    <3>1. PICK i : i = j + 1
      OBVIOUS
    <3>2. i \in 1 .. n + 1 /\ asicCh'[j] = asicCh[i]
      BY <1>4, <2>1, <3>1
    <3>3. ASSUME Live(j)', NEW k \in i + 1 .. n + 1, asicCh[k].op = "Del"
          PROVE  asicCh[k].prefix # asicCh[i].prefix
      <4>1. PICK l : l = k - 1
        OBVIOUS
      <4>2. l \in j + 1 .. Len(asicCh') /\ l \in 1 .. n /\ k = l + 1
        BY <1>4, <3>1, <4>1
      <4> QED BY <1>4, <3>2, <3>3, <4>2 DEF Live
    <3>4. ASSUME Live(i), NEW l \in j + 1 .. n, asicCh'[l].op = "Del"
          PROVE  asicCh'[l].prefix # asicCh'[j].prefix
      <4>1. PICK k : k = l + 1
        OBVIOUS
      <4>2. k \in i + 1 .. Len(asicCh) /\ l \in 1 .. n
        BY <1>4, <3>1, <4>1
      <4> QED BY <1>4, <3>2, <3>4, <4>1, <4>2 DEF Live
    <3> QED BY <1>4, <3>1, <3>3, <3>4 DEF Live
  <2> QED BY <1>4, <1>5, <2>1 DEF LiveSet
<1>8. LiveInv'
  <2>1. PICK js2 : js2 = {j \in 1 .. n : j + 1 \in js}
    OBVIOUS
  <2>2. ChannelBase /\ Marked(js) /\ js \subseteq DOMAIN asicCh
    BY <1>5 DEF RouteStep, LInv, LiveInv, LiveSet
  <2>3. ChannelBase' /\ Marked({j \in 1 .. n : j + 1 \in js})'
    <3>1. Len(asicCh) = n + 1 /\ m = asicCh[1] /\ p = m.prefix
      BY <1>4, <1>5
    <3>2. /\ hwRoute' = [hwRoute EXCEPT ![p] = t] /\ t \in Target
          /\ Forwards(t) \/ t = NoRoute
          /\ t = m.target \/ Overtaken(p, js)
      BY <1>6
    <3> QED BY <2>2, <3>1, <3>2, BaseServe
  <2>4. Marked(js2)'
    BY <2>1, <2>3
  <2> QED BY <1>7, <2>1, <2>3, <2>4, LiveNext
<1>9. LiveHeld'
  <2>1. ASSUME NEW j \in LiveSet', asicCh'[j].op = "Add"
        PROVE  HeldTarget(asicCh[j].prefix, asicCh[j].target)'
    <3>1. PICK i, q, u : i = j + 1 /\ q = asicCh[i].prefix /\ u = asicCh[i].target
      OBVIOUS
    <3>2. i \in js /\ asicCh'[j] = asicCh[i] /\ q \in Prefix
      BY <1>4, <1>7, <2>1, <3>1 DEF Message
    <3>3. HeldTarget(q, u)
      BY <1>5, <2>1, <3>1, <3>2 DEF RouteStep, LInv, LiveHeld
    <3>4. SingleNh(q)' = SingleNh(q) /\ ipNextHopGroupDB' = ipNextHopGroupDB
      BY <1>1, <1>2, <3>2 DEF nhMgrVars
    <3> QED BY <3>1, <3>2, <3>3, <3>4 DEF HeldTarget
  <2> QED BY <2>1 DEF LiveHeld
<1>10. HwInv'
  <2>1. UNCHANGED <<hwNextHop, hwGroup>>
    BY <1>1 DEF nhMgrVars
  <2>2. ASSUME NEW q \in Prefix
        PROVE  Plain(hwRoute'[q]) /\ Exists(hwRoute[q])'
    <3>1. Plain(hwRoute'[q]) /\ Exists(hwRoute'[q])
      BY <1>6 DEF RouteStep, LInv, LiveInv, ChannelBase, HwInv
    <3> QED BY <2>1, <3>1 DEF Exists
  <2>3. ASSUME NEW j \in 1 .. n
        PROVE  Plain(asicCh'[j].target)
    <3>1. asicCh'[j] = asicCh[j + 1] /\ j + 1 \in DOMAIN asicCh
      BY <1>4
    <3>2. Plain(asicCh[j + 1].target)
      BY <3>1 DEF RouteStep, LInv, HwInv
    <3> QED BY <3>1, <3>2
  <2>4. \A q \in Prefix : Plain(hwRoute[q])' /\ Exists(hwRoute[q])'
    BY <2>2 DEF Plain
  <2>5. (\A j \in DOMAIN asicCh : Plain(asicCh[j].target))'
    BY <1>4, <2>3 DEF Plain
  <2> QED BY <2>4, <2>5 DEF HwInv
<1>11. GroupRefs'
  <2>1. \A g : Holders(g)' = Holders(g)
    BY <1>2 DEF Holders
  <2> QED BY <1>1, <2>1 DEF RouteStep, LInv, GroupRefs, Deleting, Replacing, nhMgrVars
<1>12. DoneInv'
  BY DoneServed DEF RouteStep, LInv, LiveInv
<1> QED BY <1>3, <1>8, <1>9, <1>10, <1>11, <1>12 DEF RouteStep, LInv

\* A call is queued or dropped, the kernel and the key list move on.
LEMMA LQuiet ==
  ASSUME RouteStep, UNCHANGED <<nhMgrVars, dbVars, pc, cur, doneChannel, asicCh, hwRoute>>
  PROVE  LInv'
<1>1. UNCHANGED <<ipRouteDB, nextHopMap, ecmpGrpId, pc, cur, ipNextHopGroupDB, grpRefCount>>
  BY DEF dbVars, nhMgrVars
<1>2. \A q \in Prefix : SingleNh(q)' = SingleNh(q) /\ HeldGroup(q)' = HeldGroup(q)
                        /\ AskedTarget(q)' = AskedTarget(q)
  BY <1>1, SameHoldings
<1>3. LNhInv' /\ LiveInv'
  BY <1>2, LNhSame, LiveKept DEF RouteStep, LInv
<1>4. LiveHeld'
  BY <1>1, <1>2, HeldKept DEF RouteStep, LInv, LiveInv
<1>5. KeepsBusy
  BY DEF nhMgrVars, KeepsBusy
<1>6. HwInv'
  BY <1>5, HwKept DEF RouteStep, LInv, LiveInv
<1>7. GroupRefs'
  <2>1. \A g : Holders(g)' = Holders(g)
    BY <1>2 DEF Holders
  <2> QED BY <1>1, <2>1 DEF RouteStep, LInv, GroupRefs, Deleting, Replacing
<1>8. DoneInv'
  BY <1>1 DEF RouteStep, LInv, DoneInv, Waiting
<1> QED BY <1>3, <1>4, <1>6, <1>7, <1>8 DEF RouteStep, LInv

-----------------------------------------------------------------------------
(***************************************************************************)
(* The whole system.                                                       *)
(***************************************************************************)
L3Inv == RInv /\ ("linux" \in Plugins => LinuxInv) /\ LInv /\ NbrInv

LEMMA InitL3 == L3Init => L3Inv
<1> SUFFICES ASSUME L3Init PROVE L3Inv
  OBVIOUS
<1>0. Init /\ NbrMgrInit
  BY DEF L3Init
<1>1. AInv /\ RInv /\ LinuxInv
  BY <1>0, InitA, InitDb, InitKeys, InitLinux DEF RInv
<1>2. /\ hwNbr = [ip \in NextHop |-> None] /\ at = [t \in Thread |-> "idle"]
      /\ job = [t \in Thread |-> None]
  BY <1>0 DEF NbrMgrInit
<1>3. \A ip \in NextHop : Where(ip) = "idle"
  <2>1. \A ip \in NextHop : Owner[ip] \in Thread
    BY OwnerAssumption DEF Thread
  <2> QED BY <1>2, <2>1 DEF Where
<1>4. NbrInv
  <2>1. ThreadInv
    <3>1. \A t \in Thread : at[t] = "idle"
      BY <1>2
    <3>2. at \in [Thread -> Busy \cup FdbStep] /\ DOMAIN job = Thread
      BY <1>2 DEF FdbStep
    <3>3. "fdb" \in Thread /\ \A c \in Client : c \in Thread
      BY DEF Thread
    <3> QED BY <3>1, <3>2, <3>3 DEF ThreadInv
  <2>2. hwNbr \in [NextHop -> Mac \cup {None}]
    BY <1>2
  <2> QED BY <1>3, <2>1, <2>2 DEF NbrInv
<1>5. NbrHolds = {}
  BY <1>2, <1>3 DEF NbrHolds, Holding
<1>6. asicCh = <<>> /\ pc = "idle" /\ hwRoute = [p \in Prefix |-> NoRoute]
  BY <1>0 DEF Init, RouteInit
<1>7. LNhInv
  <2>1. PICK s, u, h : s = SingleCount /\ u = UseCount /\ h = HoldCount
    OBVIOUS
  <2>2. \A x \in NextHop : u[x] = s[x] + 0 /\ s[x] \in Nat
    BY <1>5, <2>1, UseIs, HoldingsCounts DEF Counts
  <2>3. Tables(s, h)
    BY <1>1, <2>1 DEF AInv, NhInv
  <2>4. ASSUME NEW ip \in NextHop
        PROVE  refCount[ip] >= u[ip] + Cardinality(Memberships(ip)) /\ (refCount[ip] > 0 => ip \in nextHopDB)
    <3>1. refCount[ip] = s[ip] + Cardinality(Memberships(ip)) /\ (ip \in nextHopDB <=> refCount[ip] > 0)
      BY <2>3, <2>4 DEF Tables
    <3>2. refCount[ip] \in Int /\ u[ip] = s[ip]
      BY <2>2, <2>3, <2>4 DEF Tables, NHMgrTypeOK
    <3> QED BY <3>1, <3>2
  <2>5. Loose(u, h)
    BY <2>3, <2>4 DEF Tables, Loose
  <2> QED BY <2>1, <2>5 DEF LNhInv
<1>8. GroupRefs
  BY <1>6 DEF GroupRefs, Deleting, Replacing
<1>9. LiveSet = {} /\ DOMAIN asicCh = {}
  BY <1>6 DEF LiveSet
<1>10. LiveInv /\ LiveHeld
  BY <1>1, <1>9 DEF AInv, ChannelInv, LiveInv, LiveHeld, Marked
<1>11. HwInv
  BY <1>6, <1>9 DEF HwInv, Plain, Exists, NoRoute
<1> QED BY <1>1, <1>4, <1>7, <1>8, <1>10, <1>11 DEF L3Inv, LInv, AInv

\* A route step leaves the neighbour manager as it is.
LEMMA NbrSame ==
  ASSUME NbrInv, UNCHANGED nbrMgrVars
  PROVE  NbrInv' /\ NbrHolds' = NbrHolds
<1>1. UNCHANGED <<at, job, hwNbr>>
  BY DEF nbrMgrVars, threadVars
<1>2. \A ip : Where(ip)' = Where(ip)
  BY <1>1 DEF Where
<1>3. \A ip : Holding(ip)' = Holding(ip)
  BY <1>1, <1>2 DEF Holding
<1>4. ThreadInv'
  BY <1>1 DEF NbrInv, ThreadInv, MacKnown
<1> QED BY <1>1, <1>2, <1>3, <1>4 DEF NbrInv, NbrHolds

LEMMA RouteNext ==
  ASSUME OrdinaryOnly, L3Inv, Next, UNCHANGED nbrMgrVars
  PROVE  L3Inv'
<1>1. RInv' /\ ("linux" \in Plugins => LinuxInv')
  BY NextRInv DEF L3Inv, LinuxStep
<1>2. NbrInv' /\ NbrHolds' = NbrHolds
  BY NbrSame DEF L3Inv
<1>3. RouteStep
  BY <1>1, <1>2 DEF L3Inv, RInv, RouteStep
<1>4. LInv'
  <2>1. CASE TakeAddFirst \/ TakeAddSecond \/ TakeAddMore \/ DropSingle \/ Program
    BY <1>3, <2>1, LTakeAddFirst, LTakeAddSecond, LDropSingle, LProgram
  <2>2. CASE TakeDel \/ WaitDel \/ ReleaseLast \/ ReplaceGroup \/ WaitUpd
    BY <1>3, <2>2, LTakeDel, LWaitDel, LReleaseLast, LReplaceGroup, LWaitUpd
  <2>3. CASE AsicServer
    BY <1>3, <2>3, LAsicServer
  <2>4. CASE \/ \E p \in Prefix, nh \in NextHop : CreateIPRoute(p, nh) \/ DeleteIPRoute(p, nh)
             \/ TakeNoOp \/ LinuxServer \/ KeyServer
    <3>1. UNCHANGED <<nhMgrVars, dbVars, pc, cur, doneChannel, asicCh, hwRoute>>
      BY <2>4 DEF CreateIPRoute, DeleteIPRoute, QueueOp, TakeNoOp, LinuxServer, KeyServer, hwVars
    <3> QED BY <1>3, <3>1, LQuiet
  <2> QED BY <2>1, <2>2, <2>3, <2>4 DEF Next, Handler
<1> QED BY <1>1, <1>2, <1>4 DEF L3Inv

\* What a step of the neighbour manager leaves: only the next hops change.
LEMMA NeighborKept ==
  ASSUME LInv, DbInv', UNCHANGED routeVars, LNhInv', KeepsBusy,
         UNCHANGED <<ipNextHopGroupDB, grpRefCount>>
  PROVE  LInv'
<1>1. UNCHANGED <<ipRouteDB, nextHopMap, ecmpGrpId, pc, cur, asicCh, hwRoute, doneChannel>>
  BY DEF routeVars, dbVars, hwVars
<1>2. \A q \in Prefix : SingleNh(q)' = SingleNh(q) /\ HeldGroup(q)' = HeldGroup(q)
                        /\ AskedTarget(q)' = AskedTarget(q)
  BY <1>1, SameHoldings
<1>3. LiveInv'
  BY <1>1, <1>2, LiveKept DEF LInv
<1>4. LiveHeld'
  BY <1>1, <1>2, HeldKept DEF LInv, LiveInv
<1>5. HwInv'
  BY <1>1, HwKept DEF LInv, LiveInv
<1>6. GroupRefs'
  <2>1. \A g : Holders(g)' = Holders(g)
    BY <1>2 DEF Holders
  <2> QED BY <1>1, <2>1 DEF LInv, GroupRefs, Deleting, Replacing
<1>7. DoneInv'
  BY <1>1 DEF LInv, DoneInv, Waiting
<1> QED BY <1>3, <1>4, <1>5, <1>6, <1>7 DEF LInv

LEMMA NeighborNext ==
  ASSUME L3Inv, Neighbors, UNCHANGED routeVars
  PROVE  L3Inv'
<1>1. UNCHANGED <<dbVars, keyVars, pc, cur, linuxCh, kernelRoute, routeOpChannel>>
  BY DEF routeVars, hwVars
<1>2. RInv' /\ ("linux" \in Plugins => LinuxInv')
  <2>1. routeOpChannel' \in Seq(Operations)
    BY <1>1 DEF L3Inv, RInv, DbInv, DbType
  <2> QED BY <1>1, <2>1, QuietStep DEF L3Inv, LinuxStep
<1>3. NbrInv' /\ (KeepsHolds \/ TakesHold \/ DropsHold)
  BY NeighborsEffect DEF L3Inv, LInv, LNhInv, Loose
<1>4. \A q \in Prefix : SingleNh(q)' = SingleNh(q) /\ HeldGroup(q)' = HeldGroup(q)
  <2>1. UNCHANGED <<ipRouteDB, nextHopMap, ecmpGrpId, pc, cur>>
    BY DEF routeVars, dbVars
  <2> QED BY <2>1, SameHoldings
<1>5. PICK s, h, s2 : s = UseCount /\ h = HoldCount /\ s2 = UseCount'
  OBVIOUS
<1>6. /\ h = HoldCount' /\ Counts(s, h) /\ Counts(s2, h) /\ Loose(s, h)
      /\ SingleCount' = SingleCount
      /\ \A x \in NextHop : SingleCount[x] \in Nat
  <2>1. h = HoldCount' /\ SingleCount' = SingleCount
    BY <1>4, <1>5, HoldersSame, SinglesSame
  <2> QED BY <1>5, <2>1, UseIs, HoldingsCounts DEF L3Inv, LInv, LNhInv, Counts
<1>7. LNhInv' /\ KeepsBusy /\ UNCHANGED <<ipNextHopGroupDB, grpRefCount>>
  <2>1. CASE KeepsHolds
    BY <1>4, <2>1, LNhSame DEF KeepsHolds, KeepsBusy, nhMgrVars, L3Inv, LInv
  <2>2. CASE TakesHold
    <3>1. PICK ip \in NextHop : /\ ip \notin NbrHolds /\ NbrHolds' = NbrHolds \cup {ip}
                                /\ CreateNextHop(ip, "NBR_CREATE")
      BY <2>2 DEF TakesHold
    <3>2. s2[ip] = s[ip] + 1 /\ \A x \in NextHop \ {ip} : s2[x] = s[x]
      BY <1>5, <1>6, <3>1, UseIs
    <3>3. Loose(s2, h)'
      BY <1>6, <3>1, <3>2, CreateNextHopLoose
    <3>4. LNhInv'
      BY <1>5, <1>6, <3>3, LNhNext
    <3>5. UNCHANGED <<ipNextHopGroupDB, grpRefCount>> /\ nextHopDB \subseteq nextHopDB'
      BY <3>1 DEF CreateNextHop
    <3>6. KeepsBusy
      BY <3>4, <3>5, GrowingKeeps DEF L3Inv, LInv
    <3> QED BY <3>4, <3>5, <3>6
  <2>3. CASE DropsHold
    <3>1. PICK ip \in NextHop : /\ ip \in NbrHolds /\ NbrHolds' = NbrHolds \ {ip}
                                /\ DeleteNextHop(ip, BusyNextHops)
      BY <2>3 DEF DropsHold
    <3>2. s[ip] = s2[ip] + 1 /\ \A x \in NextHop \ {ip} : s2[x] = s[x]
      BY <1>5, <1>6, <3>1, UseIs
    <3>3. Loose(s2, h)'
      BY <1>6, <3>1, <3>2, DeleteNextHopLoose
    <3>4. LNhInv'
      BY <1>5, <1>6, <3>3, LNhNext
    <3>5. UNCHANGED <<ipNextHopGroupDB, grpRefCount>>
      BY <3>1 DEF DeleteNextHop
    <3>6. KeepsBusy
      BY <3>1, DeleteNextHopKeeps
    <3> QED BY <3>4, <3>5, <3>6
  <2> QED BY <1>3, <2>1, <2>2, <2>3
<1>8. LInv'
  BY <1>2, <1>7, NeighborKept DEF L3Inv, RInv
<1> QED BY <1>2, <1>3, <1>8 DEF L3Inv

LEMMA NextL3 ==
  ASSUME OrdinaryOnly, L3Inv, [L3Next]_l3Vars
  PROVE  L3Inv'
<1>1. CASE Next /\ UNCHANGED nbrMgrVars
  BY <1>1, RouteNext
<1>2. CASE Neighbors /\ UNCHANGED routeVars
  BY <1>2, NeighborNext
<1>3. CASE UNCHANGED l3Vars
  <2>1. UNCHANGED nhMgrVars /\ UNCHANGED routeVars /\ UNCHANGED nbrMgrVars
    BY <1>3 DEF l3Vars
  <2>2. RInv' /\ ("linux" \in Plugins => LinuxInv')
    BY <2>1, StutterRInv DEF L3Inv, LinuxStep, vars
  <2>3. NbrInv' /\ NbrHolds' = NbrHolds
    BY <2>1, NbrSame DEF L3Inv
  <2>4. RouteStep
    BY <2>2, <2>3 DEF L3Inv, RInv, RouteStep
  <2>5. UNCHANGED <<nhMgrVars, dbVars, pc, cur, doneChannel, asicCh, hwRoute>>
    BY <2>1 DEF routeVars, hwVars
  <2>6. LInv'
    BY <2>4, <2>5, LQuiet
  <2> QED BY <2>2, <2>3, <2>6 DEF L3Inv
<1> QED BY <1>1, <1>2, <1>3 DEF L3Next

\* The database, the next hop tables, the ASIC's channel and the neighbours stay
\* consistent, whatever the route goroutine, the route servers, the clients and
\* the FDB callback interleave.
THEOREM RoutesAndNeighbours ==
  ASSUME OrdinaryOnly
  PROVE  L3Spec => []L3Inv
<1>1. L3Inv /\ [L3Next]_l3Vars => L3Inv'
  BY NextL3
<1> QED BY InitL3, <1>1, PTL DEF L3Spec

\* The next hops of a route of the database, and its group, exist in the tables
\* and in the ASIC between operations, although neighbours that share them come
\* and go (DeleteNextHop and DeleteNextHopGroup, nexthopMgr.go).
THEOREM RoutesKeepTheirNextHops ==
  ASSUME OrdinaryOnly
  PROVE  L3Spec => []RoutesHoldTheirNextHops
<1>1. L3Inv => RoutesHoldTheirNextHops
  <2> SUFFICES ASSUME L3Inv, pc = "idle", NEW p \in ipRouteDB
               PROVE  /\ Held(p) \subseteq nextHopDB \cap hwNextHop
                      /\ ecmpGrpId[p] # NoGroup => ecmpGrpId[p] \in hwGroup
    BY DEF RoutesHoldTheirNextHops
  <2>1. /\ DbInv /\ LNhInv /\ hwNextHop = nextHopDB /\ hwGroup = ipNextHopGroupDB
        /\ p \in Prefix /\ ~Mine(p) /\ Settled(p)
    BY DEF L3Inv, LInv, LNhInv, Loose, DbInv, DbType, Mine
  <2>2. CASE ecmpGrpId[p] = NoGroup
    <3>1. SingleNh(p) = nextHopMap[p]
      BY <2>1, <2>2 DEF SingleNh
    <3> QED BY <2>1, <2>2, <3>1, LooseHeld DEF Held
  <2>3. CASE ecmpGrpId[p] # NoGroup
    <3>1. HeldGroup(p) = ecmpGrpId[p] /\ ecmpGrpId[p] = nextHopMap[p]
      BY <2>1, <2>3 DEF HeldGroup, Settled, Serves
    <3>2. nextHopMap[p] \in ipNextHopGroupDB
      BY <2>1, <2>3, <3>1, LooseHeld
    <3> QED BY <2>1, <3>1, <3>2, MembersExist DEF Held
  <2> QED BY <2>2, <2>3
<1> QED BY <1>1, RoutesAndNeighbours, PTL

\* The drained ASIC and the drained kernel have the routes of the database, also
\* when the neighbour manager released next hops while routes were queued.
THEOREM PluginsFollowDb ==
  ASSUME OrdinaryOnly
  PROVE  L3Spec => []PluginsAgree
<1>1. L3Inv => PluginsAgree
  <2> SUFFICES ASSUME L3Inv, pc = "idle"
               PROVE  /\ asicCh = <<>> => \A p \in Prefix : hwRoute[p].nhs = nextHopMap[p]
                      /\ "linux" \in Plugins /\ linuxCh = <<>> =>
                           \A p \in Prefix : kernelRoute[p] = nextHopMap[p] \ Connected
    BY DEF PluginsAgree
  <2>1. ASSUME asicCh = <<>>, NEW p \in Prefix
        PROVE  hwRoute[p].nhs = nextHopMap[p]
    <3>1. hwRoute[p] = AskedTarget(p)
      BY <2>1, Drained DEF L3Inv, LInv, LiveInv
    <3>2. Asked(p) = nextHopMap[p]
      BY DEF Asked, Mine
    <3> QED BY <3>1, <3>2, AskedNhs
  <2>2. ASSUME "linux" \in Plugins, linuxCh = <<>>, NEW p \in Prefix
        PROVE  kernelRoute[p] = nextHopMap[p] \ Connected
    <3>1. KernelAgrees
      BY <2>2, KernelDrained DEF L3Inv, RInv
    <3> QED BY <2>2, <3>1 DEF KernelAgrees, Idle
  <2> QED BY <2>1, <2>2
<1> QED BY <1>1, RoutesAndNeighbours, PTL
-----------------------------------------------------------------------------
(***************************************************************************)
(* The next hop manager alone: NextHopPool, for every finite set of next   *)
(* hops and every bound.  Its clients give back only what they hold, so    *)
(* the tables are exact here, where LNhInv only bounds them.  TablesInv    *)
(* adds to the checked properties that the ASIC holds exactly the groups   *)
(* of the table: with it a removal at count zero can never meet a group    *)
(* that still contains the next hop, so the ASIC never refuses and no      *)
(* entry is left behind with count zero.                                   *)
(***************************************************************************)
GroupsInHw == hwGroup = ipNextHopGroupDB

TablesInv == PoolTypeOK /\ CountsExact /\ EntriesCounted /\ GroupsInHw

\* The number of groups an address is in is a number, zero for no groups only.
LEMMA GroupsFinite ==
  ASSUME NEW groups \in SUBSET Group, NEW ip \in NextHop
  PROVE  /\ IsFiniteSet(GroupsOf(ip, groups))
         /\ Cardinality(GroupsOf(ip, groups)) \in Nat
         /\ Cardinality(GroupsOf(ip, groups)) = 0 => \A g \in groups : ip \notin g
<1>1. IsFiniteSet(SUBSET NextHop)
  BY NextHopAssumption, FS_SUBSET
<1>2. IsFiniteSet(GroupsOf(ip, groups))
  BY <1>1, FS_Subset DEF GroupsOf, Group
<1>3. Cardinality(GroupsOf(ip, groups)) \in Nat
  BY <1>2, FS_CardinalityType
<1>4. Cardinality(GroupsOf(ip, groups)) = 0 => GroupsOf(ip, groups) = {}
  BY <1>2, FS_EmptySet
<1> QED BY <1>2, <1>3, <1>4 DEF GroupsOf

\* Adding a group counts once for each of its members.
LEMMA GroupsAdd ==
  ASSUME NEW groups \in SUBSET Group, NEW g \in Group, g \notin groups,
         NEW ip \in NextHop
  PROVE  Cardinality(GroupsOf(ip, groups \cup {g}))
           = Cardinality(GroupsOf(ip, groups)) + (IF ip \in g THEN 1 ELSE 0)
<1>1. CASE ip \in g
  <2>1. GroupsOf(ip, groups \cup {g}) = GroupsOf(ip, groups) \cup {g}
    BY <1>1 DEF GroupsOf
  <2>2. g \notin GroupsOf(ip, groups)
    BY DEF GroupsOf
  <2> QED BY <1>1, <2>1, <2>2, GroupsFinite, FS_AddElement
<1>2. CASE ip \notin g
  <2>1. GroupsOf(ip, groups \cup {g}) = GroupsOf(ip, groups)
    BY <1>2 DEF GroupsOf
  <2> QED BY <1>2, <2>1, GroupsFinite
<1> QED BY <1>1, <1>2

\* Removing a group gives one back for each of its members.
LEMMA GroupsRemove ==
  ASSUME NEW groups \in SUBSET Group, NEW g \in groups, NEW ip \in NextHop
  PROVE  Cardinality(GroupsOf(ip, groups))
           = Cardinality(GroupsOf(ip, groups \ {g})) + (IF ip \in g THEN 1 ELSE 0)
<1>1. g \in Group /\ groups \ {g} \in SUBSET Group /\ g \notin groups \ {g}
  OBVIOUS
<1>2. groups = (groups \ {g}) \cup {g}
  OBVIOUS
<1> QED BY <1>1, <1>2, GroupsAdd

-----------------------------------------------------------------------------
\* Under TablesInv counts are natural numbers and absent entries count zero.
LEMMA CountsNat ==
  ASSUME TablesInv, NEW ip \in NextHop
  PROVE  /\ Users(ip) \in Nat
         /\ refCount[ip] \in Nat
         /\ ip \in nextHopDB <=> refCount[ip] > 0
<1>1. ipNextHopGroupDB \in SUBSET Group
  BY DEF TablesInv, PoolTypeOK, NHMgrTypeOK
<1>2. Cardinality(GroupsOf(ip, ipNextHopGroupDB)) \in Nat
  BY <1>1, GroupsFinite
<1>3. Users(ip) \in Nat
  BY <1>2 DEF Users, TablesInv, PoolTypeOK
<1>4. refCount[ip] \in Nat
  BY <1>3 DEF TablesInv, PoolTypeOK, CountsExact
<1> QED BY <1>3, <1>4 DEF TablesInv, EntriesCounted

\* Under TablesInv the count of a group is a natural number, zero when absent.
LEMMA GroupCountsNat ==
  ASSUME TablesInv, NEW g \in Group
  PROVE  /\ grpRefCount[g] \in Nat
         /\ grpRefCount[g] = groupUses[g]
         /\ g \in ipNextHopGroupDB <=> grpRefCount[g] > 0
BY DEF TablesInv, PoolTypeOK, CountsExact, EntriesCounted

\* A next hop that a group contains has an entry.
LEMMA MembersHaveEntries ==
  ASSUME TablesInv, NEW g \in ipNextHopGroupDB, NEW ip \in g
  PROVE  ip \in nextHopDB /\ refCount[ip] > 0
<1>1. ip \in NextHop /\ ipNextHopGroupDB \in SUBSET Group
  BY DEF TablesInv, PoolTypeOK, NHMgrTypeOK, Group
<1>2. Cardinality(GroupsOf(ip, ipNextHopGroupDB)) \in Nat \ {0}
  BY <1>1, GroupsFinite
<1>3. Users(ip) > 0
  BY <1>1, <1>2 DEF Users, TablesInv, PoolTypeOK
<1>4. refCount[ip] = Users(ip) + counted[ip] /\ counted[ip] \in Nat
  BY <1>1 DEF TablesInv, CountsExact, PoolTypeOK
<1>5. refCount[ip] > 0
  BY <1>1, <1>3, <1>4, CountsNat
<1> QED BY <1>1, <1>5 DEF TablesInv, EntriesCounted

\* TakeMembers adds one reference to every member, creating missing entries.
LEMMA TakeMembersEffect ==
  ASSUME TablesInv, NEW g \in Group, TakeMembers(g)
  PROVE  /\ refCount' \in [NextHop -> Int]
         /\ nextHopDB' \subseteq NextHop
         /\ \A ip \in NextHop :
              /\ refCount'[ip] = refCount[ip] + (IF ip \in g THEN 1 ELSE 0)
              /\ ip \in nextHopDB' <=> refCount'[ip] > 0
<1>1. g \subseteq NextHop
  BY DEF Group
<1>2. ASSUME NEW ip \in NextHop
      PROVE  /\ refCount'[ip] = refCount[ip] + (IF ip \in g THEN 1 ELSE 0)
             /\ refCount'[ip] \in Int
             /\ ip \in nextHopDB' <=> refCount'[ip] > 0
  <2>1. /\ refCount[ip] \in Nat
        /\ ip \in nextHopDB <=> refCount[ip] > 0
    BY CountsNat
  <2>2. refCount'[ip] = IF ip \notin g THEN refCount[ip]
                        ELSE IF ip \in nextHopDB THEN refCount[ip] + 1 ELSE 1
    BY DEF TakeMembers
  <2>3. ip \in nextHopDB' <=> ip \in nextHopDB \/ ip \in g
    BY DEF TakeMembers
  <2> QED BY <2>1, <2>2, <2>3
<1>3. nextHopDB' \subseteq NextHop
  BY <1>1 DEF TakeMembers, TablesInv, PoolTypeOK, NHMgrTypeOK
<1>4. refCount' \in [NextHop -> Int]
  BY <1>2 DEF TakeMembers
<1> QED BY <1>2, <1>3, <1>4

\* ReleaseMembers takes one reference from every member of a group that is
\* going away, and the ASIC refuses none of the removals this causes.
LEMMA ReleaseMembersEffect ==
  ASSUME TablesInv, NEW g \in ipNextHopGroupDB, ReleaseMembers(g, {})
  PROVE  /\ refCount' \in [NextHop -> Int]
         /\ nextHopDB' \subseteq NextHop
         /\ \A ip \in NextHop :
              /\ refCount'[ip] = refCount[ip] - (IF ip \in g THEN 1 ELSE 0)
              /\ ip \in nextHopDB' <=> refCount'[ip] > 0
<1>1. g \in Group /\ g \subseteq NextHop /\ ipNextHopGroupDB \in SUBSET Group
  BY DEF Group, TablesInv, PoolTypeOK, NHMgrTypeOK
<1>2. \A ip \in g : ip \in nextHopDB
  BY MembersHaveEntries
<1>3. ASSUME NEW ip \in NextHop
      PROVE  /\ refCount'[ip] = refCount[ip] - (IF ip \in g THEN 1 ELSE 0)
             /\ refCount'[ip] \in Int
             /\ ip \in nextHopDB' <=> refCount'[ip] > 0
  <2>1. /\ refCount[ip] \in Nat
        /\ ip \in nextHopDB <=> refCount[ip] > 0
    BY CountsNat
  <2>2. refCount'[ip] = IF ip \in g \cap nextHopDB THEN refCount[ip] - 1
                        ELSE refCount[ip]
    BY DEF ReleaseMembers
  <2>3. refCount'[ip] = refCount[ip] - (IF ip \in g THEN 1 ELSE 0)
    BY <1>2, <2>1, <2>2
  <2>4. ip \in nextHopDB' <=>
          ip \in nextHopDB /\ ~(ip \in g /\ DropsNextHop(ip, hwGroup \ {g}, {}))
    BY DEF ReleaseMembers
  <2>5. ASSUME ip \in g, refCount[ip] = 1
        PROVE  DropsNextHop(ip, hwGroup \ {g}, {})
    <3>1. Cardinality(GroupsOf(ip, ipNextHopGroupDB))
            = Cardinality(GroupsOf(ip, ipNextHopGroupDB \ {g})) + 1
      BY <1>1, <2>5, GroupsRemove
    <3>2. Cardinality(GroupsOf(ip, ipNextHopGroupDB \ {g})) \in Nat
      BY <1>1, GroupsFinite
    <3>3. refCount[ip] = Users(ip) + counted[ip] /\ counted[ip] \in Nat
      BY DEF TablesInv, CountsExact, PoolTypeOK
    <3>4. Cardinality(GroupsOf(ip, ipNextHopGroupDB \ {g})) = 0
      BY <2>5, <3>1, <3>2, <3>3 DEF Users, TablesInv, PoolTypeOK
    <3>5. \A h \in ipNextHopGroupDB \ {g} : ip \notin h
      BY <1>1, <3>4, GroupsFinite
    <3>6. ~NextHopInUse(ip, hwGroup \ {g}, {})
      BY <3>5 DEF NextHopInUse, TablesInv, GroupsInHw
    <3> QED BY <1>2, <2>5, <3>6 DEF DropsNextHop
  <2>6. ip \in g => ((ip \in nextHopDB') <=> (refCount[ip] # 1))
    BY <1>2, <2>4, <2>5 DEF DropsNextHop
  <2>7. ip \notin g => ((ip \in nextHopDB') <=> (ip \in nextHopDB))
    BY <2>4
  <2>8. ip \in g => refCount[ip] > 0
    BY <1>2, <2>1
  <2> QED BY <2>1, <2>3, <2>6, <2>7, <2>8
<1>4. nextHopDB' \subseteq NextHop
  BY DEF ReleaseMembers, TablesInv, PoolTypeOK, NHMgrTypeOK
<1>5. refCount' \in [NextHop -> Int]
  BY <1>3 DEF ReleaseMembers
<1> QED BY <1>3, <1>4, <1>5

-----------------------------------------------------------------------------
\* CreateNextHop adds references to one next hop, creating a missing entry.
LEMMA CreateNextHopEffect ==
  ASSUME TablesInv, NEW ip \in NextHop, NEW op \in Operation,
         CreateNextHop(ip, op)
  PROVE  /\ refCount' \in [NextHop -> Int]
         /\ nextHopDB' \subseteq NextHop
         /\ hwNextHop' \subseteq NextHop
         /\ \A j \in NextHop :
              /\ refCount'[j] = refCount[j] +
                   (IF j # ip THEN 0
                    ELSE IF ip \in nextHopDB THEN ReferencesTaken(op) ELSE 1)
              /\ j \in nextHopDB' <=> refCount'[j] > 0
<1>1. /\ refCount \in [NextHop -> Int]
      /\ nextHopDB \subseteq NextHop
      /\ hwNextHop \subseteq NextHop
  BY DEF TablesInv, PoolTypeOK, NHMgrTypeOK
<1>2. \A j \in NextHop : refCount[j] \in Nat /\ (j \in nextHopDB <=> refCount[j] > 0)
  BY CountsNat
<1>3. ReferencesTaken(op) \in {1, 2}
  BY DEF ReferencesTaken
<1>4. refCount' = [refCount EXCEPT ![ip] =
                     IF ip \in nextHopDB THEN @ + ReferencesTaken(op) ELSE 1]
  BY DEF CreateNextHop
<1>5. nextHopDB' = nextHopDB \cup {ip}
  BY DEF CreateNextHop
<1>6. hwNextHop' \subseteq NextHop
  BY <1>1 DEF CreateNextHop
<1> QED BY <1>1, <1>2, <1>3, <1>4, <1>5, <1>6

\* DeleteNextHop by one of several users, or by a user that is not a group,
\* takes one reference; the ASIC does not refuse.
LEMMA DeleteNextHopEffect ==
  ASSUME TablesInv, NEW ip \in NextHop,
         Users(ip) > Cardinality(GroupsOf(ip, ipNextHopGroupDB)),
         DeleteNextHop(ip, {})
  PROVE  /\ refCount' \in [NextHop -> Int]
         /\ nextHopDB' \subseteq NextHop
         /\ hwNextHop' \subseteq NextHop
         /\ ~DeleteNextHopFails(ip, {})
         /\ \A j \in NextHop :
              /\ refCount'[j] = refCount[j] - (IF j = ip THEN 1 ELSE 0)
              /\ j \in nextHopDB' <=> refCount'[j] > 0
<1>1. /\ refCount \in [NextHop -> Int]
      /\ nextHopDB \subseteq NextHop
      /\ hwNextHop \subseteq NextHop
      /\ ipNextHopGroupDB \in SUBSET Group
      /\ counted[ip] \in Nat
      /\ refCount[ip] = Users(ip) + counted[ip]
      /\ hwGroup = ipNextHopGroupDB
  BY DEF TablesInv, PoolTypeOK, NHMgrTypeOK, CountsExact, GroupsInHw
<1>2. \A j \in NextHop : refCount[j] \in Nat /\ (j \in nextHopDB <=> refCount[j] > 0)
  BY CountsNat
<1>3. Cardinality(GroupsOf(ip, ipNextHopGroupDB)) \in Nat /\ Users(ip) \in Nat
  BY <1>1, GroupsFinite, CountsNat
<1>4. ip \in nextHopDB
  BY <1>1, <1>2, <1>3
<1>5. refCount[ip] = 1 => ~NextHopInUse(ip, hwGroup, {})
  <2>1. ASSUME refCount[ip] = 1
        PROVE  Cardinality(GroupsOf(ip, ipNextHopGroupDB)) = 0
    BY <1>1, <1>3, <2>1
  <2>2. ASSUME refCount[ip] = 1
        PROVE  \A g \in ipNextHopGroupDB : ip \notin g
    BY <1>1, <2>1, <2>2, GroupsFinite
  <2> QED BY <1>1, <2>2 DEF NextHopInUse
<1>6. /\ nextHopDB' = IF refCount[ip] = 1 THEN nextHopDB \ {ip} ELSE nextHopDB
      /\ hwNextHop' = IF refCount[ip] = 1 THEN hwNextHop \ {ip} ELSE hwNextHop
      /\ refCount' = [refCount EXCEPT ![ip] = @ - 1]
  BY <1>4, <1>5 DEF DeleteNextHop, DropsNextHop
<1>7. ~DeleteNextHopFails(ip, {})
  BY <1>4, <1>5 DEF DeleteNextHopFails
<1> QED BY <1>1, <1>2, <1>6, <1>7

\* Adding a group to the table together with its members' references, or
\* removing both, keeps every next hop's count equal to its users.
LEMMA AddGroupCounts ==
  ASSUME TablesInv, NEW g \in Group, g \notin ipNextHopGroupDB,
         TakeMembers(g),
         ipNextHopGroupDB' = ipNextHopGroupDB \cup {g},
         UNCHANGED <<routeUses, nbrUses, counted>>
  PROVE  \A ip \in NextHop : refCount'[ip] = Users(ip)' + counted'[ip]
<1> SUFFICES ASSUME NEW ip \in NextHop
             PROVE  refCount'[ip] = Users(ip)' + counted'[ip]
  OBVIOUS
<1>1. /\ ipNextHopGroupDB \in SUBSET Group
      /\ routeUses[ip] \in Nat
      /\ counted[ip] \in Nat
      /\ refCount[ip] = Users(ip) + counted[ip]
  BY DEF TablesInv, PoolTypeOK, NHMgrTypeOK, CountsExact
<1>2. Cardinality(GroupsOf(ip, ipNextHopGroupDB)) \in Nat
  BY <1>1, GroupsFinite
<1>3. Users(ip)' = Users(ip) + (IF ip \in g THEN 1 ELSE 0)
  BY <1>1, <1>2, GroupsAdd DEF Users
<1>4. refCount'[ip] = refCount[ip] + (IF ip \in g THEN 1 ELSE 0)
  BY TakeMembersEffect
<1> QED BY <1>1, <1>3, <1>4, CountsNat

\* Removing a group from the table with its members' references keeps every
\* next hop's count equal to its users.
LEMMA RemoveGroupCounts ==
  ASSUME TablesInv, NEW g \in ipNextHopGroupDB, ReleaseMembers(g, {}),
         ipNextHopGroupDB' = ipNextHopGroupDB \ {g},
         UNCHANGED <<routeUses, nbrUses, counted>>
  PROVE  \A ip \in NextHop : refCount'[ip] = Users(ip)' + counted'[ip]
<1> SUFFICES ASSUME NEW ip \in NextHop
             PROVE  refCount'[ip] = Users(ip)' + counted'[ip]
  OBVIOUS
<1>1. /\ ipNextHopGroupDB \in SUBSET Group
      /\ routeUses[ip] \in Nat
      /\ counted[ip] \in Nat
      /\ refCount[ip] = Users(ip) + counted[ip]
  BY DEF TablesInv, PoolTypeOK, NHMgrTypeOK, CountsExact
<1>2. Cardinality(GroupsOf(ip, ipNextHopGroupDB \ {g})) \in Nat
  BY <1>1, GroupsFinite
<1>3. Users(ip) = Users(ip)' + (IF ip \in g THEN 1 ELSE 0)
  BY <1>1, <1>2, GroupsRemove DEF Users
<1>4. refCount'[ip] = refCount[ip] - (IF ip \in g THEN 1 ELSE 0)
  BY ReleaseMembersEffect
<1>5. Users(ip)' \in Int
  BY <1>1, <1>2 DEF Users
<1> QED BY <1>1, <1>3, <1>4, <1>5, CountsNat

\* TakeMembers creates ASIC objects for next hops only.
LEMMA TakeMembersHw ==
  ASSUME TablesInv, NEW g \in Group, TakeMembers(g)
  PROVE  hwNextHop' \subseteq NextHop
BY DEF TakeMembers, TablesInv, PoolTypeOK, NHMgrTypeOK, Group

-----------------------------------------------------------------------------
\* PoolInit establishes the invariant.
LEMMA InitTables == PoolInit => TablesInv
<1> SUFFICES ASSUME PoolInit PROVE TablesInv
  OBVIOUS
<1> USE DEF PoolInit, NHMgrInit
<1>1. PoolTypeOK
  BY DEF PoolTypeOK, NHMgrTypeOK
<1>2. \A ip \in NextHop : GroupsOf(ip, ipNextHopGroupDB) = {}
  BY DEF GroupsOf
<1>3. CountsExact
  BY <1>2, FS_EmptySet DEF CountsExact, Users
<1>4. EntriesCounted /\ GroupsInHw
  BY DEF EntriesCounted, GroupsInHw
<1> QED BY <1>1, <1>3, <1>4 DEF TablesInv

\* The invariant is inductive: one step per action of PoolNext.
LEMMA NextTables == TablesInv /\ [PoolNext]_poolVars => TablesInv'
<1> SUFFICES ASSUME TablesInv, [PoolNext]_poolVars PROVE TablesInv'
  OBVIOUS
<1> DEFINE inGroups(ip) == Cardinality(GroupsOf(ip, ipNextHopGroupDB))
<1>1. /\ PoolTypeOK /\ CountsExact /\ EntriesCounted
      /\ hwGroup = ipNextHopGroupDB
      /\ ipNextHopGroupDB \in SUBSET Group
  BY DEF TablesInv, GroupsInHw, PoolTypeOK, NHMgrTypeOK
<1>2. \A ip \in NextHop : inGroups(ip) \in Nat
  BY <1>1, GroupsFinite
<1>3. \A g \in Group : g \in ipNextHopGroupDB <=> grpRefCount[g] > 0
  BY GroupCountsNat
<1>12. grpRefCount = groupUses
  BY <1>1, GroupCountsNat DEF PoolTypeOK, NHMgrTypeOK
<1>13. /\ groupUses \in [Group -> Nat]
       /\ routeUses \in [NextHop -> Nat]
       /\ counted \in [NextHop -> Nat]
  BY <1>1 DEF PoolTypeOK
<1>4. ASSUME NEW ip \in NextHop, RouteTakes(ip)
      PROVE  TablesInv'
  <2>1. CreateNextHop(ip, "RT_NBR_CREATE")
    BY <1>4 DEF RouteTakes
  <2>2. /\ refCount' \in [NextHop -> Int]
        /\ nextHopDB' \subseteq NextHop
        /\ hwNextHop' \subseteq NextHop
        /\ \A j \in NextHop :
             /\ refCount'[j] = refCount[j] + (IF j = ip THEN 1 ELSE 0)
             /\ j \in nextHopDB' <=> refCount'[j] > 0
    <3>1. ReferencesTaken("RT_NBR_CREATE") = 1 /\ "RT_NBR_CREATE" \in Operation
      BY DEF ReferencesTaken, Operation
    <3>2. \A j \in NextHop : refCount[j] \in Nat
      BY CountsNat
    <3> QED BY <2>1, <3>1, <3>2, CreateNextHopEffect
  <2>3. UNCHANGED <<ipNextHopGroupDB, grpRefCount, hwGroup, nbrUses, groupUses, counted>>
    BY <1>4, <2>1 DEF RouteTakes, CreateNextHop
  <2>6. routeUses' = [routeUses EXCEPT ![ip] = @ + 1] /\ routeUses' \in [NextHop -> Nat]
    BY <1>4, <1>13 DEF RouteTakes
  <2>4. PoolTypeOK'
    BY <1>1, <2>2, <2>3, <2>6 DEF PoolTypeOK, NHMgrTypeOK
  <2>5. CountsExact'
    BY <1>1, <1>2, <1>13, <2>2, <2>3, <2>6 DEF CountsExact, Users
  <2> QED BY <1>1, <2>2, <2>3, <2>4, <2>5 DEF TablesInv, EntriesCounted, GroupsInHw
<1>5. ASSUME NEW ip \in NextHop, RouteReleases(ip)
      PROVE  TablesInv'
  <2>1. Users(ip) > inGroups(ip)
    BY <1>1, <1>2, <1>5 DEF PoolTypeOK, Users, RouteReleases
  <2>2. /\ refCount' \in [NextHop -> Int]
        /\ nextHopDB' \subseteq NextHop
        /\ hwNextHop' \subseteq NextHop
        /\ \A j \in NextHop :
             /\ refCount'[j] = refCount[j] - (IF j = ip THEN 1 ELSE 0)
             /\ j \in nextHopDB' <=> refCount'[j] > 0
    BY <1>5, <2>1, DeleteNextHopEffect DEF RouteReleases
  <2>3. UNCHANGED <<ipNextHopGroupDB, grpRefCount, hwGroup, nbrUses, groupUses, counted>>
    BY <1>5 DEF RouteReleases, DeleteNextHop
  <2>6. routeUses' = [routeUses EXCEPT ![ip] = @ - 1] /\ routeUses' \in [NextHop -> Nat]
    BY <1>5, <1>13 DEF RouteReleases
  <2>4. PoolTypeOK'
    BY <1>1, <2>2, <2>3, <2>6 DEF PoolTypeOK, NHMgrTypeOK
  <2>5. CountsExact'
    BY <1>1, <1>2, <1>13, <2>2, <2>3, <2>6 DEF CountsExact, Users
  <2> QED BY <1>1, <2>2, <2>3, <2>4, <2>5 DEF TablesInv, EntriesCounted, GroupsInHw
<1>6. ASSUME NEW ip \in NextHop, NeighborTakes(ip)
      PROVE  TablesInv'
  <2>1. CreateNextHop(ip, "NBR_CREATE")
    BY <1>6 DEF NeighborTakes
  <2> DEFINE extra == IF ip \in nextHopDB THEN 1 ELSE 0
  <2>2. /\ refCount' \in [NextHop -> Int]
        /\ nextHopDB' \subseteq NextHop
        /\ hwNextHop' \subseteq NextHop
        /\ \A j \in NextHop :
             /\ refCount'[j] = refCount[j] + (IF j = ip THEN 1 + extra ELSE 0)
             /\ j \in nextHopDB' <=> refCount'[j] > 0
    <3>1. ReferencesTaken("NBR_CREATE") = 2 /\ "NBR_CREATE" \in Operation
      BY DEF ReferencesTaken, Operation
    <3>2. \A j \in NextHop : refCount[j] \in Nat
      BY CountsNat
    <3> QED BY <2>1, <3>1, <3>2, CreateNextHopEffect
  <2>3. UNCHANGED <<ipNextHopGroupDB, grpRefCount, hwGroup, routeUses, groupUses>>
    BY <1>6, <2>1 DEF NeighborTakes, CreateNextHop
  <2>4. /\ nbrUses' = nbrUses \cup {ip}
        /\ ip \notin nbrUses
        /\ counted' \in [NextHop -> Nat]
        /\ \A j \in NextHop : counted'[j] = counted[j] + (IF j = ip THEN extra ELSE 0)
    <3>1. counted' = [counted EXCEPT ![ip] =
                        IF ip \in nextHopDB THEN @ + 2 - 1 ELSE @]
      BY <1>6 DEF NeighborTakes, ReferencesTaken
    <3> QED BY <1>6, <1>13, <3>1 DEF NeighborTakes
  <2>5. PoolTypeOK'
    BY <1>1, <2>2, <2>3, <2>4 DEF PoolTypeOK, NHMgrTypeOK
  <2>6. CountsExact'
    <3>1. /\ \A j \in NextHop : refCount[j] = Users(j) + counted[j]
          /\ \A h \in Group : grpRefCount[h] = groupUses[h]
      BY <1>1 DEF CountsExact
    <3>2. \A j \in NextHop : Users(j)' = Users(j) + (IF j = ip THEN 1 ELSE 0)
      BY <1>2, <1>13, <2>3, <2>4 DEF Users
    <3>3. \A j \in NextHop : Users(j) \in Nat
      BY CountsNat
    <3> HIDE DEF extra
    <3>4. \A j \in NextHop : refCount'[j] = Users(j)' + counted'[j]
      <4> SUFFICES ASSUME NEW j \in NextHop PROVE refCount'[j] = Users(j)' + counted'[j]
        OBVIOUS
      <4>1. extra \in Int /\ counted[j] \in Nat /\ Users(j) \in Nat
        BY <1>13, <3>3 DEF extra
      <4>2. CASE j = ip
        BY <2>2, <2>4, <3>1, <3>2, <4>1, <4>2
      <4>3. CASE j # ip
        BY <2>2, <2>4, <3>1, <3>2, <4>1, <4>3
      <4> QED BY <4>2, <4>3
    <3> QED BY <2>3, <3>1, <3>4 DEF CountsExact
  <2> QED BY <1>1, <2>2, <2>3, <2>5, <2>6 DEF TablesInv, EntriesCounted, GroupsInHw
<1>7. ASSUME NEW ip \in NextHop, NeighborReleases(ip)
      PROVE  TablesInv'
  <2>1. Users(ip) > inGroups(ip)
    BY <1>1, <1>2, <1>7 DEF PoolTypeOK, Users, NeighborReleases
  <2>2. /\ refCount' \in [NextHop -> Int]
        /\ nextHopDB' \subseteq NextHop
        /\ hwNextHop' \subseteq NextHop
        /\ ~DeleteNextHopFails(ip, {})
        /\ \A j \in NextHop :
             /\ refCount'[j] = refCount[j] - (IF j = ip THEN 1 ELSE 0)
             /\ j \in nextHopDB' <=> refCount'[j] > 0
    BY <1>7, <2>1, DeleteNextHopEffect DEF NeighborReleases
  <2>3. UNCHANGED <<ipNextHopGroupDB, grpRefCount, hwGroup, routeUses, groupUses, counted>>
    BY <1>7 DEF NeighborReleases, DeleteNextHop
  <2>4. ip \in nbrUses /\ nbrUses' = nbrUses \ {ip}
    BY <1>7, <2>2 DEF NeighborReleases
  <2>5. PoolTypeOK'
    BY <1>1, <2>2, <2>3, <2>4 DEF PoolTypeOK, NHMgrTypeOK
  <2>6. CountsExact'
    BY <1>1, <1>2, <2>2, <2>3, <2>4 DEF PoolTypeOK, CountsExact, Users
  <2> QED BY <1>1, <2>2, <2>3, <2>5, <2>6 DEF TablesInv, EntriesCounted, GroupsInHw
<1>8. ASSUME NEW ip \in NextHop, NEW g \in Group, RouteTurnsMultipath(ip, g)
      PROVE  TablesInv'
  <2>1. CreateNextHopGroup(g)
    BY <1>8 DEF RouteTurnsMultipath
  <2>2. /\ groupUses' = [groupUses EXCEPT ![g] = @ + 1]
        /\ UNCHANGED <<routeUses, nbrUses, counted>>
    BY <1>8 DEF RouteTurnsMultipath
  <2>3. CASE ShareGroup(g)
    <3>1. UNCHANGED <<nextHopDB, refCount, ipNextHopGroupDB, hwNextHop, hwGroup>>
      BY <2>3 DEF ShareGroup
    <3>2. grpRefCount' = [grpRefCount EXCEPT ![g] = @ + 1] /\ g \in ipNextHopGroupDB
      BY <2>3 DEF ShareGroup
    <3>3. PoolTypeOK'
      BY <1>1, <2>2, <3>1, <3>2 DEF PoolTypeOK, NHMgrTypeOK
    <3>4. CountsExact'
      BY <1>1, <2>2, <3>1, <3>2 DEF PoolTypeOK, NHMgrTypeOK, CountsExact, Users
    <3>5. EntriesCounted'
      BY <1>1, <1>3, <3>1, <3>2 DEF PoolTypeOK, NHMgrTypeOK, EntriesCounted
    <3> QED BY <1>1, <3>1, <3>3, <3>4, <3>5 DEF TablesInv, GroupsInHw
  <2>4. CASE NewGroup(g)
    <3>1. /\ TakeMembers(g)
          /\ g \notin ipNextHopGroupDB
          /\ ipNextHopGroupDB' = ipNextHopGroupDB \cup {g}
          /\ grpRefCount' = [grpRefCount EXCEPT ![g] = 1]
          /\ hwGroup' = hwGroup \cup {g}
      BY <2>4 DEF NewGroup
    <3>2. PoolTypeOK'
      BY <1>1, <2>2, <3>1, TakeMembersEffect, TakeMembersHw DEF PoolTypeOK, NHMgrTypeOK
    <3>3. \A j \in NextHop : refCount'[j] = Users(j)' + counted'[j]
      BY <2>2, <3>1, AddGroupCounts
    <3>6. groupUses[g] = 0
      BY <1>3, <1>12, <1>13, <3>1
    <3>4. \A h \in Group : grpRefCount'[h] = groupUses'[h]
      BY <1>12, <1>13, <2>2, <3>1, <3>6
    <3>5. EntriesCounted'
      BY <1>1, <1>3, <3>1, TakeMembersEffect DEF PoolTypeOK, NHMgrTypeOK, EntriesCounted
    <3> QED BY <1>1, <3>1, <3>2, <3>3, <3>4, <3>5 DEF TablesInv, CountsExact, GroupsInHw
  <2> QED BY <2>1, <2>3, <2>4 DEF CreateNextHopGroup
<1>9. ASSUME NEW g \in Group, GroupReleases(g)
      PROVE  TablesInv'
  <2>1. /\ groupUses' = [groupUses EXCEPT ![g] = @ - 1]
        /\ UNCHANGED <<routeUses, nbrUses, counted>>
        /\ groupUses[g] > 0
        /\ DeleteNextHopGroup(g, {}, {})
    BY <1>9 DEF GroupReleases
  <2>2. g \in ipNextHopGroupDB /\ grpRefCount[g] > 0
    BY <1>3, <1>12, <2>1
  <2>3. CASE grpRefCount[g] = 1
    <3>1. /\ ReleaseMembers(g, {})
          /\ ipNextHopGroupDB' = ipNextHopGroupDB \ {g}
          /\ grpRefCount' = [grpRefCount EXCEPT ![g] = 0]
          /\ hwGroup' = hwGroup \ {g}
      BY <2>1, <2>2, <2>3 DEF DeleteNextHopGroup
    <3>2. hwNextHop' \subseteq NextHop
      BY <1>1, <3>1 DEF ReleaseMembers, PoolTypeOK, NHMgrTypeOK
    <3>3. PoolTypeOK'
      BY <1>1, <2>1, <2>2, <3>1, <3>2, ReleaseMembersEffect DEF PoolTypeOK, NHMgrTypeOK
    <3>4. \A j \in NextHop : refCount'[j] = Users(j)' + counted'[j]
      BY <2>1, <2>2, <3>1, RemoveGroupCounts
    <3>5. \A h \in Group : grpRefCount'[h] = groupUses'[h]
      BY <1>12, <1>13, <2>1, <2>3, <3>1
    <3>6. EntriesCounted'
      BY <1>1, <1>3, <2>2, <3>1, ReleaseMembersEffect
      DEF PoolTypeOK, NHMgrTypeOK, EntriesCounted
    <3> QED BY <1>1, <3>1, <3>3, <3>4, <3>5, <3>6 DEF TablesInv, CountsExact, GroupsInHw
  <2>4. CASE grpRefCount[g] # 1
    <3>1. UNCHANGED <<nextHopDB, refCount, ipNextHopGroupDB, hwNextHop, hwGroup>>
      BY <2>1, <2>4 DEF DeleteNextHopGroup
    <3>2. grpRefCount' = [grpRefCount EXCEPT ![g] = @ - 1]
      BY <1>1, <2>1, <2>2, <2>4 DEF DeleteNextHopGroup
    <3>3. PoolTypeOK'
      BY <1>1, <2>1, <3>1, <3>2 DEF PoolTypeOK, NHMgrTypeOK
    <3>4. CountsExact'
      BY <1>1, <2>1, <3>1, <3>2 DEF PoolTypeOK, NHMgrTypeOK, CountsExact, Users
    <3>5. EntriesCounted'
      BY <1>1, <1>3, <2>2, <2>4, <3>1, <3>2 DEF PoolTypeOK, NHMgrTypeOK, EntriesCounted
    <3> QED BY <1>1, <3>1, <3>3, <3>4, <3>5 DEF TablesInv, GroupsInHw
  <2> QED BY <2>3, <2>4
<1>10. ASSUME NEW g \in Group, NEW new \in Group, RouteMovesGroup(g, new)
       PROVE  TablesInv'
  <2>1. UpdateNextHopGroup(g, new)
    BY <1>10 DEF RouteMovesGroup
  <2> DEFINE kept == IF grpRefCount[g] > 1 THEN [grpRefCount EXCEPT ![g] = @ - 1]
                                          ELSE grpRefCount
  <2>2. /\ g # new
        /\ groupUses' = [groupUses EXCEPT ![g] = IF @ > 1 THEN @ - 1 ELSE @,
                                          ![new] = @ + 1]
        /\ UNCHANGED <<routeUses, nbrUses, counted>>
    BY <1>10 DEF RouteMovesGroup
  <2>3. g \in ipNextHopGroupDB
    BY <2>1 DEF UpdateNextHopGroup
  <2>4. /\ kept \in [Group -> Int]
        /\ \A h \in Group : h # g => kept[h] = grpRefCount[h]
        /\ kept[g] = IF groupUses[g] > 1 THEN groupUses[g] - 1 ELSE groupUses[g]
        /\ kept[g] > 0
    BY <1>3, <1>12, <1>13, <2>3
  <2>8. \A h \in Group : groupUses'[h] =
          IF h = new THEN groupUses[h] + 1
          ELSE IF h = g /\ groupUses[g] > 1 THEN groupUses[h] - 1 ELSE groupUses[h]
    BY <1>13, <2>2
  <2>5. groupUses' \in [Group -> Nat]
    BY <1>1, <2>2 DEF PoolTypeOK
  <2>6. CASE new \in ipNextHopGroupDB
    <3>1. /\ grpRefCount' = [kept EXCEPT ![new] = @ + 1]
          /\ UNCHANGED <<nextHopDB, refCount, ipNextHopGroupDB, hwNextHop, hwGroup>>
      BY <2>1, <2>6 DEF UpdateNextHopGroup
    <3> HIDE DEF kept
    <3>2. PoolTypeOK'
      BY <1>1, <2>2, <2>4, <2>5, <3>1 DEF PoolTypeOK, NHMgrTypeOK
    <3>3. \A h \in Group : grpRefCount'[h] = groupUses'[h]
      BY <1>12, <1>13, <2>2, <2>4, <2>8, <3>1
    <3>4. CountsExact'
      BY <1>1, <2>2, <3>1, <3>3 DEF CountsExact, Users
    <3>5. EntriesCounted'
      BY <1>1, <1>3, <2>2, <2>3, <2>4, <2>6, <3>1 DEF EntriesCounted
    <3> QED BY <1>1, <3>1, <3>2, <3>4, <3>5 DEF TablesInv, GroupsInHw
  <2>7. CASE new \notin ipNextHopGroupDB
    <3>1. /\ TakeMembers(new)
          /\ ipNextHopGroupDB' = ipNextHopGroupDB \cup {new}
          /\ grpRefCount' = [kept EXCEPT ![new] = 1]
          /\ hwGroup' = hwGroup \cup {new}
      BY <2>1, <2>7 DEF UpdateNextHopGroup
    <3> HIDE DEF kept
    <3>2. PoolTypeOK'
      BY <1>1, <2>2, <2>4, <2>5, <3>1, TakeMembersEffect, TakeMembersHw
      DEF PoolTypeOK, NHMgrTypeOK
    <3>3. \A j \in NextHop : refCount'[j] = Users(j)' + counted'[j]
      BY <2>2, <2>7, <3>1, AddGroupCounts
    <3>6. groupUses[new] = 0
      BY <1>3, <1>12, <1>13, <2>7
    <3>4. \A h \in Group : grpRefCount'[h] = groupUses'[h]
      BY <1>12, <1>13, <2>2, <2>4, <2>8, <3>1, <3>6
    <3>5. EntriesCounted'
      BY <1>1, <1>3, <2>2, <2>3, <2>4, <3>1, TakeMembersEffect DEF EntriesCounted
    <3> QED BY <1>1, <3>1, <3>2, <3>3, <3>4, <3>5 DEF TablesInv, CountsExact, GroupsInHw
  <2> QED BY <2>6, <2>7
<1>11. CASE UNCHANGED poolVars
  BY <1>11 DEF poolVars, nhMgrVars, clientVars, TablesInv, PoolTypeOK, NHMgrTypeOK,
     CountsExact, EntriesCounted, GroupsInHw, Users
<1> QED
  BY <1>4, <1>5, <1>6, <1>7, <1>8, <1>9, <1>10, <1>11 DEF PoolNext

-----------------------------------------------------------------------------
\* What a step removes from the ASIC it also removes from the tables.
LEMMA RemovedFromTables ==
  ASSUME PoolNext
  PROVE  /\ (hwNextHop \ hwNextHop') \cap nextHopDB' = {}
         /\ (hwGroup \ hwGroup') \cap ipNextHopGroupDB' = {}
<1> DEFINE Goal == /\ (hwNextHop \ hwNextHop') \cap nextHopDB' = {}
                   /\ (hwGroup \ hwGroup') \cap ipNextHopGroupDB' = {}
<1>1. \A ip, op : CreateNextHop(ip, op) => Goal
  BY DEF CreateNextHop
<1>2. \A ip : DeleteNextHop(ip, {}) => Goal
  BY DEF DeleteNextHop
<1>3. \A g : CreateNextHopGroup(g) => Goal
  BY DEF CreateNextHopGroup, ShareGroup, NewGroup, TakeMembers
<1>4. \A g : DeleteNextHopGroup(g, {}, {}) => Goal
  BY DEF DeleteNextHopGroup, ReleaseMembers
<1>5. \A g, new : UpdateNextHopGroup(g, new) => Goal
  BY DEF UpdateNextHopGroup, TakeMembers
<1>6. Goal
  BY <1>1, <1>2, <1>3, <1>4, <1>5 DEF PoolNext, RouteTakes, RouteReleases,
     NeighborTakes, NeighborReleases, RouteTurnsMultipath, GroupReleases,
     RouteMovesGroup
<1> QED BY <1>6

\* No ASIC object is removed while somebody uses it.
LEMMA RemovalStep ==
  ASSUME TablesInv, TablesInv', [PoolNext]_poolVars
  PROVE  [/\ \A ip \in hwNextHop \ hwNextHop' : Users(ip)' = 0
          /\ \A g \in hwGroup \ hwGroup' : groupUses'[g] = 0]_poolVars
<1> SUFFICES ASSUME PoolNext
             PROVE  /\ \A ip \in hwNextHop \ hwNextHop' : Users(ip)' = 0
                    /\ \A g \in hwGroup \ hwGroup' : groupUses'[g] = 0
  OBVIOUS
<1>1. ASSUME NEW ip \in hwNextHop \ hwNextHop'
      PROVE  Users(ip)' = 0
  <2>1. ip \in NextHop /\ ip \notin nextHopDB'
    BY RemovedFromTables DEF TablesInv, PoolTypeOK, NHMgrTypeOK
  <2>2. Users(ip)' \in Nat
    <3>1. ipNextHopGroupDB' \in SUBSET Group
      BY DEF TablesInv, PoolTypeOK, NHMgrTypeOK
    <3>2. Cardinality(GroupsOf(ip, ipNextHopGroupDB')) \in Nat
      BY <2>1, <3>1, GroupsFinite
    <3> QED BY <2>1, <3>2 DEF Users, TablesInv, PoolTypeOK
  <2>3. refCount'[ip] = Users(ip)' + counted'[ip] /\ counted'[ip] \in Nat
    BY <2>1 DEF TablesInv, PoolTypeOK, CountsExact
  <2>4. ~(refCount'[ip] > 0)
    BY <2>1 DEF TablesInv, EntriesCounted
  <2> QED BY <2>2, <2>3, <2>4
<1>2. ASSUME NEW g \in hwGroup \ hwGroup'
      PROVE  groupUses'[g] = 0
  BY RemovedFromTables DEF TablesInv, PoolTypeOK, NHMgrTypeOK, CountsExact, EntriesCounted
<1> QED BY <1>1, <1>2

\* Each entry has its object, and no object is without an entry.
LEMMA NextTablesMatch ==
  ASSUME TablesInv, TablesMatchHw, [PoolNext]_poolVars
  PROVE  TablesMatchHw'
<1>1. \A ip, op : CreateNextHop(ip, op) => TablesMatchHw'
  BY DEF CreateNextHop, TablesMatchHw
<1>2. \A ip : DeleteNextHop(ip, {}) => TablesMatchHw'
  BY DEF DeleteNextHop, TablesMatchHw
<1>3. \A g : CreateNextHopGroup(g) => TablesMatchHw'
  BY DEF CreateNextHopGroup, ShareGroup, NewGroup, TakeMembers, TablesMatchHw
<1>4. \A g : DeleteNextHopGroup(g, {}, {}) => TablesMatchHw'
  BY DEF DeleteNextHopGroup, ReleaseMembers, TablesMatchHw
<1>5. \A g, new : UpdateNextHopGroup(g, new) => TablesMatchHw'
  BY DEF UpdateNextHopGroup, TakeMembers, TablesMatchHw
<1>7. CASE UNCHANGED poolVars
  BY <1>7 DEF poolVars, nhMgrVars, TablesMatchHw
<1>8. ASSUME NEW ip \in NextHop, RouteTakes(ip) \/ NeighborTakes(ip)
      PROVE  TablesMatchHw'
  BY <1>1, <1>8 DEF RouteTakes, NeighborTakes
<1>9. ASSUME NEW ip \in NextHop, RouteReleases(ip) \/ NeighborReleases(ip)
      PROVE  TablesMatchHw'
  BY <1>2, <1>9 DEF RouteReleases, NeighborReleases
<1>10. ASSUME NEW ip \in NextHop, NEW g \in Group, RouteTurnsMultipath(ip, g)
       PROVE  TablesMatchHw'
  BY <1>3, <1>10 DEF RouteTurnsMultipath
<1>11. ASSUME NEW g \in Group, GroupReleases(g)
       PROVE  TablesMatchHw'
  BY <1>4, <1>11 DEF GroupReleases
<1>12. ASSUME NEW g \in Group, NEW new \in Group, RouteMovesGroup(g, new)
       PROVE  TablesMatchHw'
  BY <1>5, <1>12 DEF RouteMovesGroup
<1> QED BY <1>7, <1>8, <1>9, <1>10, <1>11, <1>12 DEF PoolNext

-----------------------------------------------------------------------------
(***************************************************************************)
(* The theorems                                                            *)
(***************************************************************************)
\* The inductive invariant holds in every behaviour.
LEMMA TablesStay == PoolSpec => []TablesInv
<1>1. PoolInit => TablesInv
  BY InitTables
<1>2. TablesInv /\ [PoolNext]_poolVars => TablesInv'
  BY NextTables
<1> QED BY <1>1, <1>2, PTL DEF PoolSpec

\* The state of the manager and of its clients keeps its type.
THEOREM PoolTypeCorrect == PoolSpec => []PoolTypeOK
<1>1. TablesInv => PoolTypeOK
  BY DEF TablesInv
<1> QED BY <1>1, TablesStay, PTL

\* Every reference count is exactly the number of its users plus what
\* neighbour creates over-counted, in every history of the operations on an
\* ASIC that accepts the creations.
THEOREM CountsAreExact == PoolSpec => []CountsExact
<1>1. TablesInv => CountsExact
  BY DEF TablesInv
<1> QED BY <1>1, TablesStay, PTL

\* An entry exists exactly while its count is positive: of what it accepted,
\* the ASIC never refuses a removal the manager asks for.
THEOREM EntriesAreCounted == PoolSpec => []EntriesCounted
<1>1. TablesInv => EntriesCounted
  BY DEF TablesInv
<1> QED BY <1>1, TablesStay, PTL

\* No next hop and no group leaves the ASIC while a route, a neighbour or a
\* group uses it.
THEOREM NeverRemovedInUse == PoolSpec => RemovedOnlyUnused
<1>1. TablesInv /\ TablesInv' /\ [PoolNext]_poolVars =>
        [/\ \A ip \in hwNextHop \ hwNextHop' : Users(ip)' = 0
         /\ \A g \in hwGroup \ hwGroup' : groupUses'[g] = 0]_poolVars
  BY RemovalStep
<1> QED BY <1>1, TablesStay, PTL DEF PoolSpec, RemovedOnlyUnused

\* The tables describe the ASIC.
THEOREM TablesDescribeHw == PoolSpec => []TablesMatchHw
<1>1. PoolInit => TablesMatchHw
  BY DEF PoolInit, NHMgrInit, TablesMatchHw
<1>2. TablesInv /\ TablesMatchHw /\ [PoolNext]_poolVars => TablesMatchHw'
  BY NextTablesMatch
<1> QED BY <1>1, <1>2, TablesStay, PTL DEF PoolSpec

\* Every member of a group of the ASIC has its next hop object there: the
\* order in which groups and members are created and removed never leaves a
\* group with a member that is gone.
THEOREM GroupsHaveTheirMembers == PoolSpec => []GroupMembersInHw
<1>1. TablesInv /\ TablesMatchHw => GroupMembersInHw
  <2> SUFFICES ASSUME TablesInv, TablesMatchHw, NEW g \in hwGroup, NEW ip \in g
               PROVE  ip \in hwNextHop
    BY DEF GroupMembersInHw
  <2>1. g \in ipNextHopGroupDB
    BY DEF TablesMatchHw
  <2>2. ip \in nextHopDB
    BY <2>1, MembersHaveEntries
  <2> QED BY <2>2 DEF TablesMatchHw
<1> QED BY <1>1, TablesStay, TablesDescribeHw, PTL
=============================================================================
