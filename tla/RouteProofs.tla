---------------------------- MODULE RouteProofs ----------------------------
(***************************************************************************)
(* Proofs about RouteSystem: the route database with its counter, and the  *)
(* copies of it that the key list and the kernel get through channels.     *)
(* Nothing in the first half depends on what the next hop manager          *)
(* answers: its theorems hold for connected and null routes and for every  *)
(* assignment of next hops.  The second half is about next hops, groups    *)
(* and the ASIC.                                                           *)
(***************************************************************************)
EXTENDS RouteSystem, FiniteSetTheorems, SequenceTheorems, TLAPS

-----------------------------------------------------------------------------
(***************************************************************************)
(* The database and the operation in progress.                             *)
(***************************************************************************)
Operations == [op : {"Add", "Del"}, prefix : Prefix, nh : NextHop]

Adding == pc \in {"program", "dropSingle"}
Deleting == pc \in {"waitDel", "release"}
Replacing == pc = "waitUpd"

DbType ==
  /\ routeOpChannel \in Seq(Operations)
  /\ ipRouteDB \subseteq Prefix
  /\ nextHopMap \in [Prefix -> SUBSET NextHop]
  /\ ecmpGrpId \in [Prefix -> SUBSET NextHop]
  /\ pc \in {"idle", "program", "dropSingle", "waitDel", "release", "waitUpd"}
  /\ pc # "idle" => cur.prefix \in Prefix /\ cur.nh \in NextHop
  /\ Adding => cur.nhs \subseteq NextHop /\ cur.grp \subseteq NextHop /\ cur.target \in Target

Mine(p) == pc # "idle" /\ cur.prefix = p

\* The group id a prefix with these next hops has: none for a single next hop
\* that was never part of a group of the prefix.
Serves(g, nhs) == nhs # {} /\ (g = nhs \/ (g = NoGroup /\ \E ip \in NextHop : nhs = {ip}))

Settled(p) ==
  IF p \in ipRouteDB THEN Serves(ecmpGrpId[p], nextHopMap[p])
                     ELSE nextHopMap[p] = {} /\ ecmpGrpId[p] = NoGroup

\* What each phase of the handler knows of the prefix it works on.
Adds(p) ==
  IF p \in ipRouteDB
  THEN /\ cur.nh \in cur.nhs /\ nextHopMap[p] = cur.nhs /\ cur.grp = cur.nhs
       /\ cur.target = GroupTarget(cur.nhs)
       /\ Serves(ecmpGrpId[p], cur.nhs \ {cur.nh})
       /\ pc = "dropSingle" => ecmpGrpId[p] = NoGroup
  ELSE /\ pc = "program"
       /\ cur.nhs = {cur.nh} /\ cur.grp = NoGroup /\ cur.target = SingleTarget(cur.nh)
       /\ nextHopMap[p] = {} /\ ecmpGrpId[p] = NoGroup

Removes(p) ==
  /\ p \in ipRouteDB
  /\ cur.nh \notin nextHopMap[p]
  /\ Serves(ecmpGrpId[p], nextHopMap[p] \cup {cur.nh})

JobInv ==
  /\ Adding => Adds(cur.prefix)
  /\ Deleting => Removes(cur.prefix)
  /\ pc = "waitDel" => nextHopMap[cur.prefix] = {}
  /\ Replacing => /\ Removes(cur.prefix) /\ nextHopMap[cur.prefix] # {}
                  /\ ecmpGrpId[cur.prefix] # NoGroup

DbInv == DbType /\ JobInv /\ \A p \in Prefix : ~Mine(p) => Settled(p)

\* The pairs routeCnt has counted: an operation in progress is not counted yet.
Counted(p) ==
  IF ~Mine(p) THEN nextHopMap[p]
  ELSE IF Adding THEN nextHopMap[p] \ {cur.nh} ELSE nextHopMap[p] \cup {cur.nh}

Pairs == {pn \in Prefix \X NextHop : pn[2] \in Counted(pn[1])}

CountInv == routeCnt = Cardinality(Pairs)

-----------------------------------------------------------------------------
(***************************************************************************)
(* A channel and what it feeds.  ks[i] is the key message i is about; the  *)
(* state of the target counts as message 0, about every key.               *)
(***************************************************************************)
\* Of the messages before place j, message i is the last about k.
Before(ks, k, i, j) ==
  /\ i \in 0 .. j - 1
  /\ i > 0 => ks[i] = k
  /\ \A h \in i + 1 .. j - 1 : ks[h] # k

\* The key list.
KeyMsg == {"Add", "Del"} \X Prefix
KeyOf == [i \in DOMAIN ipPrefixStateUpdCh |-> ipPrefixStateUpdCh[i][2]]
Listed(p) == \E i \in DOMAIN ipRouteDBKeys : ipRouteDBKeys[i] = p
KeyAfter(p, i) == IF i = 0 THEN Listed(p) ELSE ipPrefixStateUpdCh[i][1] = "Add"

KeyInv ==
  /\ ipPrefixStateUpdCh \in Seq(KeyMsg)
  /\ ipRouteDBKeys \in Seq(Prefix)
  /\ \A i, j \in DOMAIN ipRouteDBKeys : ipRouteDBKeys[i] = ipRouteDBKeys[j] => i = j
  /\ \A p \in Prefix, i \in 0 .. Len(KeyOf) :
       Before(KeyOf, p, i, Len(KeyOf) + 1) => (KeyAfter(p, i) <=> p \in ipRouteDB)
  /\ \A j \in 1 .. Len(KeyOf) : \A i \in 0 .. j - 1 :
       Before(KeyOf, KeyOf[j], i, j) =>
         (ipPrefixStateUpdCh[j][1] = "Add" <=> ~KeyAfter(KeyOf[j], i))

\* The kernel.  A connected next hop is the kernel's own.
LinuxMsg == [op : {"Add", "Del"}, prefix : Prefix, nh : NextHop, multipath : BOOLEAN]
LinuxKeyOf == [i \in DOMAIN linuxCh |-> <<linuxCh[i].prefix, linuxCh[i].nh>>]
LinuxAfter(p, n, i) == IF i = 0 THEN n \in kernelRoute[p] ELSE linuxCh[i].op = "Add"

\* What the kernel has been told of last.
Told(p) == IF Adding /\ Mine(p) THEN nextHopMap[p] \ {cur.nh} ELSE nextHopMap[p]

LinuxInv ==
  /\ linuxCh \in Seq(LinuxMsg)
  /\ kernelRoute \in [Prefix -> SUBSET (NextHop \ Connected)]
  /\ \A p \in Prefix, n \in NextHop \ Connected, i \in 0 .. Len(LinuxKeyOf) :
       Before(LinuxKeyOf, <<p, n>>, i, Len(LinuxKeyOf) + 1) =>
         (LinuxAfter(p, n, i) <=> n \in Told(p))
  /\ \A j \in 1 .. Len(LinuxKeyOf) :
       linuxCh[j].op = "Add" /\ ~linuxCh[j].multipath =>
         \A n \in NextHop \ Connected, i \in 0 .. j - 1 :
           Before(LinuxKeyOf, <<linuxCh[j].prefix, n>>, i, j) =>
             ~LinuxAfter(linuxCh[j].prefix, n, i)

RInv == DbInv /\ CountInv /\ KeyInv

-----------------------------------------------------------------------------
(***************************************************************************)
(* Steps of the handler and the database.                                  *)
(***************************************************************************)
\* A step that works on one prefix leaves what is known of the others.
LEMMA DbFrame ==
  ASSUME DbInv, NEW p \in Prefix,
         pc # "idle" => cur.prefix = p, pc' # "idle" => cur'.prefix = p,
         \A q \in Prefix \ {p} :
           /\ nextHopMap'[q] = nextHopMap[q] /\ ecmpGrpId'[q] = ecmpGrpId[q]
           /\ q \in ipRouteDB' <=> q \in ipRouteDB,
         DbType', JobInv', pc' = "idle" => Settled(p)'
  PROVE  DbInv'
<1> SUFFICES ASSUME NEW q \in Prefix, ~Mine(q)'
             PROVE  Settled(q)'
  BY DEF DbInv
<1>1. CASE q = p
  BY <1>1 DEF Mine
<1>2. CASE q # p
  <2>1. Settled(q)
    BY <1>2 DEF DbInv, Mine
  <2> QED BY <1>2, <2>1 DEF Settled
<1> QED BY <1>1, <1>2

\* A step that gives back no operation leaves the database as it was.
LEMMA DbSame ==
  ASSUME DbInv, UNCHANGED <<ipRouteDB, nextHopMap, ecmpGrpId, pc, cur>>,
         routeOpChannel' \in Seq(Operations)
  PROVE  DbInv'
BY DEF DbInv, DbType, JobInv, Adding, Deleting, Replacing, Adds, Removes, Settled, Mine

LEMMA TakenOp ==
  ASSUME DbInv, NEW kind, Takes(kind)
  PROVE  /\ Head(routeOpChannel) \in Operations
         /\ routeOpChannel' \in Seq(Operations)
         /\ pc = "idle"
         /\ \A p \in Prefix : Settled(p) /\ ~Mine(p)
BY HeadTailProperties DEF DbInv, DbType, Takes, Mine

LEMMA SingleTargetType ==
  ASSUME NEW nh \in NextHop
  PROVE  SingleTarget(nh) \in Target
BY DEF SingleTarget, Target

LEMMA TakeAddFirstDb ==
  ASSUME DbInv, TakeAddFirst
  PROVE  /\ DbInv'
         /\ \A q \in Prefix : Counted(q)' = Counted(q) /\ Told(q)' = Told(q)
<1> DEFINE op == Head(routeOpChannel)
<1>0. PICK p, n : p = op.prefix /\ n = op.nh
  OBVIOUS
<1>1. /\ op \in Operations /\ routeOpChannel' \in Seq(Operations) /\ pc = "idle"
      /\ \A q \in Prefix : Settled(q) /\ ~Mine(q)
  BY TakenOp DEF TakeAddFirst
<1>2. p \in Prefix /\ n \in NextHop /\ p \notin ipRouteDB
  BY <1>0, <1>1 DEF TakeAddFirst, Operations
<1>3. /\ cur' = [prefix |-> p, nh |-> n, nhs |-> {n}, grp |-> NoGroup,
                 target |-> SingleTarget(n)]
      /\ pc' = "program" /\ UNCHANGED <<ipRouteDB, nextHopMap, ecmpGrpId>>
  BY <1>0 DEF TakeAddFirst, dbVars
<1> HIDE DEF op
<1>4. nextHopMap[p] = {} /\ ecmpGrpId[p] = NoGroup
  BY <1>1, <1>2 DEF Settled
<1>5. DbType'
  BY <1>1, <1>2, <1>3, SingleTargetType DEF DbInv, DbType, Adding, Deleting, Replacing, NoGroup
<1>6. JobInv'
  <2>1. Adds(p)'
    BY <1>2, <1>3, <1>4 DEF Adds, SingleTarget
  <2> QED BY <1>3, <2>1 DEF JobInv, Adding, Deleting, Replacing
<1>7. DbInv'
  BY <1>1, <1>2, <1>3, <1>5, <1>6, DbFrame
<1>8. \A q \in Prefix : Counted(q)' = Counted(q) /\ Told(q)' = Told(q)
  BY <1>1, <1>3, <1>4 DEF Counted, Told, Mine, Adding
<1> QED BY <1>7, <1>8

\* A next hop is added to a prefix that has one or more.
LEMMA TakeAddSecondDb ==
  ASSUME DbInv, TakeAddSecond \/ TakeAddMore
  PROVE  /\ DbInv'
         /\ \A q \in Prefix : Counted(q)' = Counted(q) /\ Told(q)' = Told(q)
<1> DEFINE op == Head(routeOpChannel)
<1>0. PICK p, n, members : p = op.prefix /\ n = op.nh /\ members = nextHopMap[p] \cup {n}
  OBVIOUS
<1>1. /\ op \in Operations /\ routeOpChannel' \in Seq(Operations) /\ pc = "idle"
      /\ \A q \in Prefix : Settled(q) /\ ~Mine(q)
  BY TakenOp DEF TakeAddSecond, TakeAddMore
<1>2. p \in Prefix /\ n \in NextHop /\ p \in ipRouteDB /\ n \notin nextHopMap[p]
  BY <1>0, <1>1 DEF TakeAddSecond, TakeAddMore, Operations
<1>3. /\ cur' = [prefix |-> p, nh |-> n, nhs |-> members, grp |-> members,
                 target |-> GroupTarget(members)]
      /\ pc' \in {"dropSingle", "program"}
      /\ pc' = "dropSingle" => ecmpGrpId[p] = NoGroup
      /\ nextHopMap' = [nextHopMap EXCEPT ![p] = members]
      /\ UNCHANGED <<ipRouteDB, ecmpGrpId>>
  BY <1>0 DEF TakeAddSecond, TakeAddMore, dbVars
<1>4. /\ nextHopMap \in [Prefix -> SUBSET NextHop] /\ members \subseteq NextHop
      /\ members \ {n} = nextHopMap[p]
      /\ nextHopMap'[p] = members
      /\ \A q \in Prefix \ {p} : nextHopMap'[q] = nextHopMap[q]
  BY <1>0, <1>2, <1>3 DEF DbInv, DbType
<1>5. Serves(ecmpGrpId[p], nextHopMap[p])
  BY <1>1, <1>2 DEF Settled
<1> HIDE DEF op
<1>6. DbType'
  BY <1>1, <1>2, <1>3, <1>4 DEF DbInv, DbType, Adding, Deleting, Replacing, GroupTarget, Target
<1>7. JobInv'
  <2>1. Adds(p)'
    BY <1>0, <1>2, <1>3, <1>4, <1>5 DEF Adds, GroupTarget
  <2> QED BY <1>3, <2>1 DEF JobInv, Adding, Deleting, Replacing
<1>8. DbInv'
  BY <1>1, <1>2, <1>3, <1>4, <1>6, <1>7, DbFrame
<1>9. \A q \in Prefix : Counted(q)' = Counted(q) /\ Told(q)' = Told(q)
  BY <1>1, <1>3, <1>4 DEF Counted, Told, Mine, Adding
<1> QED BY <1>8, <1>9

\* The handler goes on with the operation.
LEMMA StepsDb ==
  ASSUME DbInv, DropSingle \/ WaitDel \/ ReplaceGroup
  PROVE  /\ DbInv'
         /\ \A q \in Prefix : Counted(q)' = Counted(q) /\ Told(q)' = Told(q)
<1>0. PICK p : p = cur.prefix
  OBVIOUS
<1>1. /\ UNCHANGED <<routeOpChannel, ipRouteDB, nextHopMap, ecmpGrpId, cur>>
      /\ \/ pc = "dropSingle" /\ pc' = "program"
         \/ pc = "waitDel" /\ pc' = "release"
         \/ pc = "release" /\ pc' = "waitUpd" /\ nextHopMap[p] # {}
  BY <1>0 DEF DropSingle, WaitDel, ReplaceGroup, dbVars
<1>2. p \in Prefix /\ cur.nh \in NextHop
  BY <1>0, <1>1 DEF DbInv, DbType
<1>3. DbType'
  BY <1>0, <1>1, <1>2 DEF DbInv, DbType, Adding, Deleting, Replacing
<1>4. JobInv'
  <2>1. CASE pc = "dropSingle"
    <3>1. Adds(p) /\ Adds(p)'
      BY <1>0, <1>1, <2>1 DEF DbInv, JobInv, Adding, Adds
    <3> QED BY <1>0, <1>1, <2>1, <3>1 DEF JobInv, Adding, Deleting, Replacing
  <2>2. CASE pc = "waitDel"
    <3>1. Removes(p)'
      BY <1>0, <1>1, <2>2 DEF DbInv, JobInv, Deleting, Removes
    <3> QED BY <1>0, <1>1, <2>2, <3>1 DEF JobInv, Adding, Deleting, Replacing
  <2>3. CASE pc = "release"
    <3>1. Removes(p) /\ Removes(p)'
      BY <1>0, <1>1, <2>3 DEF DbInv, JobInv, Deleting, Removes
    <3>2. ecmpGrpId[p] # NoGroup
      BY <1>0, <1>1, <2>3, <3>1 DEF Removes, Serves, NoGroup
    <3> QED BY <1>0, <1>1, <2>3, <3>1, <3>2 DEF JobInv, Adding, Deleting, Replacing
  <2> QED BY <1>0, <1>1, <2>1, <2>2, <2>3
<1>5. DbInv'
  BY <1>0, <1>1, <1>2, <1>3, <1>4, DbFrame
<1>6. \A q \in Prefix : Counted(q)' = Counted(q) /\ Told(q)' = Told(q)
  BY <1>0, <1>1 DEF Counted, Told, Mine, Adding
<1> QED BY <1>5, <1>6

LEMMA ProgramDb ==
  ASSUME DbInv, NEW p, p = cur.prefix, NEW n, n = cur.nh, Program
  PROVE  /\ DbInv'
         /\ p \in Prefix /\ n \in NextHop
         /\ n \notin Counted(p)
         /\ Told(p) = Counted(p)
         /\ Counted(p)' = Counted(p) \cup {n}
         /\ Told(p)' = Counted(p) \cup {n}
         /\ p \notin ipRouteDB => Counted(p) = {}
         /\ \A q \in Prefix \ {p} : Counted(q)' = Counted(q) /\ Told(q)' = Told(q)
<1>1. /\ pc = "program" /\ pc' = "idle" /\ UNCHANGED routeOpChannel
      /\ ipRouteDB' = ipRouteDB \cup {p}
      /\ nextHopMap' = [nextHopMap EXCEPT ![p] = cur.nhs]
      /\ ecmpGrpId' = [ecmpGrpId EXCEPT ![p] = cur.grp]
  BY DEF Program
<1>2. p \in Prefix /\ cur.nh \in NextHop /\ cur.nhs \subseteq NextHop /\ cur.grp \subseteq NextHop
  BY <1>1 DEF DbInv, DbType, Adding
<1>3. Adds(p)
  BY <1>1 DEF DbInv, JobInv, Adding
<1>4. /\ nextHopMap \in [Prefix -> SUBSET NextHop] /\ ecmpGrpId \in [Prefix -> SUBSET NextHop]
      /\ nextHopMap'[p] = cur.nhs /\ ecmpGrpId'[p] = cur.grp
      /\ \A q \in Prefix \ {p} : nextHopMap'[q] = nextHopMap[q] /\ ecmpGrpId'[q] = ecmpGrpId[q]
  BY <1>1, <1>2 DEF DbInv, DbType
<1>5. DbType'
  BY <1>1, <1>2 DEF DbInv, DbType, Adding, Deleting, Replacing
<1>6. Settled(p)'
  <2>1. Serves(cur.grp, cur.nhs)
    BY <1>2, <1>3 DEF Adds, Serves
  <2>2. Serves(ecmpGrpId'[p], nextHopMap'[p])
    BY <1>4, <2>1
  <2> QED BY <1>1, <2>2 DEF Settled, Serves
<1>7. JobInv'
  BY <1>1 DEF JobInv, Adding, Deleting, Replacing
<1>8. DbInv'
  BY <1>1, <1>2, <1>4, <1>5, <1>6, <1>7, DbFrame
<1>9. Counted(p) = cur.nhs \ {cur.nh} /\ Told(p) = cur.nhs \ {cur.nh} /\ cur.nh \in cur.nhs
  BY <1>1, <1>3 DEF Adds, Counted, Told, Mine, Adding
<1>10. Counted(p)' = cur.nhs /\ Told(p)' = cur.nhs
  BY <1>1, <1>4 DEF Counted, Told, Mine, Adding
<1>11. \A q \in Prefix \ {p} : Counted(q)' = Counted(q) /\ Told(q)' = Told(q)
  BY <1>1, <1>4 DEF Counted, Told, Mine, Adding
<1>12. p \notin ipRouteDB => cur.nhs = {cur.nh}
  BY <1>3 DEF Adds
<1> QED BY <1>2, <1>8, <1>9, <1>10, <1>11, <1>12

LEMMA TakeDelDb ==
  ASSUME DbInv, TakeDel, NEW p, p = Head(routeOpChannel).prefix,
         NEW n, n = Head(routeOpChannel).nh
  PROVE  /\ DbInv'
         /\ p \in Prefix /\ n \in NextHop
         /\ Told(p)' = Told(p) \ {n}
         /\ \A q \in Prefix : Counted(q)' = Counted(q)
         /\ \A q \in Prefix \ {p} : Told(q)' = Told(q)
<1>0. PICK left : left = nextHopMap[p] \ {n}
  OBVIOUS
<1>1. /\ Head(routeOpChannel) \in Operations /\ routeOpChannel' \in Seq(Operations) /\ pc = "idle"
      /\ \A q \in Prefix : Settled(q) /\ ~Mine(q)
  BY TakenOp DEF TakeDel
<1>2. p \in Prefix /\ n \in NextHop /\ p \in ipRouteDB /\ n \in nextHopMap[p]
  BY <1>1 DEF TakeDel, Knows, Operations
<1>3. /\ nextHopMap' = [nextHopMap EXCEPT ![p] = left]
      /\ pc' = "waitDel" \/ pc' = "release"
      /\ pc' = "waitDel" => left = {}
      /\ cur'.prefix = p /\ cur'.nh = n
      /\ UNCHANGED <<ipRouteDB, ecmpGrpId>>
  BY <1>0 DEF TakeDel
<1>4. /\ nextHopMap \in [Prefix -> SUBSET NextHop]
      /\ nextHopMap'[p] = left /\ left \cup {n} = nextHopMap[p] /\ n \notin left
      /\ \A q \in Prefix \ {p} : nextHopMap'[q] = nextHopMap[q]
  BY <1>0, <1>2, <1>3 DEF DbInv, DbType
<1>5. Serves(ecmpGrpId[p], nextHopMap[p])
  BY <1>1, <1>2 DEF Settled
<1>6. DbType'
  BY <1>1, <1>2, <1>3, <1>4 DEF DbInv, DbType, Adding, Deleting, Replacing
<1>7. Removes(p)'
  BY <1>2, <1>3, <1>4, <1>5 DEF Removes
<1>8. JobInv'
  BY <1>3, <1>4, <1>7 DEF JobInv, Adding, Deleting, Replacing
<1>9. DbInv'
  BY <1>1, <1>2, <1>3, <1>4, <1>6, <1>8, DbFrame
<1>10. Told(p)' = Told(p) \ {n} /\ Counted(p)' = Counted(p)
  BY <1>0, <1>1, <1>2, <1>3, <1>4 DEF Told, Counted, Mine, Adding
<1>11. \A q \in Prefix \ {p} : Told(q)' = Told(q) /\ Counted(q)' = Counted(q)
  BY <1>1, <1>3, <1>4 DEF Told, Counted, Mine, Adding
<1> QED BY <1>2, <1>9, <1>10, <1>11

\* The operation ends: what it took from the prefix is not counted any more.
LEMMA EndsDb ==
  ASSUME DbInv, NEW p, p = cur.prefix, NEW n, n = cur.nh, ReleaseLast \/ WaitUpd
  PROVE  /\ DbInv'
         /\ p \in ipRouteDB /\ p \in Prefix /\ n \in NextHop
         /\ n \in Counted(p)
         /\ Counted(p)' = Counted(p) \ {n}
         /\ \A q \in Prefix \ {p} : Counted(q)' = Counted(q)
         /\ \A q \in Prefix : Told(q)' = Told(q)
<1>1. /\ pc' = "idle" /\ UNCHANGED <<routeOpChannel, nextHopMap>>
      /\ \/ /\ pc = "release" /\ nextHopMap[p] = {} /\ ipRouteDB' = ipRouteDB \ {p}
            /\ ecmpGrpId' = [ecmpGrpId EXCEPT ![p] = NoGroup]
         \/ /\ pc = "waitUpd" /\ UNCHANGED ipRouteDB
            /\ ecmpGrpId' = [ecmpGrpId EXCEPT ![p] = nextHopMap[p]]
  BY DEF ReleaseLast, WaitUpd
<1>2. p \in Prefix /\ cur.nh \in NextHop /\ nextHopMap[p] \subseteq NextHop
  BY <1>1 DEF DbInv, DbType
<1>3. Removes(p) /\ (pc = "waitUpd" => nextHopMap[p] # {})
  BY <1>1 DEF DbInv, JobInv, Deleting, Replacing
<1>4. /\ ecmpGrpId \in [Prefix -> SUBSET NextHop]
      /\ ecmpGrpId'[p] = nextHopMap[p]
      /\ \A q \in Prefix \ {p} : ecmpGrpId'[q] = ecmpGrpId[q]
  BY <1>1, <1>2 DEF DbInv, DbType, NoGroup
<1>5. DbType'
  BY <1>1, <1>2 DEF DbInv, DbType, Adding, Deleting, Replacing, NoGroup
<1>6. Settled(p)'
  BY <1>1, <1>2, <1>3, <1>4 DEF Settled, Serves, Removes, NoGroup
<1>7. JobInv'
  BY <1>1 DEF JobInv, Adding, Deleting, Replacing
<1>8. DbInv'
  BY <1>1, <1>2, <1>4, <1>5, <1>6, <1>7, DbFrame
<1>9. Counted(p) = nextHopMap[p] \cup {cur.nh} /\ cur.nh \notin nextHopMap[p] /\ p \in ipRouteDB
  BY <1>1, <1>3 DEF Removes, Counted, Mine, Adding
<1>10. Counted(p)' = nextHopMap[p]
  BY <1>1 DEF Counted, Mine
<1>11. \A q \in Prefix \ {p} : Counted(q)' = Counted(q)
  BY <1>1 DEF Counted, Mine
<1>12. \A q \in Prefix : Told(q)' = Told(q)
  BY <1>1 DEF Told, Adding
<1> QED BY <1>2, <1>8, <1>9, <1>10, <1>11, <1>12

-----------------------------------------------------------------------------
(***************************************************************************)
(* The count of (prefix, next hop) pairs.                                  *)
(***************************************************************************)
LEMMA PairsFinite == IsFiniteSet(Pairs)
<1>1. IsFiniteSet(Prefix \X NextHop)
  BY PrefixAssumption, NextHopAssumption, FS_Product
<1> QED BY <1>1, FS_Subset DEF Pairs

LEMMA CountSame ==
  ASSUME CountInv, \A q \in Prefix : Counted(q)' = Counted(q), routeCnt' = routeCnt
  PROVE  CountInv'
<1>1. Pairs' = Pairs
  BY DEF Pairs
<1> QED BY <1>1 DEF CountInv

LEMMA CountMore ==
  ASSUME CountInv, NEW p \in Prefix, NEW n \in NextHop, n \notin Counted(p),
         Counted(p)' = Counted(p) \cup {n},
         \A q \in Prefix \ {p} : Counted(q)' = Counted(q), routeCnt' = routeCnt + 1
  PROVE  CountInv'
<1>1. Pairs' = Pairs \cup {<<p, n>>} /\ <<p, n>> \notin Pairs
  BY DEF Pairs
<1>2. Cardinality(Pairs') = Cardinality(Pairs) + 1
  BY <1>1, PairsFinite, FS_AddElement
<1> QED BY <1>2 DEF CountInv

LEMMA CountLess ==
  ASSUME CountInv, NEW p \in Prefix, NEW n \in NextHop, n \in Counted(p),
         Counted(p)' = Counted(p) \ {n},
         \A q \in Prefix \ {p} : Counted(q)' = Counted(q), routeCnt' = routeCnt - 1
  PROVE  CountInv'
<1>1. Pairs' = Pairs \ {<<p, n>>} /\ <<p, n>> \in Pairs
  BY DEF Pairs
<1>2. Cardinality(Pairs') = Cardinality(Pairs) - 1
  BY <1>1, PairsFinite, FS_RemoveElement
<1> QED BY <1>2 DEF CountInv

-----------------------------------------------------------------------------
(***************************************************************************)
(* Messages that are sent and received.                                    *)
(***************************************************************************)
\* Places before the end are those of the shorter channel.
LEMMA BeforeSame ==
  ASSUME NEW n \in Nat, NEW ks, NEW ks2, \A h \in 1 .. n : ks2[h] = ks[h],
         NEW j \in 1 .. n + 1, NEW k, NEW i
  PROVE  Before(ks2, k, i, j) <=> Before(ks, k, i, j)
BY DEF Before

\* The last message about k is the newest, or the one it was before.
LEMMA BeforeNext ==
  ASSUME NEW n \in Nat \ {0}, NEW ks, NEW k, NEW i, Before(ks, k, i, n + 1)
  PROVE  IF ks[n] = k THEN i = n ELSE Before(ks, k, i, n)
<1>1. i \in 0 .. n
  BY DEF Before
<1>2. CASE ks[n] = k
  <2>1. i # n => n \in i + 1 .. n
    BY <1>1
  <2> QED BY <1>2, <2>1 DEF Before
<1>3. CASE ks[n] # k
  <2>1. i # n /\ i \in 0 .. n - 1
    BY <1>1, <1>3 DEF Before
  <2> QED BY <1>1, <1>3, <2>1 DEF Before
<1> QED BY <1>2, <1>3

\* The first message has been received: it is what the target holds.
Shifted(ks, k, i) == IF i > 0 THEN i + 1 ELSE IF ks[1] = k THEN 1 ELSE 0

LEMMA BeforeShift ==
  ASSUME NEW n \in Nat, NEW ks, NEW ks2, \A h \in 1 .. n : ks2[h] = ks[h + 1],
         NEW j \in 1 .. n + 1, NEW k, NEW i, Before(ks2, k, i, j)
  PROVE  Before(ks, k, Shifted(ks, k, i), j + 1) /\ Shifted(ks, k, i) \in 0 .. j
<1>1. i \in 0 .. j - 1
  BY DEF Before
<1>2. ASSUME NEW h \in Shifted(ks, k, i) + 1 .. j
      PROVE  ks[h] # k
  <2>1. CASE h = 1
    BY <1>1, <1>2, <2>1 DEF Shifted
  <2>2. CASE h # 1
    <3>1. h - 1 \in i + 1 .. j - 1 /\ h - 1 \in 1 .. n
      BY <1>1, <1>2, <2>2 DEF Shifted
    <3>2. ks2[h - 1] = ks[h]
      BY <3>1
    <3> QED BY <3>1, <3>2 DEF Before
  <2> QED BY <2>1, <2>2
<1>3. Shifted(ks, k, i) \in 0 .. j
  BY <1>1 DEF Shifted
<1>4. Shifted(ks, k, i) > 0 => ks[Shifted(ks, k, i)] = k
  <2>1. CASE i > 0
    <3>1. i \in 1 .. n /\ ks2[i] = k
      BY <1>1, <2>1 DEF Before
    <3> QED BY <2>1, <3>1 DEF Shifted
  <2>2. CASE ~(i > 0)
    BY <2>2 DEF Shifted
  <2> QED BY <2>1, <2>2
<1> QED BY <1>2, <1>3, <1>4 DEF Before

\* The state of the target comes before the first message.
LEMMA BeforeFirst ==
  ASSUME NEW ks, NEW k
  PROVE  Before(ks, k, 0, 1)
BY DEF Before

-----------------------------------------------------------------------------
(***************************************************************************)
(* The key list.                                                           *)
(***************************************************************************)
LEMMA KeySeq ==
  ASSUME KeyInv
  PROVE  /\ Len(KeyOf) = Len(ipPrefixStateUpdCh) /\ Len(ipPrefixStateUpdCh) \in Nat
         /\ DOMAIN ipPrefixStateUpdCh = 1 .. Len(ipPrefixStateUpdCh)
         /\ \A i \in 1 .. Len(ipPrefixStateUpdCh) :
              /\ KeyOf[i] = ipPrefixStateUpdCh[i][2] /\ KeyOf[i] \in Prefix
              /\ ipPrefixStateUpdCh[i] \in KeyMsg
<1>1. ipPrefixStateUpdCh \in Seq(KeyMsg)
  BY DEF KeyInv
<1>2. Len(KeyOf) = Len(ipPrefixStateUpdCh)
  BY <1>1, LenProperties DEF KeyOf
<1> QED BY <1>1, <1>2, LenProperties, ElementOfSeq DEF KeyOf, KeyMsg

\* The key of a new prefix, or of one that goes, is queued.
LEMMA KeySent ==
  ASSUME KeyInv, NEW p \in Prefix, NEW op \in {"Add", "Del"}, ToKeys(op, p),
         UNCHANGED ipRouteDBKeys, op = "Add" <=> p \notin ipRouteDB,
         ipRouteDB' = IF op = "Add" THEN ipRouteDB \cup {p} ELSE ipRouteDB \ {p}
  PROVE  KeyInv'
<1>0. PICK n : n = Len(ipPrefixStateUpdCh)
  OBVIOUS
<1>1. /\ ipPrefixStateUpdCh \in Seq(KeyMsg) /\ n \in Nat
      /\ Len(KeyOf) = n /\ DOMAIN ipPrefixStateUpdCh = 1 .. n
      /\ \A i \in 1 .. n : KeyOf[i] = ipPrefixStateUpdCh[i][2] /\ KeyOf[i] \in Prefix
  BY <1>0, KeySeq DEF KeyInv
<1>2. /\ ipPrefixStateUpdCh' \in Seq(KeyMsg) /\ DOMAIN ipPrefixStateUpdCh' = 1 .. n + 1
      /\ Len(ipPrefixStateUpdCh') = n + 1
      /\ \A i \in 1 .. n : ipPrefixStateUpdCh'[i] = ipPrefixStateUpdCh[i]
      /\ ipPrefixStateUpdCh'[n + 1] = <<op, p>>
  <2>1. ipPrefixStateUpdCh' = Append(ipPrefixStateUpdCh, <<op, p>>) /\ <<op, p>> \in KeyMsg
    BY DEF ToKeys, KeyMsg
  <2> QED BY <1>0, <1>1, <2>1, AppendProperties, LenProperties
<1>3. /\ Len(KeyOf') = n + 1
      /\ \A i \in 1 .. n : KeyOf'[i] = KeyOf[i]
      /\ KeyOf'[n + 1] = p
  <2>1. KeyOf' = [i \in 1 .. n + 1 |-> ipPrefixStateUpdCh'[i][2]]
    BY <1>2 DEF KeyOf
  <2>2. Len([i \in 1 .. n + 1 |-> ipPrefixStateUpdCh'[i][2]]) = n + 1
    BY <1>1
  <2> QED BY <1>1, <1>2, <2>1, <2>2
<1>4. \A q \in Prefix, i \in 0 .. n : KeyAfter(q, i)' <=> KeyAfter(q, i)
  BY <1>2 DEF KeyAfter, Listed
<1>5. KeyAfter(p, n + 1)' <=> op = "Add"
  BY <1>1, <1>2 DEF KeyAfter
<1>6. n + 1 \in Nat \ {0} /\ n + 1 \in 1 .. n + 1 /\ (n + 1) + 1 = n + 2
  BY <1>1
<1>7. ASSUME NEW q \in Prefix, NEW i \in 0 .. n + 1, Before(KeyOf', q, i, (n + 1) + 1)
      PROVE  KeyAfter(q, i)' <=> q \in ipRouteDB'
  <2>1. IF q = p THEN i = n + 1 ELSE Before(KeyOf', q, i, n + 1)
    BY <1>3, <1>6, <1>7, BeforeNext
  <2>2. CASE q = p
    BY <1>5, <2>1, <2>2
  <2>3. CASE q # p
    <3>1. Before(KeyOf, q, i, n + 1) /\ i \in 0 .. n
      BY <1>1, <1>3, <1>6, <2>1, <2>3, BeforeSame DEF Before
    <3>2. KeyAfter(q, i) <=> q \in ipRouteDB
      BY <1>1, <3>1 DEF KeyInv
    <3> QED BY <1>4, <2>3, <3>1, <3>2
  <2> QED BY <2>2, <2>3
<1>8. ASSUME NEW j \in 1 .. n + 1, NEW k, k = KeyOf'[j], NEW i \in 0 .. j - 1, Before(KeyOf', k, i, j)
      PROVE  ipPrefixStateUpdCh'[j][1] = "Add" <=> ~KeyAfter(k, i)'
  <2>0. k \in Prefix
    BY <1>1, <1>3, <1>8
  <2>1. Before(KeyOf, k, i, j) /\ i \in 0 .. n
    <3>1. \A h \in 1 .. n : KeyOf'[h] = KeyOf[h]
      BY <1>3
    <3>2. Before(KeyOf', k, i, j) <=> Before(KeyOf, k, i, j)
      BY <1>1, <3>1, BeforeSame
    <3> QED BY <1>1, <1>8, <3>2
  <2>2. KeyAfter(k, i)' <=> KeyAfter(k, i)
    BY <1>4, <2>0, <2>1
  <2>3. CASE j = n + 1
    <3>1. k = p
      BY <1>3, <1>8, <2>3
    <3>2. KeyAfter(p, i) <=> p \in ipRouteDB
      BY <1>1, <2>1, <2>3, <3>1 DEF KeyInv
    <3> QED BY <1>2, <2>2, <2>3, <3>1, <3>2
  <2>4. CASE j \in 1 .. n
    <3>1. KeyOf[j] = k /\ ipPrefixStateUpdCh'[j] = ipPrefixStateUpdCh[j]
      BY <1>2, <1>3, <1>8, <2>4
    <3>2. ipPrefixStateUpdCh[j][1] = "Add" <=> ~KeyAfter(k, i)
      BY <1>1, <2>1, <2>4, <3>1 DEF KeyInv
    <3> QED BY <2>2, <3>1, <3>2
  <2> QED BY <1>1, <2>3, <2>4
<1>9. \A i, j \in DOMAIN ipRouteDBKeys' : ipRouteDBKeys'[i] = ipRouteDBKeys'[j] => i = j
  BY DEF KeyInv
<1>10. ipRouteDBKeys' \in Seq(Prefix)
  BY DEF KeyInv
<1> QED BY <1>2, <1>3, <1>7, <1>8, <1>9, <1>10 DEF KeyInv
LEMMA RemoveAtEffect ==
  ASSUME NEW S, NEW s \in Seq(S), NEW k \in 1..Len(s)
  PROVE  /\ RemoveAt(s, k) \in Seq(S)
         /\ DOMAIN RemoveAt(s, k) = 1..Len(s) - 1
         /\ \A e \in 1..Len(s) - 1 : RemoveAt(s, k)[e] = s[IF e < k THEN e ELSE e + 1]
<1> DEFINE n == Len(s)
           before == SubSeq(s, 1, k - 1)
           after == SubSeq(s, k + 1, n)
<1>1. n \in Nat /\ k \in 1..n
  OBVIOUS
<1>2. before \in Seq(S)
  BY SubSeqProperties
<1>3. Len(before) = k - 1 /\ \A e \in 1..k - 1 : before[e] = s[e]
  BY <1>1, SubSeqProperties
<1>4. after \in Seq(S)
  BY SubSeqProperties
<1>5. Len(after) = n - k /\ \A e \in 1..n - k : after[e] = s[k + e]
  BY <1>1, SubSeqProperties
<1>6. RemoveAt(s, k) = before \o after
  BY DEF RemoveAt
<1> HIDE DEF before, after, n
<1>7. /\ before \o after \in Seq(S)
      /\ Len(before \o after) = Len(before) + Len(after)
      /\ \A i \in 1..Len(before) + Len(after) :
           (before \o after)[i] = IF i <= Len(before) THEN before[i] ELSE after[i - Len(before)]
  BY ONLY <1>2, <1>4, ConcatProperties
<1>8. Len(before) + Len(after) = n - 1
  BY <1>1, <1>3, <1>5
<1>9. ASSUME NEW e \in 1..n - 1
      PROVE  (before \o after)[e] = s[IF e < k THEN e ELSE e + 1]
  <2>1. CASE e < k
    BY <1>1, <1>3, <1>7, <1>8, <2>1
  <2>2. CASE ~(e < k)
    <3>1. (before \o after)[e] = after[e - (k - 1)]
      <4>1. ~(e <= Len(before)) /\ e \in 1..Len(before) + Len(after)
        BY <1>1, <1>3, <1>8, <2>2
      <4>2. (before \o after)[e] = after[e - Len(before)]
        BY <1>7, <4>1
      <4> QED BY <1>3, <4>2
    <3>2. e - (k - 1) \in 1..n - k /\ k + (e - (k - 1)) = e + 1
      BY <1>1, <2>2
    <3>3. after[e - (k - 1)] = s[k + (e - (k - 1))]
      BY <1>5, <3>2
    <3>4. s[k + (e - (k - 1))] = s[e + 1]
      BY <3>2
    <3> QED BY <1>1, <2>2, <3>1, <3>3, <3>4
  <2> QED BY <2>1, <2>2
<1>10. DOMAIN RemoveAt(s, k) = 1..n - 1
  BY <1>6, <1>7, <1>8
<1> QED BY <1>6, <1>7, <1>9, <1>10 DEF n


LEMMA ListAdded ==
  ASSUME ipRouteDBKeys \in Seq(Prefix),
         \A i, j \in DOMAIN ipRouteDBKeys : ipRouteDBKeys[i] = ipRouteDBKeys[j] => i = j,
         NEW p \in Prefix, ~Listed(p), ipRouteDBKeys' = Append(ipRouteDBKeys, p)
  PROVE  /\ ipRouteDBKeys' \in Seq(Prefix)
         /\ \A i, j \in DOMAIN ipRouteDBKeys' : ipRouteDBKeys'[i] = ipRouteDBKeys'[j] => i = j
         /\ Listed(p)' /\ \A q \in Prefix \ {p} : Listed(q)' <=> Listed(q)
<1>0. PICK n : n = Len(ipRouteDBKeys)
  OBVIOUS
<1>1. /\ n \in Nat /\ DOMAIN ipRouteDBKeys = 1 .. n
      /\ ipRouteDBKeys' \in Seq(Prefix) /\ DOMAIN ipRouteDBKeys' = 1 .. n + 1
      /\ \A i \in 1 .. n : ipRouteDBKeys'[i] = ipRouteDBKeys[i]
      /\ ipRouteDBKeys'[n + 1] = p
  BY <1>0, AppendProperties, LenProperties
<1>2. \A i \in 1 .. n + 1 : i \in 1 .. n \/ i = n + 1
  BY <1>1
<1>3. n + 1 \in 1 .. n + 1 /\ \A i \in 1 .. n : i \in 1 .. n + 1
  BY <1>1
<1> QED BY <1>1, <1>2, <1>3 DEF Listed

\* The place in a sequence of what is at place e once place at is taken out.
Skip(at, e) == IF e < at THEN e ELSE e + 1

\* RemoveFirst takes out the only key there is.
LEMMA ListRemoved ==
  ASSUME ipRouteDBKeys \in Seq(Prefix),
         \A i, j \in DOMAIN ipRouteDBKeys : ipRouteDBKeys[i] = ipRouteDBKeys[j] => i = j,
         NEW p \in Prefix, Listed(p), ipRouteDBKeys' = Without(ipRouteDBKeys, p)
  PROVE  /\ ipRouteDBKeys' \in Seq(Prefix)
         /\ \A i, j \in DOMAIN ipRouteDBKeys' : ipRouteDBKeys'[i] = ipRouteDBKeys'[j] => i = j
         /\ ~Listed(p)' /\ \A q \in Prefix \ {p} : Listed(q)' <=> Listed(q)
<1>0. PICK n, at : n = Len(ipRouteDBKeys) /\ at \in DOMAIN ipRouteDBKeys /\ ipRouteDBKeys[at] = p
  BY DEF Listed
<1>1. n \in Nat /\ DOMAIN ipRouteDBKeys = 1 .. n /\ at \in 1 .. n
  BY <1>0, LenProperties
<1>2. ipRouteDBKeys' = RemoveAt(ipRouteDBKeys, at)
  <2>1. {i \in 1 .. Len(ipRouteDBKeys) : ipRouteDBKeys[i] = p} = {at}
    BY <1>0, <1>1
  <2>2. SelectInSeq(ipRouteDBKeys, LAMBDA k : k = p) = at
    BY <1>0, <2>1 DEF SelectInSeq, Min
  <2> QED BY <1>0, <1>1, <2>2 DEF Without, RemoveFirst
<1>3. /\ ipRouteDBKeys' \in Seq(Prefix) /\ DOMAIN ipRouteDBKeys' = 1 .. n - 1
      /\ \A e \in 1 .. n - 1 : ipRouteDBKeys'[e] = ipRouteDBKeys[Skip(at, e)]
  BY <1>0, <1>1, <1>2, RemoveAtEffect DEF Skip
<1>4. \A e \in 1 .. n - 1 : Skip(at, e) \in 1 .. n /\ Skip(at, e) # at
  BY <1>1 DEF Skip
<1>5. \A e, f \in 1 .. n - 1 : Skip(at, e) = Skip(at, f) => e = f
  BY <1>1 DEF Skip
<1>6. \A i \in 1 .. n : i # at => \E e \in 1 .. n - 1 : i = Skip(at, e)
  <2> SUFFICES ASSUME NEW i \in 1 .. n, i # at
               PROVE  \E e \in 1 .. n - 1 : i = Skip(at, e)
    OBVIOUS
  <2>1. CASE i < at
    BY <1>1, <2>1 DEF Skip
  <2>2. CASE i > at
    <3>1. i - 1 \in 1 .. n - 1 /\ ~(i - 1 < at) /\ (i - 1) + 1 = i
      BY <1>1, <2>2
    <3> QED BY <3>1 DEF Skip
  <2> QED BY <1>1, <2>1, <2>2
<1>7. ASSUME NEW e \in DOMAIN ipRouteDBKeys', NEW f \in DOMAIN ipRouteDBKeys',
             ipRouteDBKeys'[e] = ipRouteDBKeys'[f]
      PROVE  e = f
  <2>1. e \in 1 .. n - 1 /\ f \in 1 .. n - 1
    BY <1>3, <1>7
  <2>2. /\ ipRouteDBKeys[Skip(at, e)] = ipRouteDBKeys[Skip(at, f)]
        /\ Skip(at, e) \in DOMAIN ipRouteDBKeys /\ Skip(at, f) \in DOMAIN ipRouteDBKeys
    BY <1>1, <1>3, <1>4, <1>7, <2>1
  <2>3. Skip(at, e) = Skip(at, f)
    BY <2>2
  <2> QED BY <1>5, <2>1, <2>3
<1>8. ~Listed(p)'
  BY <1>0, <1>1, <1>3, <1>4 DEF Listed
<1>9. ASSUME NEW q \in Prefix \ {p}
      PROVE  Listed(q)' <=> Listed(q)
  <2>1. ASSUME NEW e \in DOMAIN ipRouteDBKeys', ipRouteDBKeys'[e] = q
        PROVE  Listed(q)
    BY <1>1, <1>3, <1>4, <2>1 DEF Listed
  <2>2. ASSUME NEW i \in DOMAIN ipRouteDBKeys, ipRouteDBKeys[i] = q
        PROVE  Listed(q)'
    <3>1. i \in 1 .. n /\ i # at
      BY <1>0, <1>1, <1>9, <2>2
    <3>2. PICK e \in 1 .. n - 1 : i = Skip(at, e)
      BY <1>6, <3>1
    <3>3. ipRouteDBKeys'[e] = q /\ e \in DOMAIN ipRouteDBKeys'
      BY <1>3, <2>2, <3>2
    <3> QED BY <3>3 DEF Listed
  <2> QED BY <2>1, <2>2 DEF Listed
<1> QED BY <1>3, <1>7, <1>8, <1>9

\* The first message of a channel is received.
LEMMA KeyServe ==
  ASSUME KeyInv, KeyServer
  PROVE  KeyInv'
<1>0. PICK n, m, p : n + 1 = Len(ipPrefixStateUpdCh) /\ n \in Nat
                     /\ m = ipPrefixStateUpdCh[1] /\ p = m[2]
  <2>1. ipPrefixStateUpdCh \in Seq(KeyMsg) /\ ipPrefixStateUpdCh # <<>>
    BY DEF KeyInv, KeyServer
  <2>2. Len(ipPrefixStateUpdCh) \in Nat \ {0}
    BY <2>1, EmptySeq, LenProperties
  <2>3. Len(ipPrefixStateUpdCh) - 1 \in Nat /\ (Len(ipPrefixStateUpdCh) - 1) + 1 = Len(ipPrefixStateUpdCh)
    BY <2>2
  <2> QED BY <2>3
<1>1. /\ ipPrefixStateUpdCh \in Seq(KeyMsg) /\ ipPrefixStateUpdCh # <<>>
      /\ Len(KeyOf) = n + 1 /\ DOMAIN ipPrefixStateUpdCh = 1 .. n + 1
      /\ \A i \in 1 .. n + 1 : KeyOf[i] = ipPrefixStateUpdCh[i][2] /\ KeyOf[i] \in Prefix
      /\ ipPrefixStateUpdCh[1] \in KeyMsg
  BY <1>0, KeySeq DEF KeyInv, KeyServer
<1>2. /\ ipPrefixStateUpdCh' \in Seq(KeyMsg) /\ DOMAIN ipPrefixStateUpdCh' = 1 .. n
      /\ Len(ipPrefixStateUpdCh') = n
      /\ \A i \in 1 .. n : ipPrefixStateUpdCh'[i] = ipPrefixStateUpdCh[i + 1]
      /\ Head(ipPrefixStateUpdCh) = m
  <2>1. ipPrefixStateUpdCh' = Tail(ipPrefixStateUpdCh)
    BY DEF KeyServer
  <2> QED BY <1>0, <1>1, <2>1, HeadTailProperties, LenProperties
<1>3. m \in KeyMsg /\ p \in Prefix /\ KeyOf[1] = p /\ m[1] \in {"Add", "Del"}
  BY <1>0, <1>1 DEF KeyMsg
<1>4. /\ Len(KeyOf') = n
      /\ \A i \in 1 .. n : KeyOf'[i] = KeyOf[i + 1]
  <2>1. KeyOf' = [i \in 1 .. n |-> ipPrefixStateUpdCh'[i][2]]
    BY <1>2 DEF KeyOf
  <2>2. Len([i \in 1 .. n |-> ipPrefixStateUpdCh'[i][2]]) = n
    BY <1>0
  <2>3. \A i \in 1 .. n : i + 1 \in 1 .. n + 1
    BY <1>0
  <2> QED BY <1>1, <1>2, <2>1, <2>2, <2>3
<1>5. m[1] = "Add" <=> ~Listed(p)
  <2>1. Before(KeyOf, p, 0, 1)
    BY BeforeFirst
  <2>2. 1 \in 1 .. n + 1 /\ 0 \in 0 .. 1 - 1
    BY <1>0
  <2>3. m[1] = "Add" <=> ~KeyAfter(p, 0)
    BY <1>0, <1>1, <1>3, <2>1, <2>2 DEF KeyInv
  <2> QED BY <2>3 DEF KeyAfter
<1>6. /\ ipRouteDBKeys' \in Seq(Prefix)
      /\ \A i, j \in DOMAIN ipRouteDBKeys' : ipRouteDBKeys'[i] = ipRouteDBKeys'[j] => i = j
      /\ Listed(p)' <=> m[1] = "Add"
      /\ \A q \in Prefix \ {p} : Listed(q)' <=> Listed(q)
  <2>1. CASE m[1] = "Add"
    <3>1. ipRouteDBKeys' = Append(ipRouteDBKeys, p)
      BY <1>0, <1>2, <2>1 DEF KeyServer
    <3> QED BY <1>3, <1>5, <2>1, <3>1, ListAdded DEF KeyInv
  <2>2. CASE m[1] # "Add"
    <3>1. ipRouteDBKeys' = Without(ipRouteDBKeys, p)
      BY <1>0, <1>2, <2>2 DEF KeyServer
    <3> QED BY <1>3, <1>5, <2>2, <3>1, ListRemoved DEF KeyInv
  <2> QED BY <2>1, <2>2
<1>7. ASSUME NEW q \in Prefix, NEW i \in 0 .. n
      PROVE  KeyAfter(q, i)' <=> KeyAfter(q, Shifted(KeyOf, q, i))
  <2>1. CASE i = 0
    BY <1>0, <1>3, <1>6, <2>1 DEF KeyAfter, Shifted
  <2>2. CASE i # 0
    <3>1. i \in 1 .. n /\ i > 0 /\ i + 1 # 0
      BY <1>0, <2>2
    <3>2. Shifted(KeyOf, q, i) = i + 1
      BY <3>1 DEF Shifted
    <3> QED BY <1>2, <3>1, <3>2 DEF KeyAfter
  <2> QED BY <2>1, <2>2
<1>8. ASSUME NEW q \in Prefix, NEW j \in 1 .. n + 1, NEW i \in 0 .. j - 1, Before(KeyOf', q, i, j)
      PROVE  /\ Before(KeyOf, q, Shifted(KeyOf, q, i), j + 1)
             /\ Shifted(KeyOf, q, i) \in 0 .. j /\ i \in 0 .. n
  <2>1. i \in 0 .. n
    BY <1>0
  <2>2. \A h \in 1 .. n : KeyOf'[h] = KeyOf[h + 1]
    BY <1>4
  <2>3. Before(KeyOf, q, Shifted(KeyOf, q, i), j + 1) /\ Shifted(KeyOf, q, i) \in 0 .. j
    BY <1>0, <1>8, <2>2, BeforeShift
  <2> QED BY <2>1, <2>3
<1>9. ASSUME NEW q \in Prefix, NEW i \in 0 .. n, Before(KeyOf', q, i, n + 1)
      PROVE  KeyAfter(q, i)' <=> q \in ipRouteDB'
  <2>1. n + 1 \in 1 .. n + 1 /\ i \in 0 .. (n + 1) - 1
    BY <1>0
  <2>2. Before(KeyOf, q, Shifted(KeyOf, q, i), (n + 1) + 1) /\ Shifted(KeyOf, q, i) \in 0 .. n + 1
    BY <1>8, <1>9, <2>1
  <2>3. KeyAfter(q, Shifted(KeyOf, q, i)) <=> q \in ipRouteDB
    BY <1>1, <2>2 DEF KeyInv
  <2>4. ipRouteDB' = ipRouteDB
    BY DEF KeyServer, dbVars
  <2> QED BY <1>7, <2>3, <2>4
<1>10. ASSUME NEW j \in 1 .. n, NEW k, k = KeyOf'[j], NEW i \in 0 .. j - 1, Before(KeyOf', k, i, j)
       PROVE  ipPrefixStateUpdCh'[j][1] = "Add" <=> ~KeyAfter(k, i)'
  <2>1. j \in 1 .. n + 1 /\ j + 1 \in 1 .. n + 1 /\ (j + 1) - 1 = j
    BY <1>0
  <2>2. k = KeyOf[j + 1] /\ k \in Prefix
    BY <1>1, <1>4, <1>10, <2>1
  <2>3. /\ Before(KeyOf, k, Shifted(KeyOf, k, i), j + 1)
        /\ Shifted(KeyOf, k, i) \in 0 .. j /\ i \in 0 .. n
    BY <1>8, <1>10, <2>1, <2>2
  <2>4. ipPrefixStateUpdCh[j + 1][1] = "Add" <=> ~KeyAfter(k, Shifted(KeyOf, k, i))
    BY <1>1, <2>1, <2>2, <2>3 DEF KeyInv
  <2> QED BY <1>2, <1>7, <2>2, <2>3, <2>4
<1> QED BY <1>2, <1>4, <1>6, <1>9, <1>10 DEF KeyInv

-----------------------------------------------------------------------------
(***************************************************************************)
(* The kernel.                                                             *)
(***************************************************************************)
LEMMA LinuxSeq ==
  ASSUME LinuxInv
  PROVE  /\ Len(LinuxKeyOf) = Len(linuxCh) /\ Len(linuxCh) \in Nat
         /\ DOMAIN linuxCh = 1 .. Len(linuxCh)
         /\ \A i \in 1 .. Len(linuxCh) :
              /\ LinuxKeyOf[i] = <<linuxCh[i].prefix, linuxCh[i].nh>>
              /\ linuxCh[i] \in LinuxMsg
<1>1. linuxCh \in Seq(LinuxMsg)
  BY DEF LinuxInv
<1>2. Len(LinuxKeyOf) = Len(linuxCh)
  BY <1>1, LenProperties DEF LinuxKeyOf
<1> QED BY <1>1, <1>2, LenProperties, ElementOfSeq DEF LinuxKeyOf

LEMMA LinuxSame ==
  ASSUME LinuxInv, UNCHANGED <<linuxCh, kernelRoute>>, \A q \in Prefix : Told(q)' = Told(q)
  PROVE  LinuxInv'
<1>1. LinuxKeyOf' = LinuxKeyOf
  BY DEF LinuxKeyOf
<1>2. \A p \in Prefix, n \in NextHop, i \in Nat : LinuxAfter(p, n, i)' <=> LinuxAfter(p, n, i)
  BY DEF LinuxAfter
<1>3. \A i \in 0 .. Len(LinuxKeyOf) : i \in Nat
  OBVIOUS
<1> QED BY <1>1, <1>2, <1>3, LinuxSeq DEF LinuxInv, LinuxAfter, LinuxMsg

LEMMA LinuxSent ==
  ASSUME LinuxInv, "linux" \in Plugins, NEW p \in Prefix, NEW nh \in NextHop,
         NEW op \in {"Add", "Del"}, NEW multipath \in BOOLEAN,
         ToLinux(op, p, nh, multipath), UNCHANGED kernelRoute,
         op = "Add" /\ ~multipath => Told(p) = {},
         Told(p)' = IF op = "Add" THEN Told(p) \cup {nh} ELSE Told(p) \ {nh},
         \A q \in Prefix \ {p} : Told(q)' = Told(q)
  PROVE  LinuxInv'
<1>0. PICK n : n = Len(linuxCh)
  OBVIOUS
<1>1. /\ linuxCh \in Seq(LinuxMsg) /\ n \in Nat
      /\ Len(LinuxKeyOf) = n /\ DOMAIN linuxCh = 1 .. n
      /\ \A i \in 1 .. n : /\ LinuxKeyOf[i] = <<linuxCh[i].prefix, linuxCh[i].nh>>
                           /\ linuxCh[i].prefix \in Prefix
  BY <1>0, LinuxSeq DEF LinuxInv, LinuxMsg
<1>m. PICK m : m = [op |-> op, prefix |-> p, nh |-> nh, multipath |-> multipath]
  OBVIOUS
<1>2. /\ linuxCh' \in Seq(LinuxMsg) /\ DOMAIN linuxCh' = 1 .. n + 1
      /\ Len(linuxCh') = n + 1
      /\ \A i \in 1 .. n : linuxCh'[i] = linuxCh[i]
      /\ linuxCh'[n + 1] = m
  <2>1. linuxCh' = Append(linuxCh, m) /\ m \in LinuxMsg
    BY <1>m DEF ToLinux, LinuxMsg
  <2> QED BY <1>0, <1>1, <2>1, AppendProperties, LenProperties
<1>3. /\ Len(LinuxKeyOf') = n + 1
      /\ \A i \in 1 .. n : LinuxKeyOf'[i] = LinuxKeyOf[i]
      /\ LinuxKeyOf'[n + 1] = <<p, nh>>
  <2>1. LinuxKeyOf' = [i \in 1 .. n + 1 |-> <<linuxCh'[i].prefix, linuxCh'[i].nh>>]
    BY <1>2 DEF LinuxKeyOf
  <2>2. Len([i \in 1 .. n + 1 |-> <<linuxCh'[i].prefix, linuxCh'[i].nh>>]) = n + 1
    BY <1>1
  <2>3. n + 1 \in 1 .. n + 1 /\ \A i \in 1 .. n : i \in 1 .. n + 1
    BY <1>1
  <2> QED BY <1>1, <1>2, <1>m, <2>1, <2>2, <2>3
<1>4. \A q \in Prefix, x \in NextHop, i \in 0 .. n : LinuxAfter(q, x, i)' <=> LinuxAfter(q, x, i)
  BY <1>2 DEF LinuxAfter
<1>5. \A q \in Prefix, x \in NextHop : LinuxAfter(q, x, n + 1)' <=> op = "Add"
  BY <1>1, <1>2, <1>m DEF LinuxAfter
<1>6. n + 1 \in Nat \ {0} /\ n + 1 \in 1 .. n + 1
  BY <1>1
<1>7. ASSUME NEW q \in Prefix, NEW x \in NextHop \ Connected, NEW i \in 0 .. n + 1,
             Before(LinuxKeyOf', <<q, x>>, i, (n + 1) + 1)
      PROVE  LinuxAfter(q, x, i)' <=> x \in Told(q)'
  <2>1. IF <<p, nh>> = <<q, x>> THEN i = n + 1 ELSE Before(LinuxKeyOf', <<q, x>>, i, n + 1)
    <3>1. PICK k : k = <<q, x>>
      OBVIOUS
    <3>2. IF LinuxKeyOf'[n + 1] = k THEN i = n + 1 ELSE Before(LinuxKeyOf', k, i, n + 1)
      BY <1>6, <1>7, <3>1, BeforeNext
    <3> QED BY <1>3, <3>1, <3>2
  <2>2. CASE q = p /\ x = nh
    BY <1>5, <2>1, <2>2
  <2>3. CASE ~(q = p /\ x = nh)
    <3>1. Before(LinuxKeyOf', <<q, x>>, i, n + 1)
      BY <2>1, <2>3
    <3>2. Before(LinuxKeyOf, <<q, x>>, i, n + 1) /\ i \in 0 .. n
      BY <1>1, <1>3, <1>6, <3>1, BeforeSame DEF Before
    <3>3. LinuxAfter(q, x, i) <=> x \in Told(q)
      BY <1>1, <3>2 DEF LinuxInv
    <3>4. x \in Told(q)' <=> x \in Told(q)
      BY <2>3
    <3> QED BY <1>4, <3>2, <3>3, <3>4
  <2> QED BY <2>2, <2>3
<1>8. ASSUME NEW j \in 1 .. n + 1, linuxCh'[j].op = "Add", ~linuxCh'[j].multipath,
             NEW q, q = linuxCh'[j].prefix, NEW x \in NextHop \ Connected,
             NEW i \in 0 .. j - 1, Before(LinuxKeyOf', <<q, x>>, i, j)
      PROVE  ~LinuxAfter(q, x, i)'
  <2>0. i \in 0 .. n
    BY <1>1
  <2>1. Before(LinuxKeyOf, <<q, x>>, i, j)
    <3>1. \A h \in 1 .. n : LinuxKeyOf'[h] = LinuxKeyOf[h]
      BY <1>3
    <3> QED BY <1>1, <1>8, <3>1, BeforeSame
  <2>2. CASE j = n + 1
    <3>1. q = p /\ op = "Add" /\ ~multipath
      BY <1>2, <1>8, <1>m, <2>2
    <3>2. LinuxAfter(p, x, i) <=> x \in Told(p)
      BY <1>1, <2>0, <2>1, <2>2, <3>1 DEF LinuxInv
    <3> QED BY <1>4, <2>0, <3>1, <3>2
  <2>3. CASE j \in 1 .. n
    <3>1. linuxCh'[j] = linuxCh[j] /\ q = linuxCh[j].prefix /\ q \in Prefix
      BY <1>1, <1>2, <1>8, <2>3
    <3>2. ~LinuxAfter(q, x, i)
      BY <1>1, <1>8, <2>1, <2>3, <3>1 DEF LinuxInv
    <3> QED BY <1>4, <2>0, <3>1, <3>2
  <2> QED BY <1>1, <2>2, <2>3
<1>9. kernelRoute' \in [Prefix -> SUBSET (NextHop \ Connected)]
  BY DEF LinuxInv
<1> QED BY <1>2, <1>3, <1>7, <1>8, <1>9 DEF LinuxInv

LEMMA LinuxServe ==
  ASSUME LinuxInv, LinuxServer
  PROVE  LinuxInv'
<1>0. PICK n, m, p : n + 1 = Len(linuxCh) /\ n \in Nat /\ m = linuxCh[1] /\ p = m.prefix
  <2>1. linuxCh \in Seq(LinuxMsg) /\ linuxCh # <<>>
    BY DEF LinuxInv, LinuxServer
  <2>2. Len(linuxCh) \in Nat \ {0}
    BY <2>1, EmptySeq, LenProperties
  <2>3. Len(linuxCh) - 1 \in Nat /\ (Len(linuxCh) - 1) + 1 = Len(linuxCh)
    BY <2>2
  <2> QED BY <2>3
<1>1. /\ linuxCh \in Seq(LinuxMsg) /\ linuxCh # <<>>
      /\ Len(LinuxKeyOf) = n + 1 /\ DOMAIN linuxCh = 1 .. n + 1
      /\ \A i \in 1 .. n + 1 : /\ LinuxKeyOf[i] = <<linuxCh[i].prefix, linuxCh[i].nh>>
                               /\ linuxCh[i] \in LinuxMsg
  BY <1>0, LinuxSeq DEF LinuxInv, LinuxServer
<1>2. /\ linuxCh' \in Seq(LinuxMsg) /\ DOMAIN linuxCh' = 1 .. n
      /\ Len(linuxCh') = n
      /\ \A i \in 1 .. n : linuxCh'[i] = linuxCh[i + 1]
      /\ Head(linuxCh) = m
  <2>1. linuxCh' = Tail(linuxCh)
    BY DEF LinuxServer
  <2> QED BY <1>0, <1>1, <2>1, HeadTailProperties, LenProperties
<1>3. m \in LinuxMsg /\ p \in Prefix /\ LinuxKeyOf[1] = <<p, m.nh>> /\ m.op \in {"Add", "Del"}
  BY <1>0, <1>1 DEF LinuxMsg
<1>4. /\ Len(LinuxKeyOf') = n
      /\ \A i \in 1 .. n : LinuxKeyOf'[i] = LinuxKeyOf[i + 1]
  <2>1. LinuxKeyOf' = [i \in 1 .. n |-> <<linuxCh'[i].prefix, linuxCh'[i].nh>>]
    BY <1>2 DEF LinuxKeyOf
  <2>2. Len([i \in 1 .. n |-> <<linuxCh'[i].prefix, linuxCh'[i].nh>>]) = n
    BY <1>0
  <2>3. \A i \in 1 .. n : i + 1 \in 1 .. n + 1
    BY <1>0
  <2> QED BY <1>1, <1>2, <2>1, <2>2, <2>3
<1>5. m.op = "Add" /\ ~m.multipath => kernelRoute[p] = {}
  <2>1. kernelRoute[p] \subseteq NextHop \ Connected
    BY <1>3 DEF LinuxInv
  <2> SUFFICES ASSUME m.op = "Add", ~m.multipath, NEW x \in NextHop \ Connected
               PROVE  x \notin kernelRoute[p]
    BY <2>1
  <2>2. Before(LinuxKeyOf, <<p, x>>, 0, 1)
    BY BeforeFirst
  <2>3. 1 \in 1 .. n + 1 /\ 0 \in 0 .. 1 - 1
    BY <1>0
  <2>4. ~LinuxAfter(p, x, 0)
    BY <1>0, <1>1, <2>2, <2>3 DEF LinuxInv
  <2> QED BY <2>4 DEF LinuxAfter
<1>6. /\ kernelRoute' \in [Prefix -> SUBSET (NextHop \ Connected)]
      /\ \A q \in Prefix, x \in NextHop \ Connected :
           x \in kernelRoute'[q] <=> IF <<p, m.nh>> = <<q, x>> THEN m.op = "Add"
                                     ELSE x \in kernelRoute[q]
  <2>1. kernelRoute' = [kernelRoute EXCEPT ![p] = NextHopsAfter(m, @)]
    BY <1>0, <1>2 DEF LinuxServer
  <2>2. kernelRoute \in [Prefix -> SUBSET (NextHop \ Connected)] /\ m.nh \in NextHop
    BY <1>3 DEF LinuxInv, LinuxMsg
  <2>3. NextHopsAfter(m, kernelRoute[p]) =
          IF m.nh \in Connected THEN kernelRoute[p]
          ELSE IF m.op = "Del" THEN kernelRoute[p] \ {m.nh}
          ELSE kernelRoute[p] \cup {m.nh}
    BY <1>3, <1>5 DEF NextHopsAfter
  <2>4. NextHopsAfter(m, kernelRoute[p]) \subseteq NextHop \ Connected
    BY <1>3, <2>2, <2>3
  <2>5. kernelRoute' \in [Prefix -> SUBSET (NextHop \ Connected)]
    BY <2>1, <2>2, <2>4
  <2>6. /\ kernelRoute'[p] = NextHopsAfter(m, kernelRoute[p])
        /\ \A q \in Prefix \ {p} : kernelRoute'[q] = kernelRoute[q]
    BY <1>3, <2>1, <2>2
  <2>7. \A x \in NextHop \ Connected :
          x \in kernelRoute'[p] <=> IF m.nh = x THEN m.op = "Add" ELSE x \in kernelRoute[p]
    BY <1>3, <2>3, <2>6
  <2> QED BY <2>5, <2>6, <2>7
<1>7. ASSUME NEW q \in Prefix, NEW x \in NextHop \ Connected, NEW i \in 0 .. n
      PROVE  LinuxAfter(q, x, i)' <=> LinuxAfter(q, x, Shifted(LinuxKeyOf, <<q, x>>, i))
  <2>1. CASE i = 0
    BY <1>0, <1>3, <1>6, <2>1 DEF LinuxAfter, Shifted
  <2>2. CASE i # 0
    <3>1. i \in 1 .. n /\ i > 0 /\ i + 1 # 0
      BY <1>0, <2>2
    <3>2. Shifted(LinuxKeyOf, <<q, x>>, i) = i + 1
      BY <3>1 DEF Shifted
    <3> QED BY <1>2, <3>1, <3>2 DEF LinuxAfter
  <2> QED BY <2>1, <2>2
<1>8. ASSUME NEW q \in Prefix, NEW x \in NextHop \ Connected, NEW j \in 1 .. n + 1,
             NEW i \in 0 .. j - 1, Before(LinuxKeyOf', <<q, x>>, i, j)
      PROVE  /\ Before(LinuxKeyOf, <<q, x>>, Shifted(LinuxKeyOf, <<q, x>>, i), j + 1)
             /\ Shifted(LinuxKeyOf, <<q, x>>, i) \in 0 .. j /\ i \in 0 .. n
  <2>1. i \in 0 .. n
    BY <1>0
  <2>2. \A h \in 1 .. n : LinuxKeyOf'[h] = LinuxKeyOf[h + 1]
    BY <1>4
  <2>3. /\ Before(LinuxKeyOf, <<q, x>>, Shifted(LinuxKeyOf, <<q, x>>, i), j + 1)
        /\ Shifted(LinuxKeyOf, <<q, x>>, i) \in 0 .. j
    BY <1>0, <1>8, <2>2, BeforeShift
  <2> QED BY <2>1, <2>3
<1>9. ASSUME NEW q \in Prefix, NEW x \in NextHop \ Connected, NEW i \in 0 .. n,
             Before(LinuxKeyOf', <<q, x>>, i, n + 1)
      PROVE  LinuxAfter(q, x, i)' <=> x \in Told(q)'
  <2>1. n + 1 \in 1 .. n + 1 /\ i \in 0 .. (n + 1) - 1
    BY <1>0
  <2>2. PICK s : s = Shifted(LinuxKeyOf, <<q, x>>, i)
    OBVIOUS
  <2>3. Before(LinuxKeyOf, <<q, x>>, s, (n + 1) + 1) /\ s \in 0 .. n + 1
    BY <1>8, <1>9, <2>1, <2>2
  <2>4. LinuxAfter(q, x, s) <=> x \in Told(q)
    BY <1>1, <2>3 DEF LinuxInv
  <2>5. Told(q)' = Told(q)
    BY DEF LinuxServer, dbVars, Told, Mine, Adding
  <2> QED BY <1>7, <2>2, <2>4, <2>5
<1>10. ASSUME NEW j \in 1 .. n, linuxCh'[j].op = "Add", ~linuxCh'[j].multipath,
              NEW q, q = linuxCh'[j].prefix, NEW x \in NextHop \ Connected,
              NEW i \in 0 .. j - 1, Before(LinuxKeyOf', <<q, x>>, i, j)
       PROVE  ~LinuxAfter(q, x, i)'
  <2>1. j \in 1 .. n + 1 /\ j + 1 \in 1 .. n + 1 /\ (j + 1) - 1 = j
    BY <1>0
  <2>2. /\ linuxCh[j + 1].op = "Add" /\ ~linuxCh[j + 1].multipath
        /\ q = linuxCh[j + 1].prefix /\ q \in Prefix
    BY <1>1, <1>2, <1>10, <2>1 DEF LinuxMsg
  <2>3. PICK s : s = Shifted(LinuxKeyOf, <<q, x>>, i)
    OBVIOUS
  <2>4. Before(LinuxKeyOf, <<q, x>>, s, j + 1) /\ s \in 0 .. j /\ i \in 0 .. n
    BY <1>8, <1>10, <2>1, <2>2, <2>3
  <2>5. ~LinuxAfter(q, x, s)
    BY <1>1, <2>1, <2>2, <2>4 DEF LinuxInv
  <2> QED BY <1>7, <2>2, <2>3, <2>4, <2>5
<1> QED BY <1>2, <1>4, <1>6, <1>9, <1>10 DEF LinuxInv

-----------------------------------------------------------------------------
(***************************************************************************)
(* The whole system.                                                       *)
(***************************************************************************)
LEMMA InitDb == Init => DbInv /\ CountInv
<1> SUFFICES ASSUME Init PROVE DbInv /\ CountInv
  OBVIOUS
<1> USE DEF Init, RouteInit
<1>1. DbType
  BY EmptySeq DEF DbType, Adding, NoGroup
<1>2. JobInv
  BY DEF JobInv, Adding, Deleting, Replacing
<1>3. \A p \in Prefix : Settled(p)
  BY DEF Settled
<1>4. Pairs = {}
  BY DEF Pairs, Counted, Mine
<1>5. routeCnt = Cardinality(Pairs)
  BY <1>4, FS_EmptySet
<1> QED BY <1>1, <1>2, <1>3, <1>5 DEF DbInv, CountInv

LEMMA InitKeys == Init => KeyInv
<1> SUFFICES ASSUME Init PROVE KeyInv
  OBVIOUS
<1>1. ipPrefixStateUpdCh = <<>> /\ ipRouteDBKeys = <<>> /\ ipRouteDB = {}
  BY DEF Init, RouteInit
<1>2. KeyOf = <<>> /\ Len(KeyOf) = 0
  BY <1>1 DEF KeyOf
<1>3. \A p \in Prefix : ~KeyAfter(p, 0)
  BY <1>1 DEF KeyAfter, Listed
<1>4. ipPrefixStateUpdCh \in Seq(KeyMsg) /\ ipRouteDBKeys \in Seq(Prefix)
  BY <1>1, EmptySeq
<1>5. DOMAIN ipRouteDBKeys = {}
  BY <1>1
<1>6. 0 .. Len(KeyOf) = {0} /\ 1 .. Len(KeyOf) = {}
  BY <1>2
<1> QED BY <1>1, <1>3, <1>4, <1>5, <1>6 DEF KeyInv

LEMMA InitLinux == Init => LinuxInv
<1> SUFFICES ASSUME Init PROVE LinuxInv
  OBVIOUS
<1>1. /\ linuxCh = <<>> /\ kernelRoute = [p \in Prefix |-> {}]
      /\ pc = "idle" /\ nextHopMap = [p \in Prefix |-> {}]
  BY DEF Init, RouteInit
<1>2. LinuxKeyOf = <<>> /\ Len(LinuxKeyOf) = 0
  BY <1>1 DEF LinuxKeyOf
<1>3. \A p \in Prefix, n \in NextHop : ~LinuxAfter(p, n, 0) /\ n \notin Told(p)
  BY <1>1 DEF LinuxAfter, Told, Adding
<1>4. linuxCh \in Seq(LinuxMsg)
  BY <1>1, EmptySeq
<1>5. 0 .. Len(LinuxKeyOf) = {0} /\ 1 .. Len(LinuxKeyOf) = {}
  BY <1>2
<1> QED BY <1>1, <1>3, <1>4, <1>5 DEF LinuxInv

LEMMA KeySame ==
  ASSUME KeyInv, UNCHANGED <<ipPrefixStateUpdCh, ipRouteDBKeys, ipRouteDB>>
  PROVE  KeyInv'
<1>1. KeyOf' = KeyOf
  BY DEF KeyOf
<1>2. \A p \in Prefix, i \in Nat : KeyAfter(p, i)' <=> KeyAfter(p, i)
  BY DEF KeyAfter, Listed
<1>3. \A i \in 0 .. Len(KeyOf) : i \in Nat
  OBVIOUS
<1> QED BY <1>1, <1>2, <1>3, KeySeq DEF KeyInv

\* What each step does with the kernel's channel.
LinuxStep == LinuxInv /\ "linux" \in Plugins => LinuxInv'

LEMMA QuietStep ==
  ASSUME RInv, UNCHANGED <<dbVars, keyVars, pc, cur, linuxCh, kernelRoute>>,
         routeOpChannel' \in Seq(Operations)
  PROVE  RInv' /\ LinuxStep
<1>1. UNCHANGED <<ipRouteDB, nextHopMap, ecmpGrpId, routeCnt, pc, cur,
                  ipPrefixStateUpdCh, ipRouteDBKeys, linuxCh, kernelRoute>>
  BY DEF dbVars, keyVars
<1>2. \A q \in Prefix : Counted(q)' = Counted(q) /\ Told(q)' = Told(q)
  BY <1>1 DEF Counted, Told, Mine, Adding
<1>3. DbInv'
  BY <1>1, DbSame DEF RInv
<1>4. CountInv'
  BY <1>1, <1>2, CountSame DEF RInv
<1>5. KeyInv'
  BY <1>1, KeySame DEF RInv
<1>6. LinuxStep
  BY <1>1, <1>2, LinuxSame DEF LinuxStep
<1> QED BY <1>3, <1>4, <1>5, <1>6 DEF RInv

LEMMA WorkStep ==
  ASSUME RInv, \/ TakeAddFirst \/ TakeAddSecond \/ TakeAddMore
               \/ DropSingle \/ WaitDel \/ ReplaceGroup
  PROVE  RInv' /\ LinuxStep
<1>1. DbInv' /\ \A q \in Prefix : Counted(q)' = Counted(q) /\ Told(q)' = Told(q)
  BY TakeAddFirstDb, TakeAddSecondDb, StepsDb DEF RInv
<1>2. UNCHANGED <<ipRouteDB, routeCnt, ipPrefixStateUpdCh, ipRouteDBKeys, linuxCh, kernelRoute>>
  BY DEF TakeAddFirst, TakeAddSecond, TakeAddMore, DropSingle, WaitDel, ReplaceGroup,
         dbVars, keyVars, hwVars
<1>3. CountInv' /\ KeyInv'
  BY <1>1, <1>2, CountSame, KeySame DEF RInv
<1>4. LinuxStep
  BY <1>1, <1>2, LinuxSame DEF LinuxStep
<1> QED BY <1>1, <1>3, <1>4 DEF RInv

LEMMA ProgramStep ==
  ASSUME RInv, Program
  PROVE  RInv' /\ LinuxStep
<1>1. PICK p, n : p = cur.prefix /\ n = cur.nh
  OBVIOUS
<1>2. /\ DbInv' /\ p \in Prefix /\ n \in NextHop /\ n \notin Counted(p)
      /\ Told(p) = Counted(p) /\ Counted(p)' = Counted(p) \cup {n}
      /\ Told(p)' = Counted(p) \cup {n} /\ (p \notin ipRouteDB => Counted(p) = {})
      /\ \A q \in Prefix \ {p} : Counted(q)' = Counted(q) /\ Told(q)' = Told(q)
  BY <1>1, ProgramDb DEF RInv
<1>3. CountInv'
  <2>1. routeCnt' = routeCnt + 1
    BY DEF Program
  <2> QED BY <1>2, <2>1, CountMore DEF RInv
<1>4. KeyInv'
  <2>1. UNCHANGED ipRouteDBKeys /\ ipRouteDB' = ipRouteDB \cup {p}
    BY <1>1 DEF Program
  <2>2. CASE p \in ipRouteDB
    <3>1. ipRouteDB' = ipRouteDB /\ UNCHANGED ipPrefixStateUpdCh
      BY <1>1, <2>1, <2>2 DEF Program
    <3> QED BY <2>1, <3>1, KeySame DEF RInv
  <2>3. CASE p \notin ipRouteDB
    <3>1. ToKeys("Add", p)
      BY <1>1, <2>3 DEF Program
    <3> QED BY <1>2, <2>1, <2>3, <3>1, KeySent DEF RInv
  <2> QED BY <2>2, <2>3
<1>5. LinuxStep
  <2> SUFFICES ASSUME LinuxInv, "linux" \in Plugins PROVE LinuxInv'
    BY DEF LinuxStep
  <2>1. ToLinux("Add", p, n, p \in ipRouteDB) /\ UNCHANGED kernelRoute
    BY <1>1 DEF Program, hwVars
  <2>2. CASE p \in ipRouteDB
    <3>1. ToLinux("Add", p, n, TRUE)
      BY <2>1, <2>2, (p \in ipRouteDB) = TRUE
    <3> QED BY <1>2, <2>1, <3>1, LinuxSent
  <2>3. CASE p \notin ipRouteDB
    <3>1. ToLinux("Add", p, n, FALSE)
      BY <2>1, <2>3, (p \in ipRouteDB) = FALSE
    <3> QED BY <1>2, <2>1, <2>3, <3>1, LinuxSent
  <2> QED BY <2>2, <2>3
<1> QED BY <1>2, <1>3, <1>4, <1>5 DEF RInv

LEMMA TakeDelStep ==
  ASSUME RInv, TakeDel
  PROVE  RInv' /\ LinuxStep
<1>1. PICK p, n : p = Head(routeOpChannel).prefix /\ n = Head(routeOpChannel).nh
  OBVIOUS
<1>2. /\ DbInv' /\ p \in Prefix /\ n \in NextHop /\ Told(p)' = Told(p) \ {n}
      /\ \A q \in Prefix : Counted(q)' = Counted(q)
      /\ \A q \in Prefix \ {p} : Told(q)' = Told(q)
  BY <1>1, TakeDelDb DEF RInv
<1>3. UNCHANGED <<ipRouteDB, routeCnt, ipPrefixStateUpdCh, ipRouteDBKeys, kernelRoute>>
  BY DEF TakeDel, keyVars, hwVars
<1>4. CountInv' /\ KeyInv'
  BY <1>2, <1>3, CountSame, KeySame DEF RInv
<1>5. LinuxStep
  <2>1. ToLinux("Del", p, n, FALSE)
    BY <1>1 DEF TakeDel
  <2> QED BY <1>2, <1>3, <2>1, LinuxSent DEF LinuxStep
<1> QED BY <1>2, <1>4, <1>5 DEF RInv

LEMMA EndStep ==
  ASSUME RInv, ReleaseLast \/ WaitUpd
  PROVE  RInv' /\ LinuxStep
<1>1. PICK p, n : p = cur.prefix /\ n = cur.nh
  OBVIOUS
<1>2. /\ DbInv' /\ p \in ipRouteDB /\ p \in Prefix /\ n \in NextHop /\ n \in Counted(p)
      /\ Counted(p)' = Counted(p) \ {n}
      /\ \A q \in Prefix \ {p} : Counted(q)' = Counted(q)
      /\ \A q \in Prefix : Told(q)' = Told(q)
  BY <1>1, EndsDb DEF RInv
<1>3. /\ routeCnt' = routeCnt - 1 /\ UNCHANGED <<ipRouteDBKeys, linuxCh, kernelRoute>>
      /\ \/ ToKeys("Del", p) /\ ipRouteDB' = ipRouteDB \ {p}
         \/ UNCHANGED <<ipPrefixStateUpdCh, ipRouteDB>>
  BY <1>1 DEF ReleaseLast, WaitUpd, keyVars, hwVars
<1>4. CountInv'
  BY <1>2, <1>3, CountLess DEF RInv
<1>5. KeyInv'
  <2>1. CASE ToKeys("Del", p) /\ ipRouteDB' = ipRouteDB \ {p}
    BY <1>2, <1>3, <2>1, KeySent DEF RInv
  <2>2. CASE UNCHANGED <<ipPrefixStateUpdCh, ipRouteDB>>
    BY <1>3, <2>2, KeySame DEF RInv
  <2> QED BY <1>3, <2>1, <2>2
<1>6. LinuxStep
  BY <1>2, <1>3, LinuxSame DEF LinuxStep
<1> QED BY <1>2, <1>4, <1>5, <1>6 DEF RInv

LEMMA NextRInv ==
  ASSUME RInv, Next
  PROVE  RInv' /\ LinuxStep
<1>0. routeOpChannel \in Seq(Operations)
  BY DEF RInv, DbInv, DbType
<1>1. ASSUME NEW p \in Prefix, NEW nh \in NextHop, CreateIPRoute(p, nh) \/ DeleteIPRoute(p, nh)
      PROVE  RInv' /\ LinuxStep
  <2>1. PICK op \in {"Add", "Del"} : QueueOp(op, p, nh)
    BY <1>1 DEF CreateIPRoute, DeleteIPRoute
  <2>2. PICK x : x = [op |-> op, prefix |-> p, nh |-> nh]
    OBVIOUS
  <2>3. x \in Operations /\ routeOpChannel' = Append(routeOpChannel, x)
    BY <2>1, <2>2 DEF QueueOp, Operations
  <2>4. routeOpChannel' \in Seq(Operations)
    BY <1>0, <2>3, AppendProperties
  <2>5. UNCHANGED <<dbVars, keyVars, pc, cur, linuxCh, kernelRoute>>
    BY <2>1 DEF QueueOp, hwVars
  <2> QED BY <2>4, <2>5, QuietStep
<1>2. CASE TakeNoOp
  <2>1. Takes("Add") \/ Takes("Del")
    BY <1>2 DEF TakeNoOp
  <2>2. routeOpChannel' \in Seq(Operations)
    BY <2>1, TakenOp DEF RInv
  <2>3. UNCHANGED <<dbVars, keyVars, pc, cur, linuxCh, kernelRoute>>
    BY <1>2 DEF TakeNoOp, hwVars
  <2> QED BY <2>2, <2>3, QuietStep
<1>3. CASE TakeAddFirst \/ TakeAddSecond \/ TakeAddMore \/ DropSingle \/ WaitDel \/ ReplaceGroup
  BY <1>3, WorkStep
<1>4. CASE Program
  BY <1>4, ProgramStep
<1>5. CASE TakeDel
  BY <1>5, TakeDelStep
<1>6. CASE ReleaseLast \/ WaitUpd
  BY <1>6, EndStep
<1>7. CASE AsicServer
  <2>1. UNCHANGED <<routeOpChannel, dbVars, keyVars, pc, cur, linuxCh, kernelRoute>>
    BY <1>7 DEF AsicServer
  <2> QED BY <1>0, <2>1, QuietStep
<1>8. CASE LinuxServer
  <2>1. /\ UNCHANGED <<routeOpChannel, ipRouteDB, nextHopMap, ecmpGrpId, routeCnt,
                       ipPrefixStateUpdCh, ipRouteDBKeys, pc, cur>>
    BY <1>8 DEF LinuxServer, dbVars, keyVars
  <2>2. \A q \in Prefix : Counted(q)' = Counted(q)
    BY <2>1 DEF Counted, Mine, Adding
  <2>3. RInv'
    BY <1>0, <2>1, <2>2, DbSame, CountSame, KeySame DEF RInv
  <2> QED BY <1>8, <2>3, LinuxServe DEF LinuxStep
<1>9. CASE KeyServer
  <2>1. /\ UNCHANGED <<routeOpChannel, ipRouteDB, nextHopMap, ecmpGrpId, routeCnt,
                       pc, cur, linuxCh, kernelRoute>>
    BY <1>9 DEF KeyServer, dbVars, hwVars
  <2>2. \A q \in Prefix : Counted(q)' = Counted(q) /\ Told(q)' = Told(q)
    BY <2>1 DEF Counted, Told, Mine, Adding
  <2>3. DbInv' /\ CountInv'
    BY <1>0, <2>1, <2>2, DbSame, CountSame DEF RInv
  <2>4. KeyInv'
    BY <1>9, KeyServe DEF RInv
  <2>5. LinuxStep
    BY <2>1, <2>2, LinuxSame DEF LinuxStep
  <2> QED BY <2>3, <2>4, <2>5 DEF RInv
<1> QED BY <1>1, <1>2, <1>3, <1>4, <1>5, <1>6, <1>7, <1>8, <1>9 DEF Next, Handler

LEMMA StutterRInv ==
  ASSUME RInv, UNCHANGED vars
  PROVE  RInv' /\ LinuxStep
<1>1. routeOpChannel' \in Seq(Operations)
  BY DEF RInv, DbInv, DbType, vars, routeVars
<1>2. UNCHANGED <<dbVars, keyVars, pc, cur, linuxCh, kernelRoute>>
  BY DEF vars, routeVars, hwVars
<1> QED BY <1>1, <1>2, QuietStep

\* The database, its counter and the key list stay consistent with what is
\* queued for them, whatever the next hop manager and the route servers do.
THEOREM RouteDatabase == Spec => []RInv
<1>1. Init => RInv
  BY InitDb, InitKeys DEF RInv
<1>2. RInv /\ [Next]_vars => RInv'
  BY NextRInv, StutterRInv
<1> QED BY <1>1, <1>2, PTL DEF Spec

\* GetNumV4Routes and GetNumV6Routes return the number of (prefix, next hop)
\* pairs of the database whenever no operation is in progress, with connected
\* and null routes among them (routeMgr.go, v4RouteCnt and v6RouteCnt).
THEOREM RouteCountIsExact == Spec => []RouteCountExact
<1>1. RInv => RouteCountExact
  <2> SUFFICES ASSUME RInv, pc = "idle"
               PROVE  Pairs = {pn \in Prefix \X NextHop :
                                 pn[1] \in ipRouteDB /\ pn[2] \in nextHopMap[pn[1]]}
    BY DEF RouteCountExact, Idle, RInv, CountInv
  <2>1. \A p \in Prefix : Counted(p) = nextHopMap[p] /\ (p \notin ipRouteDB => nextHopMap[p] = {})
    BY DEF RInv, DbInv, Settled, Counted, Mine
  <2> QED BY <2>1 DEF Pairs
<1> QED BY <1>1, RouteDatabase, PTL

\* Once the key goroutine has caught up, the list that GetBulk walks has every
\* prefix of the database and has it once (UpdateIpRouteStateDbInfo).
THEOREM KeysFollowDb == Spec => []KeysMatchDb
<1>1. RInv => KeysMatchDb
  <2> SUFFICES ASSUME RInv, pc = "idle", ipPrefixStateUpdCh = <<>>
               PROVE  /\ {ipRouteDBKeys[i] : i \in DOMAIN ipRouteDBKeys} = ipRouteDB
                      /\ Len(ipRouteDBKeys) = Cardinality(ipRouteDB)
    BY DEF KeysMatchDb, Idle
  <2>1. KeyInv /\ ipRouteDB \subseteq Prefix /\ ipRouteDBKeys \in Seq(Prefix)
    BY DEF RInv, DbInv, DbType, KeyInv
  <2>2. Len(KeyOf) = 0
    BY <2>1, KeySeq
  <2>3. \A p \in Prefix : Listed(p) <=> p \in ipRouteDB
    <3> TAKE p \in Prefix
    <3>1. Before(KeyOf, p, 0, 0 + 1)
      BY BeforeFirst
    <3>2. KeyAfter(p, 0) <=> p \in ipRouteDB
      BY <2>1, <2>2, <3>1 DEF KeyInv
    <3> QED BY <3>2 DEF KeyAfter
  <2>4. {ipRouteDBKeys[i] : i \in DOMAIN ipRouteDBKeys} = ipRouteDB
    <3>1. \A i \in DOMAIN ipRouteDBKeys : ipRouteDBKeys[i] \in Prefix
      BY <2>1, ElementOfSeq, LenProperties
    <3> QED BY <2>1, <2>3, <3>1 DEF Listed
  <2>5. Len(ipRouteDBKeys) = Cardinality(ipRouteDB)
    <3>1. /\ DOMAIN ipRouteDBKeys = 1 .. Len(ipRouteDBKeys) /\ Len(ipRouteDBKeys) \in Nat
      BY <2>1, LenProperties
    <3>2. ipRouteDBKeys \in [1 .. Len(ipRouteDBKeys) -> ipRouteDB]
      BY <2>1, <2>4, <3>1, LenProperties
    <3>3. ipRouteDBKeys \in Bijection(1 .. Len(ipRouteDBKeys), ipRouteDB)
      BY <2>1, <2>4, <3>1, <3>2 DEF KeyInv, Bijection, Injection, Surjection, IsInjective
    <3>4. IsFiniteSet(1 .. Len(ipRouteDBKeys)) /\ Cardinality(1 .. Len(ipRouteDBKeys)) = Len(ipRouteDBKeys)
      BY <3>1, FS_Interval
    <3> QED BY <3>3, <3>4, FS_Bijection DEF ExistsBijection
  <2> QED BY <2>4, <2>5
<1> QED BY <1>1, RouteDatabase, PTL

\* What the drained kernel has.
LEMMA KernelDrained ==
  ASSUME DbInv, LinuxInv
  PROVE  KernelAgrees
<1> SUFFICES ASSUME pc = "idle", linuxCh = <<>>, NEW p \in Prefix
             PROVE  kernelRoute[p] = nextHopMap[p] \ Connected
  BY DEF KernelAgrees, Idle
<1>1. Len(LinuxKeyOf) = 0
  BY LinuxSeq
<1>2. kernelRoute[p] \subseteq NextHop \ Connected /\ nextHopMap[p] \subseteq NextHop
  BY DEF LinuxInv, DbInv, DbType
<1>3. ASSUME NEW x \in NextHop \ Connected
      PROVE  x \in kernelRoute[p] <=> x \in nextHopMap[p]
  <2>1. Before(LinuxKeyOf, <<p, x>>, 0, 0 + 1)
    BY BeforeFirst
  <2>2. LinuxAfter(p, x, 0) <=> x \in Told(p)
    BY <1>1, <2>1 DEF LinuxInv
  <2> QED BY <2>2 DEF LinuxAfter, Told, Adding
<1> QED BY <1>2, <1>3

\* Once its queue is drained the kernel has, for every prefix, the next hops of
\* the database that are not connected routes (softSwitch.go, the route server).
THEOREM KernelFollowsDb ==
  ASSUME "linux" \in Plugins
  PROVE  Spec => []KernelAgrees
<1>1. Init => RInv /\ LinuxInv
  BY InitDb, InitKeys, InitLinux DEF RInv
<1>2. (RInv /\ LinuxInv) /\ [Next]_vars => (RInv /\ LinuxInv)'
  BY NextRInv, StutterRInv DEF LinuxStep
<1>3. RInv /\ LinuxInv => KernelAgrees
  BY KernelDrained DEF RInv
<1> QED BY <1>1, <1>2, <1>3, PTL DEF Spec
-----------------------------------------------------------------------------
(***************************************************************************)
(* What the route handler holds of the next hop manager, and what the ASIC *)
(* gets through its channel.  The theorems are about ordinary next hops    *)
(* (OrdinaryOnly): a connected or null next hop takes no reference of its  *)
(* own but gives one back when a second next hop joins it, and             *)
(* RouteCountsExact is then false (the runs with such next hops show what  *)
(* is left).                                                               *)
(***************************************************************************)
\* No prefix is connected or null.
OrdinaryOnly == Connected = {} /\ Null = {}

-----------------------------------------------------------------------------
(***************************************************************************)
(* What each prefix holds of the next hop manager.                         *)
(***************************************************************************)
\* The next hops it holds a reference on itself.
SingleNh(p) ==
  IF ~Mine(p) THEN IF p \in ipRouteDB /\ ecmpGrpId[p] = NoGroup THEN nextHopMap[p] ELSE {}
  ELSE CASE pc = "program" -> IF p \in ipRouteDB THEN {} ELSE {cur.nh}
         [] pc = "dropSingle" -> cur.nhs \ {cur.nh}
         [] Deleting -> IF ecmpGrpId[p] = NoGroup THEN {cur.nh} ELSE {}
         [] OTHER -> {}

\* The group it holds a reference on.
HeldGroup(p) == IF ~Mine(p) \/ Deleting THEN ecmpGrpId[p]
                ELSE IF Adding THEN cur.grp ELSE nextHopMap[p]

Singles(ip) == {p \in Prefix : ip \in SingleNh(p)}
Holders(g) == {p \in Prefix : HeldGroup(p) = g}

SingleCount == [ip \in NextHop |-> Cardinality(Singles(ip))]
HoldCount == [g \in Group |-> Cardinality(Holders(g))]

\* The tables of the next hop manager when s[ip] references on next hop ip and
\* h[g] on group g are held: a group may count more, a replaced one is kept.
Tables(s, h) ==
  /\ NHMgrTypeOK
  /\ hwNextHop = nextHopDB /\ hwGroup = ipNextHopGroupDB
  /\ \A ip \in NextHop : /\ refCount[ip] = s[ip] + Cardinality(Memberships(ip))
                         /\ ip \in nextHopDB <=> refCount[ip] > 0
  /\ \A g \in Group : /\ grpRefCount[g] >= h[g]
                      /\ g \in ipNextHopGroupDB <=> grpRefCount[g] > 0

NhInv == Tables(SingleCount, HoldCount)

\* What the handler read before the ASIC was asked is still so, and a group
\* that only the ASIC's route uses any more is kept until that has followed.
RefsInv ==
  /\ Deleting => cur.refs = References(cur.prefix, cur.nh)
  /\ Replacing /\ cur.refs = 1 => /\ grpRefCount[ecmpGrpId[cur.prefix]] = 1
                                  /\ Holders(ecmpGrpId[cur.prefix]) = {}
  /\ RouteGroupsKnown

-----------------------------------------------------------------------------
(***************************************************************************)
(* The ASIC's channel.                                                     *)
(***************************************************************************)
Message == [op : {"Add", "Del"}, prefix : Prefix, target : Target,
            update : BOOLEAN, done : BOOLEAN]
AsicKeyOf == [i \in DOMAIN asicCh |-> asicCh[i].prefix]
AsicAfter(p, i) == IF i = 0 THEN hwRoute[p] ELSE asicCh[i].target

\* What the ASIC was asked last for a prefix.
Asked(p) ==
  IF ~Mine(p) \/ Replacing THEN nextHopMap[p]
  ELSE IF Adding THEN nextHopMap[p] \ {cur.nh}
  ELSE IF nextHopMap[p] = {} THEN {} ELSE nextHopMap[p] \cup {cur.nh}

AskedTarget(p) ==
  IF Asked(p) = {} THEN NoRoute
  ELSE IF ecmpGrpId[p] = NoGroup THEN [kind |-> "nh", nhs |-> Asked(p)]
  ELSE GroupTarget(Asked(p))

Forwards(target) == target.kind \in {"nh", "group"}

\* What each prefix was asked to have last, as the channel shows it.
ChannelBase ==
  /\ asicCh \in Seq(Message)
  /\ hwRoute \in [Prefix -> Target]
  /\ \A p \in Prefix : Forwards(hwRoute[p]) \/ hwRoute[p] = NoRoute
  /\ \A j \in DOMAIN asicCh : IF asicCh[j].op = "Add" THEN Forwards(asicCh[j].target)
                              ELSE asicCh[j].target = NoRoute
  /\ \A p \in Prefix, i \in 0 .. Len(AsicKeyOf) :
       Before(AsicKeyOf, p, i, Len(AsicKeyOf) + 1) => AsicAfter(p, i) = AskedTarget(p)
  /\ \A p \in Prefix : \E i \in 0 .. Len(AsicKeyOf) : Before(AsicKeyOf, p, i, Len(AsicKeyOf) + 1)

\* The creates at the places js are marked as updates exactly when the prefix
\* has a route by then.
Marked(js) ==
  \A j \in js : \A i \in 0 .. j - 1 :
    Before(AsicKeyOf, AsicKeyOf[j], i, j) /\ asicCh[j].op = "Add" =>
      (asicCh[j].update <=> AsicAfter(AsicKeyOf[j], i) # NoRoute)

ChannelInv == ChannelBase /\ Marked(DOMAIN asicCh)

\* A wait is answered by the last message of the channel, when it is empty; a
\* handler that holds the last reference goes on only after that.
Waiting == pc \in {"waitDel", "waitUpd"}
DoneInv ==
  /\ doneChannel = IF Waiting /\ asicCh = <<>> THEN 1 ELSE 0
  /\ \A i \in DOMAIN asicCh : asicCh[i].done <=> Waiting /\ i = Len(asicCh)
  /\ pc = "release" /\ nextHopMap[cur.prefix] = {} /\ cur.refs <= 1 => asicCh = <<>>

AInv == DbInv /\ NhInv /\ RefsInv /\ ChannelInv /\ NoDanglingRoute /\ DoneInv

-----------------------------------------------------------------------------
LEMMA AsicSeq ==
  ASSUME ChannelBase
  PROVE  /\ Len(AsicKeyOf) = Len(asicCh) /\ Len(asicCh) \in Nat
         /\ DOMAIN asicCh = 1 .. Len(asicCh)
         /\ \A i \in 1 .. Len(asicCh) : AsicKeyOf[i] = asicCh[i].prefix /\ asicCh[i] \in Message
<1>1. asicCh \in Seq(Message)
  BY DEF ChannelBase
<1>2. Len(AsicKeyOf) = Len(asicCh)
  BY <1>1, LenProperties DEF AsicKeyOf
<1> QED BY <1>1, <1>2, LenProperties, ElementOfSeq DEF AsicKeyOf

LEMMA BaseSame ==
  ASSUME ChannelBase, NEW js, js \subseteq DOMAIN asicCh, Marked(js),
         UNCHANGED <<asicCh, hwRoute>>,
         \A q \in Prefix : AskedTarget(q)' = AskedTarget(q)
  PROVE  ChannelBase' /\ Marked(js)'
<1>1. AsicKeyOf' = AsicKeyOf
  BY DEF AsicKeyOf
<1>2. \A p \in Prefix, i \in Nat : AsicAfter(p, i)' = AsicAfter(p, i)
  BY DEF AsicAfter
<1>3. \A i \in 0 .. Len(AsicKeyOf) : i \in Nat
  OBVIOUS
<1>4. \A j \in js : AsicKeyOf[j] \in Prefix /\ \A i \in 0 .. j - 1 : i \in Nat
  BY AsicSeq DEF Message
<1>5. ChannelBase'
  BY <1>1, <1>2, <1>3 DEF ChannelBase
<1>6. Marked(js)'
  BY <1>1, <1>2, <1>4 DEF Marked
<1> QED BY <1>5, <1>6

LEMMA AsicSame ==
  ASSUME ChannelInv, UNCHANGED <<asicCh, hwRoute>>,
         \A q \in Prefix : AskedTarget(q)' = AskedTarget(q)
  PROVE  ChannelInv'
<1>1. PICK js : js = DOMAIN asicCh
  OBVIOUS
<1>2. ChannelBase' /\ Marked(js)'
  BY <1>1, BaseSame DEF ChannelInv
<1> QED BY <1>1, <1>2 DEF ChannelInv

\* The place of the last message about a key.
LEMMA BeforeNewest ==
  ASSUME NEW n \in Nat \ {0}, NEW ks, NEW k, ks[n] = k
  PROVE  Before(ks, k, n, n + 1)
BY DEF Before

LEMMA BeforeOlder ==
  ASSUME NEW n \in Nat \ {0}, NEW ks, NEW k, ks[n] # k, NEW i, Before(ks, k, i, n)
  PROVE  Before(ks, k, i, n + 1) /\ i \in 0 .. n
BY DEF Before

\* Message i of the longer channel is message i - 1 of the shorter one.
LEMMA BeforeUnshift ==
  ASSUME NEW n \in Nat, NEW ks, NEW ks2, \A h \in 1 .. n : ks2[h] = ks[h + 1],
         NEW j \in 1 .. n + 1, NEW k, NEW i, Before(ks, k, i, j + 1)
  PROVE  \E s \in 0 .. j - 1 : Before(ks2, k, s, j)
<1>1. i \in 0 .. j
  BY DEF Before
<1>2. PICK s : s = IF i <= 1 THEN 0 ELSE i - 1
  OBVIOUS
<1>3. s \in 0 .. j - 1
  BY <1>1, <1>2
<1>4. s > 0 => ks2[s] = k
  <2> SUFFICES ASSUME s > 0 PROVE ks2[s] = k
    OBVIOUS
  <2>1. s \in 1 .. n /\ s + 1 = i /\ i > 0
    BY <1>1, <1>2
  <2> QED BY <2>1 DEF Before
<1>5. ASSUME NEW h \in s + 1 .. j - 1
      PROVE  ks2[h] # k
  <2>1. h \in 1 .. n /\ h + 1 \in i + 1 .. (j + 1) - 1
    BY <1>1, <1>2
  <2> QED BY <2>1 DEF Before
<1> QED BY <1>3, <1>4, <1>5 DEF Before

\* A message for a prefix is queued; what it asks for is asked last then.
LEMMA BaseSent ==
  ASSUME ChannelBase, NEW js, js \subseteq DOMAIN asicCh, Marked(js),
         NEW n, n = Len(asicCh), NEW m \in Message, NEW p, p = m.prefix,
         ToAsic(m), UNCHANGED hwRoute,
         IF m.op = "Add" THEN Forwards(m.target) ELSE m.target = NoRoute,
         m.op = "Add" => (m.update <=> AskedTarget(p) # NoRoute),
         AskedTarget(p)' = m.target,
         \A q \in Prefix \ {p} : AskedTarget(q)' = AskedTarget(q)
  PROVE  ChannelBase' /\ Marked(js \cup {n + 1})' /\ DOMAIN asicCh' = DOMAIN asicCh \cup {n + 1}
<1>1. /\ asicCh \in Seq(Message) /\ n \in Nat /\ p \in Prefix
      /\ Len(AsicKeyOf) = n /\ DOMAIN asicCh = 1 .. n
      /\ \A i \in 1 .. n : AsicKeyOf[i] = asicCh[i].prefix /\ asicCh[i].prefix \in Prefix
  BY AsicSeq DEF ChannelBase, Message
<1>2. /\ asicCh' \in Seq(Message) /\ DOMAIN asicCh' = 1 .. n + 1
      /\ Len(asicCh') = n + 1
      /\ \A i \in 1 .. n : asicCh'[i] = asicCh[i]
      /\ asicCh'[n + 1] = m
  <2>1. asicCh' = Append(asicCh, m)
    BY DEF ToAsic
  <2> QED BY <1>1, <2>1, AppendProperties, LenProperties
<1>3. /\ Len(AsicKeyOf') = n + 1
      /\ \A i \in 1 .. n : AsicKeyOf'[i] = AsicKeyOf[i]
      /\ AsicKeyOf'[n + 1] = p
  <2>1. AsicKeyOf' = [i \in 1 .. n + 1 |-> asicCh'[i].prefix]
    BY <1>2 DEF AsicKeyOf
  <2>2. Len([i \in 1 .. n + 1 |-> asicCh'[i].prefix]) = n + 1
    BY <1>1
  <2>3. n + 1 \in 1 .. n + 1 /\ \A i \in 1 .. n : i \in 1 .. n + 1
    BY <1>1
  <2> QED BY <1>1, <1>2, <2>1, <2>2, <2>3
<1>4. \A q \in Prefix, i \in 0 .. n : AsicAfter(q, i)' = AsicAfter(q, i)
  BY <1>2 DEF AsicAfter
<1>5. \A q \in Prefix : AsicAfter(q, n + 1)' = m.target
  BY <1>1, <1>2 DEF AsicAfter
<1>6. n + 1 \in Nat \ {0} /\ n + 1 \in 1 .. n + 1
  BY <1>1
<1>7. ASSUME NEW q \in Prefix, NEW i \in 0 .. n + 1, Before(AsicKeyOf', q, i, (n + 1) + 1)
      PROVE  AsicAfter(q, i)' = AskedTarget(q)'
  <2>1. IF AsicKeyOf'[n + 1] = q THEN i = n + 1 ELSE Before(AsicKeyOf', q, i, n + 1)
    BY <1>6, <1>7, BeforeNext
  <2>2. CASE q = p
    BY <1>3, <1>5, <2>1, <2>2
  <2>3. CASE q # p
    <3>1. Before(AsicKeyOf, q, i, n + 1) /\ i \in 0 .. n
      BY <1>1, <1>3, <1>6, <2>1, <2>3, BeforeSame DEF Before
    <3>2. AsicAfter(q, i) = AskedTarget(q)
      BY <1>1, <3>1 DEF ChannelBase
    <3> QED BY <1>4, <2>3, <3>1, <3>2
  <2> QED BY <2>2, <2>3
<1>8. ASSUME NEW j \in js \cup {n + 1}, NEW k, k = AsicKeyOf'[j], NEW i \in 0 .. j - 1,
             Before(AsicKeyOf', k, i, j), asicCh'[j].op = "Add"
      PROVE  asicCh'[j].update <=> AsicAfter(k, i)' # NoRoute
  <2>0. j \in 1 .. n + 1 /\ k \in Prefix /\ i \in 0 .. n
    BY <1>1, <1>3, <1>8
  <2>1. Before(AsicKeyOf, k, i, j)
    <3>1. \A h \in 1 .. n : AsicKeyOf'[h] = AsicKeyOf[h]
      BY <1>3
    <3> QED BY <1>1, <1>8, <2>0, <3>1, BeforeSame
  <2>2. AsicAfter(k, i)' = AsicAfter(k, i)
    BY <1>4, <2>0
  <2>3. CASE j = n + 1
    <3>1. k = p
      BY <1>3, <1>8, <2>3
    <3>2. AsicAfter(p, i) = AskedTarget(p)
      BY <1>1, <2>0, <2>1, <2>3, <3>1 DEF ChannelBase
    <3> QED BY <1>2, <1>8, <2>2, <2>3, <3>1, <3>2
  <2>4. CASE j \in js
    <3>1. j \in 1 .. n /\ AsicKeyOf[j] = k /\ asicCh'[j] = asicCh[j]
      BY <1>1, <1>2, <1>3, <1>8, <2>4
    <3>2. asicCh[j].update <=> AsicAfter(k, i) # NoRoute
      BY <1>8, <2>1, <2>4, <3>1 DEF Marked
    <3> QED BY <2>2, <3>1, <3>2
  <2> QED BY <2>3, <2>4
<1>9. ASSUME NEW q \in Prefix
      PROVE  \E i \in 0 .. n + 1 : Before(AsicKeyOf', q, i, (n + 1) + 1)
  <2>1. CASE q = p
    <3>1. Before(AsicKeyOf', q, n + 1, (n + 1) + 1)
      BY <1>3, <1>6, <2>1, BeforeNewest
    <3> QED BY <1>1, <3>1
  <2>2. CASE q # p
    <3>1. PICK i \in 0 .. n : Before(AsicKeyOf, q, i, n + 1)
      BY <1>1 DEF ChannelBase
    <3>2. Before(AsicKeyOf', q, i, n + 1)
      <4>1. \A h \in 1 .. n : AsicKeyOf'[h] = AsicKeyOf[h]
        BY <1>3
      <4> QED BY <1>1, <1>6, <3>1, <4>1, BeforeSame
    <3>3. Before(AsicKeyOf', q, i, (n + 1) + 1) /\ i \in 0 .. n + 1
      BY <1>3, <1>6, <2>2, <3>2, BeforeOlder
    <3> QED BY <3>3
  <2> QED BY <2>1, <2>2
<1>10. \A j \in DOMAIN asicCh' : IF asicCh'[j].op = "Add" THEN Forwards(asicCh'[j].target)
                                 ELSE asicCh'[j].target = NoRoute
  <2>1. \A j \in 1 .. n + 1 : j \in 1 .. n \/ j = n + 1
    BY <1>1
  <2> QED BY <1>1, <1>2, <2>1 DEF ChannelBase
<1>11. hwRoute' \in [Prefix -> Target] /\ \A q \in Prefix : Forwards(hwRoute'[q]) \/ hwRoute'[q] = NoRoute
  BY DEF ChannelBase
<1>12. ChannelBase'
  BY <1>2, <1>3, <1>7, <1>9, <1>10, <1>11 DEF ChannelBase
<1>13. PICK js2 : js2 = js \cup {n + 1}
  OBVIOUS
<1>14. Marked(js2)'
  BY <1>8, <1>13 DEF Marked
<1>15. DOMAIN asicCh' = DOMAIN asicCh \cup {n + 1}
  BY <1>1, <1>2
<1> QED BY <1>12, <1>13, <1>14, <1>15

LEMMA AsicSent ==
  ASSUME ChannelInv, NEW m \in Message, NEW p, p = m.prefix,
         ToAsic(m), UNCHANGED hwRoute,
         IF m.op = "Add" THEN Forwards(m.target) ELSE m.target = NoRoute,
         m.op = "Add" => (m.update <=> AskedTarget(p) # NoRoute),
         AskedTarget(p)' = m.target,
         \A q \in Prefix \ {p} : AskedTarget(q)' = AskedTarget(q)
  PROVE  ChannelInv'
<1>1. PICK js, n : js = DOMAIN asicCh /\ n = Len(asicCh)
  OBVIOUS
<1>2. ChannelBase' /\ Marked(js \cup {n + 1})' /\ DOMAIN asicCh' = js \cup {n + 1}
  BY <1>1, BaseSent DEF ChannelInv
<1>3. PICK js2 : js2 = js \cup {n + 1}
  OBVIOUS
<1> QED BY <1>2, <1>3 DEF ChannelInv

\* The places of a channel and of what is left of it without its first message.
LEMMA Received ==
  ASSUME ChannelBase, AsicServer
  PROVE  \E n \in Nat :
           /\ Len(asicCh) = n + 1 /\ DOMAIN asicCh = 1 .. n + 1 /\ Head(asicCh) = asicCh[1]
           /\ Len(AsicKeyOf) = n + 1
           /\ \A i \in 1 .. n + 1 : AsicKeyOf[i] = asicCh[i].prefix /\ asicCh[i] \in Message
           /\ asicCh' \in Seq(Message) /\ Len(asicCh') = n /\ DOMAIN asicCh' = 1 .. n
           /\ Len(AsicKeyOf') = n
           /\ \A i \in 1 .. n : asicCh'[i] = asicCh[i + 1] /\ AsicKeyOf'[i] = AsicKeyOf[i + 1]
<1>1. asicCh \in Seq(Message) /\ asicCh # <<>> /\ asicCh' = Tail(asicCh)
  BY DEF ChannelBase, AsicServer
<1>2. PICK n : n \in Nat /\ n + 1 = Len(asicCh)
  <2>1. Len(asicCh) \in Nat \ {0}
    BY <1>1, EmptySeq, LenProperties
  <2>2. Len(asicCh) - 1 \in Nat /\ (Len(asicCh) - 1) + 1 = Len(asicCh)
    BY <2>1
  <2> QED BY <2>2
<1>3. /\ Len(AsicKeyOf) = n + 1 /\ DOMAIN asicCh = 1 .. n + 1
      /\ \A i \in 1 .. n + 1 : AsicKeyOf[i] = asicCh[i].prefix /\ asicCh[i] \in Message
  BY <1>2, AsicSeq
<1>4. /\ asicCh' \in Seq(Message) /\ DOMAIN asicCh' = 1 .. n /\ Len(asicCh') = n
      /\ \A i \in 1 .. n : asicCh'[i] = asicCh[i + 1]
      /\ Head(asicCh) = asicCh[1]
  BY <1>1, <1>2, HeadTailProperties, LenProperties
<1>5. Len(AsicKeyOf') = n /\ \A i \in 1 .. n : AsicKeyOf'[i] = AsicKeyOf[i + 1]
  <2>1. AsicKeyOf' = [i \in 1 .. n |-> asicCh'[i].prefix]
    BY <1>4 DEF AsicKeyOf
  <2>2. Len([i \in 1 .. n |-> asicCh'[i].prefix]) = n
    BY <1>2
  <2>3. \A i \in 1 .. n : i + 1 \in 1 .. n + 1
    BY <1>2
  <2> QED BY <1>3, <1>4, <2>1, <2>2, <2>3
<1> QED BY <1>2, <1>3, <1>4, <1>5

\* A create that is marked rightly takes effect when its objects exist.
LEMMA ServedTarget ==
  ASSUME ChannelBase, AsicServer, NEW m, m = asicCh[1], NEW js, Marked(js),
         m.op = "Add" => 1 \in js /\ Exists(m.target)
  PROVE  hwRoute' = [hwRoute EXCEPT ![m.prefix] = m.target]
<1>0. PICK n \in Nat : /\ DOMAIN asicCh = 1 .. n + 1 /\ Head(asicCh) = m
                       /\ \A i \in 1 .. n + 1 : AsicKeyOf[i] = asicCh[i].prefix /\ asicCh[i] \in Message
  BY Received
<1>1. PICK p : p = m.prefix
  OBVIOUS
<1>2. 1 \in 1 .. n + 1 /\ 0 \in 0 .. 1 - 1
  OBVIOUS
<1>3. p \in Prefix /\ AsicKeyOf[1] = p
  BY <1>0, <1>1, <1>2 DEF Message
<1>4. hwRoute' = [hwRoute EXCEPT ![p] = IF m.op = "Add" THEN RouteAfterAdd(m) ELSE NoRoute]
  BY <1>0, <1>1 DEF AsicServer
<1>5. m.op # "Add" => m.target = NoRoute
  BY <1>0, <1>2 DEF ChannelBase
<1>6. ASSUME m.op = "Add"
      PROVE  RouteAfterAdd(m) = m.target
  <2>1. Before(AsicKeyOf, p, 0, 1)
    BY BeforeFirst
  <2>2. m.update <=> AsicAfter(p, 0) # NoRoute
    BY <1>2, <1>3, <1>6, <2>1 DEF Marked
  <2>3. m.update <=> hwRoute[p] # NoRoute
    BY <2>2 DEF AsicAfter
  <2>4. Forwards(hwRoute[p]) \/ hwRoute[p] = NoRoute
    BY <1>3 DEF ChannelBase
  <2>5. hwRoute[p].kind # "drop"
    BY <2>4 DEF Forwards, NoRoute
  <2> QED BY <1>1, <1>6, <2>3, <2>5 DEF RouteAfterAdd
<1> QED BY <1>1, <1>4, <1>5, <1>6

\* Another message about p is queued behind the first, and before each of the
\* creates at the places js.
Overtaken(p, js) ==
  /\ \E d \in 2 .. Len(asicCh) : AsicKeyOf[d] = p
  /\ \A j \in js : j > 1 /\ asicCh[j].op = "Add" /\ AsicKeyOf[j] = p =>
       \E d \in 2 .. j - 1 : AsicKeyOf[d] = p

\* The first message is received and takes effect, or it does not count.
LEMMA BaseServe ==
  ASSUME ChannelBase, AsicServer, NEW n \in Nat, Len(asicCh) = n + 1,
         NEW m, m = asicCh[1], NEW p, p = m.prefix,
         NEW js, js \subseteq DOMAIN asicCh, Marked(js),
         NEW t, hwRoute' = [hwRoute EXCEPT ![p] = t], t \in Target,
         Forwards(t) \/ t = NoRoute, t = m.target \/ Overtaken(p, js)
  PROVE  ChannelBase' /\ Marked({j \in 1 .. n : j + 1 \in js})'
<1>1. /\ DOMAIN asicCh = 1 .. n + 1 /\ Head(asicCh) = m
      /\ Len(AsicKeyOf) = n + 1
      /\ \A i \in 1 .. n + 1 : AsicKeyOf[i] = asicCh[i].prefix /\ asicCh[i] \in Message
      /\ asicCh' \in Seq(Message) /\ Len(asicCh') = n /\ DOMAIN asicCh' = 1 .. n
      /\ Len(AsicKeyOf') = n
      /\ \A i \in 1 .. n : asicCh'[i] = asicCh[i + 1] /\ AsicKeyOf'[i] = AsicKeyOf[i + 1]
  BY Received
<1>2. 1 \in 1 .. n + 1 /\ 0 \in 0 .. 1 - 1 /\ \A i \in 1 .. n : i + 1 \in 1 .. n + 1
  OBVIOUS
<1>3. m \in Message /\ p \in Prefix /\ AsicKeyOf[1] = p /\ m.target \in Target
  BY <1>1, <1>2 DEF Message
<1>4. t # m.target => Overtaken(p, js)
  OBVIOUS
<1>5. /\ hwRoute' \in [Prefix -> Target] /\ hwRoute'[p] = t
      /\ \A q \in Prefix \ {p} : hwRoute'[q] = hwRoute[q]
      /\ \A q \in Prefix : Forwards(hwRoute'[q]) \/ hwRoute'[q] = NoRoute
  <2>1. hwRoute \in [Prefix -> Target] /\ \A q \in Prefix : Forwards(hwRoute[q]) \/ hwRoute[q] = NoRoute
    BY DEF ChannelBase
  <2>2. hwRoute'[p] = t /\ \A q \in Prefix \ {p} : hwRoute'[q] = hwRoute[q]
    BY <1>3, <2>1
  <2>3. hwRoute' \in [Prefix -> Target]
    BY <2>1
  <2> QED BY <2>1, <2>2, <2>3
<1>6. ASSUME NEW q \in Prefix, NEW i \in 0 .. n, t = m.target \/ q # p \/ i # 0
      PROVE  AsicAfter(q, i)' = AsicAfter(q, Shifted(AsicKeyOf, q, i))
  <2>1. CASE i = 0
    BY <1>3, <1>5, <1>6, <2>1 DEF AsicAfter, Shifted
  <2>2. CASE i # 0
    <3>1. i \in 1 .. n /\ i > 0 /\ i + 1 # 0
      BY <2>2
    <3>2. Shifted(AsicKeyOf, q, i) = i + 1
      BY <3>1 DEF Shifted
    <3> QED BY <1>1, <3>1, <3>2 DEF AsicAfter
  <2> QED BY <2>1, <2>2
<1>7. \A h \in 1 .. n : AsicKeyOf'[h] = AsicKeyOf[h + 1]
  BY <1>1
<1>8. ASSUME NEW q \in Prefix, NEW j \in 1 .. n + 1, NEW i \in 0 .. j - 1, Before(AsicKeyOf', q, i, j)
      PROVE  /\ Before(AsicKeyOf, q, Shifted(AsicKeyOf, q, i), j + 1)
             /\ Shifted(AsicKeyOf, q, i) \in 0 .. j /\ i \in 0 .. n
             /\ q = p /\ i = 0 => \A d \in 2 .. j : AsicKeyOf[d] # p
  <2>1. i \in 0 .. n
    OBVIOUS
  <2>2. Before(AsicKeyOf, q, Shifted(AsicKeyOf, q, i), j + 1) /\ Shifted(AsicKeyOf, q, i) \in 0 .. j
    BY <1>7, <1>8, BeforeShift
  <2>3. ASSUME q = p, i = 0, NEW d \in 2 .. j
        PROVE  AsicKeyOf[d] # p
    <3>1. d - 1 \in 1 .. n /\ d - 1 \in i + 1 .. j - 1 /\ (d - 1) + 1 = d
      BY <2>3
    <3>2. AsicKeyOf'[d - 1] # p
      BY <1>8, <2>3, <3>1 DEF Before
    <3> QED BY <1>7, <3>1, <3>2
  <2> QED BY <2>1, <2>2, <2>3
<1>9. \A q \in Prefix : AskedTarget(q)' = AskedTarget(q)
  BY DEF AsicServer, dbVars, AskedTarget, Asked, Mine, Adding, Replacing
<1>10. ASSUME NEW q \in Prefix, NEW i \in 0 .. n, Before(AsicKeyOf', q, i, n + 1)
       PROVE  AsicAfter(q, i)' = AskedTarget(q)'
  <2>1. n + 1 \in 1 .. n + 1 /\ i \in 0 .. (n + 1) - 1
    OBVIOUS
  <2>2. PICK s : s = Shifted(AsicKeyOf, q, i)
    OBVIOUS
  <2>3. /\ Before(AsicKeyOf, q, s, (n + 1) + 1) /\ s \in 0 .. n + 1
        /\ q = p /\ i = 0 => \A d \in 2 .. n + 1 : AsicKeyOf[d] # p
    BY <1>8, <1>10, <2>1, <2>2
  <2>4. AsicAfter(q, s) = AskedTarget(q)
    BY <1>1, <2>3 DEF ChannelBase
  <2>5. t = m.target \/ q # p \/ i # 0
    BY <1>4, <2>3 DEF Overtaken
  <2> QED BY <1>6, <1>9, <2>2, <2>4, <2>5
<1>11. ASSUME NEW q \in Prefix
       PROVE  \E i \in 0 .. n : Before(AsicKeyOf', q, i, n + 1)
  <2>1. PICK i \in 0 .. n + 1 : Before(AsicKeyOf, q, i, (n + 1) + 1)
    BY <1>1 DEF ChannelBase
  <2>2. n + 1 \in 1 .. n + 1
    OBVIOUS
  <2>3. \E s \in 0 .. (n + 1) - 1 : Before(AsicKeyOf', q, s, n + 1)
    BY <1>7, <2>1, <2>2, BeforeUnshift
  <2> QED BY <2>3
<1>12. ASSUME NEW j \in 1 .. n, NEW x \in js, x = j + 1, NEW k, k = AsicKeyOf'[j],
              NEW i \in 0 .. j - 1, Before(AsicKeyOf', k, i, j), asicCh'[j].op = "Add"
       PROVE  asicCh'[j].update <=> AsicAfter(k, i)' # NoRoute
  <2>1. j \in 1 .. n + 1 /\ x \in 1 .. n + 1 /\ x - 1 = j /\ x > 1
    BY <1>12
  <2>2. asicCh'[j] = asicCh[x] /\ AsicKeyOf'[j] = AsicKeyOf[x]
    BY <1>1, <1>12
  <2>3. k = AsicKeyOf[x] /\ k \in Prefix /\ asicCh[x].op = "Add"
    BY <1>1, <1>12, <2>1, <2>2 DEF Message
  <2>4. PICK s : s = Shifted(AsicKeyOf, k, i)
    OBVIOUS
  <2>5. /\ Before(AsicKeyOf, k, s, x) /\ s \in 0 .. x - 1 /\ i \in 0 .. n
        /\ k = p /\ i = 0 => \A d \in 2 .. x - 1 : AsicKeyOf[d] # p
    BY <1>8, <1>12, <2>1, <2>3, <2>4
  <2>6. asicCh[x].update <=> AsicAfter(k, s) # NoRoute
    BY <2>3, <2>5 DEF Marked
  <2>7. t = m.target \/ k # p \/ i # 0
    <3>1. t = m.target \/ k # p \/ \E d \in 2 .. x - 1 : AsicKeyOf[d] = p
      BY <1>4, <2>1, <2>3 DEF Overtaken
    <3> QED BY <2>5, <3>1
  <2> QED BY <1>6, <2>2, <2>3, <2>4, <2>5, <2>6, <2>7
<1>13. \A j \in DOMAIN asicCh' : IF asicCh'[j].op = "Add" THEN Forwards(asicCh'[j].target)
                                 ELSE asicCh'[j].target = NoRoute
  BY <1>1, <1>2 DEF ChannelBase
<1>14. ChannelBase'
  BY <1>1, <1>5, <1>10, <1>11, <1>13 DEF ChannelBase
<1>15. PICK ks : ks = {j \in 1 .. n : j + 1 \in js}
  OBVIOUS
<1>16. Marked(ks)'
  <2>1. \A j \in ks : j \in 1 .. n /\ j + 1 \in js
    BY <1>1, <1>15
  <2> QED BY <1>12, <2>1 DEF Marked
<1>17. Marked({j \in 1 .. n : j + 1 \in js})'
  BY <1>15, <1>16 DEF Marked
<1> QED BY <1>14, <1>17

\* What the route server does with a message when its objects exist: the prefix
\* gets the target it was asked to have.
LEMMA AsicServe ==
  ASSUME ChannelInv, NoDanglingRoute, AsicServer
  PROVE  /\ ChannelInv' /\ NoDanglingRoute'
         /\ Head(asicCh) \in Message
         /\ hwRoute' = [hwRoute EXCEPT ![Head(asicCh).prefix] = Head(asicCh).target]
<1>1. PICK n \in Nat :
        /\ Len(asicCh) = n + 1 /\ DOMAIN asicCh = 1 .. n + 1 /\ Head(asicCh) = asicCh[1]
        /\ \A i \in 1 .. n + 1 : asicCh[i] \in Message
        /\ DOMAIN asicCh' = 1 .. n /\ \A i \in 1 .. n : asicCh'[i] = asicCh[i + 1]
  BY Received DEF ChannelInv
<1>2. 1 \in 1 .. n + 1 /\ \A i \in 1 .. n : i + 1 \in 1 .. n + 1
  OBVIOUS
<1>3. PICK m, p, js : m = asicCh[1] /\ p = m.prefix /\ js = DOMAIN asicCh
  OBVIOUS
<1>4. /\ m \in Message /\ p \in Prefix /\ m.target \in Target /\ Exists(m.target)
      /\ Forwards(m.target) \/ m.target = NoRoute
  BY <1>1, <1>2, <1>3 DEF Message, NoDanglingRoute, ChannelInv, ChannelBase
<1>5. hwRoute' = [hwRoute EXCEPT ![p] = m.target]
  BY <1>1, <1>2, <1>3, <1>4, ServedTarget DEF ChannelInv
<1>6. hwRoute'[p] = m.target /\ \A q \in Prefix \ {p} : hwRoute'[q] = hwRoute[q]
  BY <1>4, <1>5 DEF ChannelInv, ChannelBase
<1>7. ChannelBase' /\ Marked({j \in 1 .. n : j + 1 \in js})'
  BY <1>1, <1>3, <1>4, <1>5, BaseServe DEF ChannelInv
<1>8. {j \in 1 .. n : j + 1 \in js} = DOMAIN asicCh'
  BY <1>1, <1>2, <1>3
<1>9. NoDanglingRoute'
  <2>1. UNCHANGED <<hwNextHop, hwGroup>>
    BY DEF AsicServer, nhMgrVars
  <2>2. \A t : Exists(t)' <=> Exists(t)
    BY <2>1 DEF Exists
  <2>3. \A i \in 1 .. n : Exists(asicCh'[i].target)
    BY <1>1, <1>2 DEF NoDanglingRoute
  <2>4. \A q \in Prefix : Exists(hwRoute'[q])
    BY <1>4, <1>6 DEF NoDanglingRoute
  <2> QED BY <1>1, <2>2, <2>3, <2>4 DEF NoDanglingRoute
<1>10. PICK ks : ks = {j \in 1 .. n : j + 1 \in js}
  OBVIOUS
<1>11. ChannelInv'
  BY <1>7, <1>8, <1>10 DEF ChannelInv
<1> QED BY <1>1, <1>3, <1>4, <1>5, <1>9, <1>11

-----------------------------------------------------------------------------
(***************************************************************************)
(* What the handler's steps ask of the ASIC.                               *)
(***************************************************************************)
\* Steps that queue nothing ask for nothing else.
LEMMA QuietAsked ==
  ASSUME DbInv, NEW q \in Prefix,
         \/ TakeAddFirst \/ TakeAddSecond \/ TakeAddMore \/ DropSingle \/ WaitDel
         \/ ReleaseLast \/ WaitUpd
         \/ TakeDel /\ nextHopMap'[Head(routeOpChannel).prefix] # {}
  PROVE  AskedTarget(q)' = AskedTarget(q)
<1> DEFINE op == Head(routeOpChannel)
<1>0. PICK p, n, members : /\ p = op.prefix /\ n = op.nh
                           /\ members = nextHopMap[p] \cup {n}
  OBVIOUS
<1>t. nextHopMap \in [Prefix -> SUBSET NextHop] /\ ecmpGrpId \in [Prefix -> SUBSET NextHop]
  BY DEF DbInv, DbType
<1>1. CASE TakeAddFirst
  <2>1. pc = "idle" /\ p \in Prefix /\ \A x \in Prefix : Settled(x) /\ ~Mine(x)
    BY <1>0, <1>1, TakenOp DEF TakeAddFirst, Operations
  <2>2. /\ p \notin ipRouteDB /\ cur'.prefix = p /\ cur'.nh = n /\ pc' = "program"
        /\ UNCHANGED <<nextHopMap, ecmpGrpId>>
    BY <1>0, <1>1 DEF TakeAddFirst, dbVars
  <2>3. nextHopMap[p] = {}
    BY <2>1, <2>2 DEF Settled
  <2>4. Asked(q)' = Asked(q)
    <3>1. CASE q = p
      BY <2>1, <2>2, <2>3, <3>1 DEF Asked, Mine, Adding, Replacing
    <3>2. CASE q # p
      BY <2>1, <2>2, <3>2 DEF Asked, Mine
    <3> QED BY <3>1, <3>2
  <2> QED BY <2>2, <2>4 DEF AskedTarget
<1>2. CASE TakeAddSecond \/ TakeAddMore
  <2>1. pc = "idle" /\ p \in Prefix
    BY <1>0, <1>2, TakenOp DEF TakeAddSecond, TakeAddMore, Operations
  <2>2. /\ n \notin nextHopMap[p] /\ cur'.prefix = p /\ cur'.nh = n
        /\ pc' \in {"program", "dropSingle"}
        /\ nextHopMap' = [nextHopMap EXCEPT ![p] = members] /\ UNCHANGED ecmpGrpId
    <3>1. CASE TakeAddSecond
      BY <1>0, <3>1 DEF TakeAddSecond
    <3>2. CASE TakeAddMore
      BY <1>0, <3>2 DEF TakeAddMore
    <3> QED BY <1>2, <3>1, <3>2
  <2>3. /\ nextHopMap'[p] = members /\ members \ {n} = nextHopMap[p]
        /\ \A x \in Prefix \ {p} : nextHopMap'[x] = nextHopMap[x]
    BY <1>0, <1>t, <2>1, <2>2
  <2>4. Asked(q)' = Asked(q)
    <3>1. CASE q = p
      BY <2>1, <2>2, <2>3, <3>1 DEF Asked, Mine, Adding, Replacing
    <3>2. CASE q # p
      BY <2>1, <2>2, <2>3, <3>2 DEF Asked, Mine
    <3> QED BY <3>1, <3>2
  <2> QED BY <2>2, <2>4 DEF AskedTarget
<1>3. CASE DropSingle
  BY <1>3 DEF DropSingle, dbVars, AskedTarget, Asked, Mine, Adding, Replacing
<1>4. CASE WaitDel
  BY <1>4 DEF WaitDel, dbVars, AskedTarget, Asked, Mine, Adding, Replacing
<1>5. CASE ReleaseLast
  <2>1. /\ pc = "release" /\ pc' = "idle" /\ nextHopMap[cur.prefix] = {} /\ UNCHANGED nextHopMap
        /\ ecmpGrpId' = [ecmpGrpId EXCEPT ![cur.prefix] = NoGroup]
    BY <1>5 DEF ReleaseLast
  <2>2. Asked(q)' = Asked(q) /\ (q = cur.prefix => Asked(q) = {})
    BY <2>1 DEF Asked, Mine, Adding, Replacing
  <2>3. q # cur.prefix => ecmpGrpId'[q] = ecmpGrpId[q]
    BY <1>t, <2>1
  <2> QED BY <2>2, <2>3 DEF AskedTarget
<1>6. CASE WaitUpd
  <2>1. /\ pc = "waitUpd" /\ pc' = "idle" /\ UNCHANGED nextHopMap
        /\ ecmpGrpId' = [ecmpGrpId EXCEPT ![cur.prefix] = nextHopMap[cur.prefix]]
    BY <1>6 DEF WaitUpd
  <2>2. Asked(q)' = Asked(q) /\ (q = cur.prefix => Asked(q) = nextHopMap[q])
    BY <2>1 DEF Asked, Mine, Adding, Replacing
  <2>3. ecmpGrpId'[q] = IF q = cur.prefix THEN nextHopMap[q] ELSE ecmpGrpId[q]
    BY <1>t, <2>1
  <2>4. q = cur.prefix => ecmpGrpId[q] # NoGroup /\ nextHopMap[q] # NoGroup
    BY <2>1 DEF DbInv, JobInv, Replacing, NoGroup
  <2> QED BY <2>2, <2>3, <2>4 DEF AskedTarget
<1>7. CASE TakeDel /\ nextHopMap'[op.prefix] # {}
  <2>1. pc = "idle" /\ p \in Prefix
    BY <1>0, <1>7, TakenOp DEF TakeDel, Operations
  <2>2. /\ n \in nextHopMap[p] /\ cur'.prefix = p /\ cur'.nh = n
        /\ pc' \in {"waitDel", "release"}
        /\ nextHopMap' = [nextHopMap EXCEPT ![p] = nextHopMap[p] \ {n}] /\ UNCHANGED ecmpGrpId
    BY <1>0, <1>7 DEF TakeDel, Knows
  <2>3. /\ nextHopMap'[p] \cup {n} = nextHopMap[p] /\ nextHopMap'[p] # {}
        /\ \A x \in Prefix \ {p} : nextHopMap'[x] = nextHopMap[x]
    BY <1>0, <1>7, <1>t, <2>1, <2>2
  <2>4. Asked(q)' = Asked(q)
    BY <2>1, <2>2, <2>3 DEF Asked, Mine, Adding, Replacing
  <2> QED BY <2>2, <2>4 DEF AskedTarget
<1> QED BY <1>1, <1>2, <1>3, <1>4, <1>5, <1>6, <1>7

LEMMA ProgramAsked ==
  ASSUME OrdinaryOnly, DbInv, Program, NEW p, p = cur.prefix, NEW n, n = cur.nh
  PROVE  /\ p \in Prefix /\ n \in NextHop
         /\ Asked(p) \subseteq NextHop /\ n \notin Asked(p) /\ cur.nhs = Asked(p) \cup {n}
         /\ cur.target.nhs = cur.nhs /\ cur.target \in Target
         /\ Forwards(cur.target)
         /\ AskedTarget(p) # NoRoute <=> p \in ipRouteDB
         /\ AskedTarget(p)' = cur.target
         /\ \A q \in Prefix \ {p} : AskedTarget(q)' = AskedTarget(q)
<1>1. /\ pc = "program" /\ pc' = "idle"
      /\ nextHopMap' = [nextHopMap EXCEPT ![p] = cur.nhs]
      /\ ecmpGrpId' = [ecmpGrpId EXCEPT ![p] = cur.grp]
  BY DEF Program
<1>2. p \in Prefix /\ n \in NextHop /\ cur.nhs \subseteq NextHop /\ cur.grp \subseteq NextHop
  BY <1>1 DEF DbInv, DbType, Adding
<1>3. Adds(p)
  BY <1>1 DEF DbInv, JobInv, Adding
<1>4. /\ nextHopMap'[p] = cur.nhs /\ ecmpGrpId'[p] = cur.grp
      /\ \A q \in Prefix \ {p} : nextHopMap'[q] = nextHopMap[q] /\ ecmpGrpId'[q] = ecmpGrpId[q]
  BY <1>1, <1>2 DEF DbInv, DbType
<1>5. /\ cur.nhs # {} /\ n \in cur.nhs
      /\ cur.target = IF cur.grp = NoGroup THEN [kind |-> "nh", nhs |-> cur.nhs]
                      ELSE GroupTarget(cur.nhs)
  <2>1. CASE p \in ipRouteDB
    BY <1>3, <2>1 DEF Adds, NoGroup
  <2>2. CASE p \notin ipRouteDB
    BY <1>3, <2>2 DEF Adds, SingleTarget, OrdinaryOnly
  <2> QED BY <2>1, <2>2
<1>6. Asked(p) = nextHopMap[p] \ {n} /\ Asked(p) = cur.nhs \ {n}
  <2>1. Asked(p) = nextHopMap[p] \ {n}
    BY <1>1 DEF Asked, Mine, Adding, Replacing
  <2>2. p \notin ipRouteDB => nextHopMap[p] = {} /\ cur.nhs = {n}
    BY <1>3 DEF Adds
  <2>3. p \in ipRouteDB => nextHopMap[p] = cur.nhs
    BY <1>3 DEF Adds
  <2> QED BY <2>1, <2>2, <2>3
<1>7. Asked(p) # {} <=> p \in ipRouteDB
  <2>1. p \in ipRouteDB => cur.nhs \ {n} # {}
    BY <1>3 DEF Adds, Serves
  <2>2. p \notin ipRouteDB => cur.nhs = {n}
    BY <1>3 DEF Adds
  <2> QED BY <1>6, <2>1, <2>2
<1>8. AskedTarget(p) # NoRoute <=> p \in ipRouteDB
  BY <1>7 DEF AskedTarget, NoRoute, GroupTarget
<1>9. AskedTarget(p)' = cur.target
  <2>1. Asked(p)' = cur.nhs
    BY <1>1, <1>4 DEF Asked, Mine
  <2> QED BY <1>4, <1>5, <2>1 DEF AskedTarget
<1>10. ASSUME NEW q \in Prefix \ {p}
       PROVE  AskedTarget(q)' = AskedTarget(q)
  <2>1. Asked(q)' = Asked(q)
    BY <1>1, <1>4 DEF Asked, Mine
  <2> QED BY <1>4, <2>1 DEF AskedTarget
<1>11. cur.target.nhs = cur.nhs /\ cur.target \in Target /\ Forwards(cur.target)
  BY <1>2, <1>5 DEF Forwards, Target, GroupTarget
<1> QED BY <1>2, <1>5, <1>6, <1>8, <1>9, <1>10, <1>11

\* The last next hop of a prefix is taken off: its route is deleted.
LEMMA TakeDelAsked ==
  ASSUME DbInv, TakeDel, NEW p, p = Head(routeOpChannel).prefix,
         NEW n, n = Head(routeOpChannel).nh, nextHopMap'[p] = {}
  PROVE  /\ p \in Prefix /\ n \in NextHop /\ Asked(p) = {n}
         /\ AskedTarget(p)' = NoRoute
         /\ \A q \in Prefix \ {p} : AskedTarget(q)' = AskedTarget(q)
<1>1. pc = "idle" /\ p \in Prefix /\ n \in NextHop
  BY TakenOp DEF TakeDel, Operations
<1>2. /\ n \in nextHopMap[p] /\ cur'.prefix = p /\ cur'.nh = n /\ pc' \in {"waitDel", "release"}
      /\ nextHopMap' = [nextHopMap EXCEPT ![p] = nextHopMap[p] \ {n}] /\ UNCHANGED ecmpGrpId
  BY DEF TakeDel, Knows
<1>3. /\ nextHopMap[p] = {n} /\ \A x \in Prefix \ {p} : nextHopMap'[x] = nextHopMap[x]
  BY <1>1, <1>2 DEF DbInv, DbType
<1>4. Asked(p) = {n} /\ Asked(p)' = {}
  BY <1>1, <1>2, <1>3 DEF Asked, Mine, Adding, Replacing
<1>5. \A q \in Prefix \ {p} : Asked(q)' = Asked(q)
  BY <1>1, <1>2, <1>3 DEF Asked, Mine
<1> QED BY <1>1, <1>2, <1>4, <1>5 DEF AskedTarget

LEMMA ReplaceGroupAsked ==
  ASSUME DbInv, ReplaceGroup, NEW p, p = cur.prefix, NEW n, n = cur.nh
  PROVE  /\ p \in Prefix /\ n \in NextHop
         /\ nextHopMap[p] # {} /\ nextHopMap[p] \subseteq NextHop /\ ecmpGrpId[p] # NoGroup
         /\ n \notin nextHopMap[p] /\ ecmpGrpId[p] = nextHopMap[p] \cup {n}
         /\ Asked(p) = nextHopMap[p] \cup {n}
         /\ AskedTarget(p) # NoRoute
         /\ AskedTarget(p)' = GroupTarget(nextHopMap[p])
         /\ \A q \in Prefix \ {p} : AskedTarget(q)' = AskedTarget(q)
<1>1. /\ pc = "release" /\ pc' = "waitUpd" /\ nextHopMap[p] # {}
      /\ UNCHANGED <<ipRouteDB, nextHopMap, ecmpGrpId, cur>>
  BY DEF ReplaceGroup, dbVars
<1>2. p \in Prefix /\ n \in NextHop /\ nextHopMap[p] \subseteq NextHop
  BY <1>1 DEF DbInv, DbType
<1>3. Removes(p)
  BY <1>1 DEF DbInv, JobInv, Deleting
<1>4. n \notin nextHopMap[p] /\ ecmpGrpId[p] = nextHopMap[p] \cup {n}
  BY <1>1, <1>3 DEF Removes, Serves
<1>5. Asked(p) = nextHopMap[p] \cup {n} /\ Asked(p)' = nextHopMap[p]
  BY <1>1 DEF Asked, Mine, Adding, Replacing
<1>6. \A q \in Prefix \ {p} : Asked(q)' = Asked(q)
  BY <1>1 DEF Asked, Mine
<1>7. ecmpGrpId[p] # NoGroup
  BY <1>1, <1>4 DEF NoGroup
<1>8. AskedTarget(p) # NoRoute /\ AskedTarget(p)' = GroupTarget(nextHopMap[p])
  BY <1>1, <1>5, <1>7 DEF AskedTarget, NoRoute, GroupTarget
<1> QED BY <1>1, <1>2, <1>4, <1>5, <1>6, <1>7, <1>8 DEF AskedTarget

-----------------------------------------------------------------------------
(***************************************************************************)
(* The tables of the next hop manager under each of its operations.        *)
(***************************************************************************)
LEMMA MembershipsFinite ==
  ASSUME NHMgrTypeOK, NEW ip \in NextHop
  PROVE  /\ IsFiniteSet(Memberships(ip)) /\ Cardinality(Memberships(ip)) \in Nat
         /\ Cardinality(Memberships(ip)) = 0 => \A g \in ipNextHopGroupDB : ip \notin g
<1>1. IsFiniteSet(SUBSET NextHop)
  BY NextHopAssumption, FS_SUBSET
<1>2. IsFiniteSet(Memberships(ip))
  BY <1>1, FS_Subset DEF Memberships, NHMgrTypeOK, Group
<1>3. Cardinality(Memberships(ip)) \in Nat
  BY <1>2, FS_CardinalityType
<1>4. Cardinality(Memberships(ip)) = 0 => Memberships(ip) = {}
  BY <1>2, FS_EmptySet
<1> QED BY <1>2, <1>3, <1>4 DEF Memberships

LEMMA MembershipsMore ==
  ASSUME NHMgrTypeOK, NEW g \in Group, g \notin ipNextHopGroupDB,
         ipNextHopGroupDB' = ipNextHopGroupDB \cup {g}, NEW ip \in NextHop
  PROVE  Cardinality(Memberships(ip)') = Cardinality(Memberships(ip)) + (IF ip \in g THEN 1 ELSE 0)
<1>1. CASE ip \in g
  <2>1. Memberships(ip)' = Memberships(ip) \cup {g} /\ g \notin Memberships(ip)
    BY <1>1 DEF Memberships
  <2> QED BY <1>1, <2>1, MembershipsFinite, FS_AddElement
<1>2. CASE ip \notin g
  <2>1. Memberships(ip)' = Memberships(ip)
    BY <1>2 DEF Memberships
  <2> QED BY <1>2, <2>1, MembershipsFinite
<1> QED BY <1>1, <1>2

LEMMA MembershipsLess ==
  ASSUME NHMgrTypeOK, NEW g \in Group, g \in ipNextHopGroupDB,
         ipNextHopGroupDB' = ipNextHopGroupDB \ {g}, NEW ip \in NextHop
  PROVE  Cardinality(Memberships(ip)') = Cardinality(Memberships(ip)) - (IF ip \in g THEN 1 ELSE 0)
<1>1. CASE ip \in g
  <2>1. Memberships(ip)' = Memberships(ip) \ {g} /\ g \in Memberships(ip)
    BY <1>1 DEF Memberships
  <2> QED BY <1>1, <2>1, MembershipsFinite, FS_RemoveElement
<1>2. CASE ip \notin g
  <2>1. Memberships(ip)' = Memberships(ip)
    BY <1>2 DEF Memberships
  <2> QED BY <1>2, <2>1, MembershipsFinite
<1> QED BY <1>1, <1>2

\* How many references are held on each next hop and on each group.
Counts(s, h) == s \in [NextHop -> Nat] /\ h \in [Group -> Nat]

LEMMA TablesNat ==
  ASSUME NEW s, NEW h, Counts(s, h), Tables(s, h)
  PROVE  /\ \A ip \in NextHop : /\ refCount[ip] \in Nat /\ refCount[ip] >= s[ip]
                                /\ ip \notin nextHopDB => refCount[ip] = 0
         /\ \A g \in Group : /\ grpRefCount[g] \in Nat
                             /\ g \notin ipNextHopGroupDB => grpRefCount[g] = 0
<1>1. ASSUME NEW ip \in NextHop
      PROVE  /\ refCount[ip] \in Nat /\ refCount[ip] >= s[ip]
             /\ ip \notin nextHopDB => refCount[ip] = 0
  <2>1. Cardinality(Memberships(ip)) \in Nat /\ s[ip] \in Nat
    BY MembershipsFinite DEF Tables, Counts
  <2>2. refCount[ip] = s[ip] + Cardinality(Memberships(ip)) /\ (ip \in nextHopDB <=> refCount[ip] > 0)
    BY DEF Tables
  <2> QED BY <2>1, <2>2
<1>2. ASSUME NEW g \in Group
      PROVE  grpRefCount[g] \in Nat /\ (g \notin ipNextHopGroupDB => grpRefCount[g] = 0)
  <2>1. h[g] \in Nat /\ grpRefCount[g] \in Int
    BY DEF Tables, Counts, NHMgrTypeOK
  <2>2. grpRefCount[g] >= h[g] /\ (g \in ipNextHopGroupDB <=> grpRefCount[g] > 0)
    BY DEF Tables
  <2> QED BY <2>1, <2>2
<1> QED BY <1>1, <1>2

LEMMA TablesSame ==
  ASSUME NEW s, NEW h, Tables(s, h), UNCHANGED nhMgrVars
  PROVE  Tables(s, h)'
BY DEF Tables, nhMgrVars, NHMgrTypeOK, Memberships

LEMMA CreateNextHopTables ==
  ASSUME NEW s, NEW h, Counts(s, h), Tables(s, h), NEW ip \in NextHop,
         CreateNextHop(ip, "RT_NBR_CREATE"),
         NEW s2, Counts(s2, h), s2[ip] = s[ip] + 1, \A x \in NextHop \ {ip} : s2[x] = s[x]
  PROVE  Tables(s2, h)'
<1>1. /\ NHMgrTypeOK /\ hwNextHop = nextHopDB /\ hwGroup = ipNextHopGroupDB
      /\ \A x \in NextHop : /\ refCount[x] \in Nat /\ s[x] \in Nat
                            /\ refCount[x] = s[x] + Cardinality(Memberships(x))
                            /\ Cardinality(Memberships(x)) \in Nat
                            /\ x \in nextHopDB <=> refCount[x] > 0
  BY TablesNat, MembershipsFinite DEF Tables, Counts
<1>2. /\ nextHopDB' = nextHopDB \cup {ip} /\ hwNextHop' = nextHopDB'
      /\ refCount' = [refCount EXCEPT ![ip] = IF ip \in nextHopDB THEN @ + 1 ELSE 1]
      /\ UNCHANGED <<ipNextHopGroupDB, grpRefCount, hwGroup>>
  BY <1>1 DEF CreateNextHop, ReferencesTaken
<1>3. /\ refCount' \in [NextHop -> Int]
      /\ refCount'[ip] = refCount[ip] + 1 /\ \A x \in NextHop \ {ip} : refCount'[x] = refCount[x]
  BY <1>1, <1>2 DEF NHMgrTypeOK
<1>4. NHMgrTypeOK'
  BY <1>1, <1>2, <1>3 DEF NHMgrTypeOK
<1>5. \A x \in NextHop : Memberships(x)' = Memberships(x)
  BY <1>2 DEF Memberships
<1>6. \A x \in NextHop : /\ refCount'[x] = s2[x] + Cardinality(Memberships(x)')
                         /\ x \in nextHopDB' <=> refCount'[x] > 0
  BY <1>1, <1>2, <1>3, <1>5
<1>7. \A g \in Group : grpRefCount'[g] >= h[g] /\ (g \in ipNextHopGroupDB' <=> grpRefCount'[g] > 0)
  BY <1>2 DEF Tables
<1> QED BY <1>1, <1>2, <1>4, <1>6, <1>7 DEF Tables

\* A reference is given back; with the last one the next hop goes.
LEMMA DeleteNextHopTables ==
  ASSUME NEW s, NEW h, Counts(s, h), Tables(s, h), NEW ip \in NextHop, NEW busy,
         DeleteNextHop(ip, busy), refCount[ip] = 1 => ip \notin busy,
         NEW s2, Counts(s2, h), s[ip] = s2[ip] + 1, \A x \in NextHop \ {ip} : s2[x] = s[x]
  PROVE  /\ Tables(s2, h)' /\ UNCHANGED <<ipNextHopGroupDB, hwGroup, grpRefCount>>
         /\ refCount[ip] # 1 => UNCHANGED <<nextHopDB, hwNextHop>>
<1>1. /\ NHMgrTypeOK /\ hwNextHop = nextHopDB /\ hwGroup = ipNextHopGroupDB
      /\ \A x \in NextHop : /\ refCount[x] \in Nat /\ s[x] \in Nat /\ s2[x] \in Nat
                            /\ refCount[x] = s[x] + Cardinality(Memberships(x))
                            /\ Cardinality(Memberships(x)) \in Nat
                            /\ x \in nextHopDB <=> refCount[x] > 0
  BY TablesNat, MembershipsFinite DEF Tables, Counts
<1>2. refCount[ip] >= 1 /\ ip \in nextHopDB
  BY <1>1
<1>3. refCount[ip] = 1 => DropsNextHop(ip, hwGroup, busy)
  <2>1. refCount[ip] = 1 => Cardinality(Memberships(ip)) = 0
    BY <1>1
  <2>2. refCount[ip] = 1 => \A g \in hwGroup : ip \notin g
    BY <1>1, <2>1, MembershipsFinite
  <2> QED BY <1>2, <2>2 DEF DropsNextHop, NextHopInUse
<1>4. /\ nextHopDB' = IF refCount[ip] = 1 THEN nextHopDB \ {ip} ELSE nextHopDB
      /\ hwNextHop' = nextHopDB'
      /\ refCount' = [refCount EXCEPT ![ip] = @ - 1]
      /\ UNCHANGED <<ipNextHopGroupDB, grpRefCount, hwGroup>>
  BY <1>1, <1>2, <1>3 DEF DeleteNextHop, DropsNextHop
<1>5. /\ refCount' \in [NextHop -> Int]
      /\ refCount'[ip] = refCount[ip] - 1 /\ \A x \in NextHop \ {ip} : refCount'[x] = refCount[x]
  BY <1>1, <1>4 DEF NHMgrTypeOK
<1>6. NHMgrTypeOK'
  BY <1>1, <1>4, <1>5 DEF NHMgrTypeOK
<1>7. \A x \in NextHop : Memberships(x)' = Memberships(x)
  BY <1>4 DEF Memberships
<1>8. \A x \in NextHop : /\ refCount'[x] = s2[x] + Cardinality(Memberships(x)')
                         /\ x \in nextHopDB' <=> refCount'[x] > 0
  BY <1>1, <1>2, <1>4, <1>5, <1>7
<1>9. \A g \in Group : grpRefCount'[g] >= h[g] /\ (g \in ipNextHopGroupDB' <=> grpRefCount'[g] > 0)
  BY <1>4 DEF Tables
<1> QED BY <1>1, <1>4, <1>6, <1>8, <1>9 DEF Tables

\* A new group takes a reference on each of its members.
LEMMA TakeMembersTables ==
  ASSUME NEW s, NEW h, Counts(s, h), Tables(s, h), NEW g \in Group,
         g \notin ipNextHopGroupDB, TakeMembers(g),
         ipNextHopGroupDB' = ipNextHopGroupDB \cup {g}, hwGroup' = hwGroup \cup {g},
         grpRefCount' \in [Group -> Int]
  PROVE  /\ NHMgrTypeOK' /\ hwNextHop' = nextHopDB' /\ hwGroup' = ipNextHopGroupDB'
         /\ nextHopDB \subseteq nextHopDB'
         /\ \A ip \in NextHop : /\ refCount'[ip] = s[ip] + Cardinality(Memberships(ip)')
                                /\ ip \in nextHopDB' <=> refCount'[ip] > 0
<1>1. /\ NHMgrTypeOK /\ hwNextHop = nextHopDB /\ hwGroup = ipNextHopGroupDB
      /\ \A x \in NextHop : /\ refCount[x] \in Nat /\ s[x] \in Nat
                            /\ refCount[x] = s[x] + Cardinality(Memberships(x))
                            /\ Cardinality(Memberships(x)) \in Nat
                            /\ x \in nextHopDB <=> refCount[x] > 0
  BY TablesNat, MembershipsFinite DEF Tables, Counts
<1>2. /\ nextHopDB' = nextHopDB \cup g /\ hwNextHop' = hwNextHop \cup (g \ nextHopDB)
      /\ refCount' = [ip \in NextHop |-> IF ip \notin g THEN refCount[ip]
                                         ELSE IF ip \in nextHopDB THEN refCount[ip] + 1 ELSE 1]
  BY DEF TakeMembers
<1>3. \A ip \in NextHop : refCount'[ip] = refCount[ip] + (IF ip \in g THEN 1 ELSE 0)
  BY <1>1, <1>2
<1>4. NHMgrTypeOK'
  <2>1. refCount' \in [NextHop -> Int]
    BY <1>1, <1>2
  <2>2. g \subseteq NextHop
    BY DEF Group
  <2> QED BY <1>1, <1>2, <2>1, <2>2 DEF NHMgrTypeOK
<1>5. \A ip \in NextHop : Cardinality(Memberships(ip)') = Cardinality(Memberships(ip)) + (IF ip \in g THEN 1 ELSE 0)
  BY <1>1, MembershipsMore
<1> QED BY <1>1, <1>2, <1>3, <1>4, <1>5

LEMMA CreateGroupTables ==
  ASSUME NEW s, NEW h, Counts(s, h), Tables(s, h), NEW g \in Group, CreateNextHopGroup(g),
         NEW h2, Counts(s, h2), h2[g] = h[g] + 1, \A x \in Group \ {g} : h2[x] = h[x]
  PROVE  /\ Tables(s, h2)'
         /\ nextHopDB \subseteq nextHopDB' /\ ipNextHopGroupDB \subseteq ipNextHopGroupDB'
<1>1. /\ NHMgrTypeOK /\ hwNextHop = nextHopDB /\ hwGroup = ipNextHopGroupDB
      /\ \A x \in Group : /\ grpRefCount[x] \in Nat /\ h[x] \in Nat /\ grpRefCount[x] >= h[x]
                          /\ x \in ipNextHopGroupDB <=> grpRefCount[x] > 0
                          /\ x \notin ipNextHopGroupDB => grpRefCount[x] = 0
  BY TablesNat DEF Tables, Counts
<1>2. CASE ShareGroup(g)
  <2>1. /\ g \in ipNextHopGroupDB /\ grpRefCount' = [grpRefCount EXCEPT ![g] = @ + 1]
        /\ UNCHANGED <<nextHopDB, refCount, ipNextHopGroupDB, hwNextHop, hwGroup>>
    BY <1>2 DEF ShareGroup
  <2>2. /\ grpRefCount' \in [Group -> Int] /\ grpRefCount'[g] = grpRefCount[g] + 1
        /\ \A x \in Group \ {g} : grpRefCount'[x] = grpRefCount[x]
    BY <1>1, <2>1 DEF NHMgrTypeOK
  <2>3. NHMgrTypeOK'
    BY <1>1, <2>1, <2>2 DEF NHMgrTypeOK
  <2>4. \A x \in Group : grpRefCount'[x] >= h2[x] /\ (x \in ipNextHopGroupDB' <=> grpRefCount'[x] > 0)
    BY <1>1, <2>1, <2>2
  <2>5. \A ip \in NextHop : /\ refCount'[ip] = s[ip] + Cardinality(Memberships(ip)')
                            /\ ip \in nextHopDB' <=> refCount'[ip] > 0
    BY <2>1 DEF Tables, Memberships
  <2> QED BY <1>1, <2>1, <2>3, <2>4, <2>5 DEF Tables
<1>3. CASE NewGroup(g)
  <2>1. /\ g \notin ipNextHopGroupDB /\ TakeMembers(g)
        /\ ipNextHopGroupDB' = ipNextHopGroupDB \cup {g} /\ hwGroup' = hwGroup \cup {g}
        /\ grpRefCount' = [grpRefCount EXCEPT ![g] = 1]
    BY <1>3 DEF NewGroup
  <2>2. /\ grpRefCount' \in [Group -> Int] /\ grpRefCount'[g] = 1
        /\ \A x \in Group \ {g} : grpRefCount'[x] = grpRefCount[x]
    BY <1>1, <2>1 DEF NHMgrTypeOK
  <2>3. /\ NHMgrTypeOK' /\ hwNextHop' = nextHopDB' /\ hwGroup' = ipNextHopGroupDB'
        /\ nextHopDB \subseteq nextHopDB'
        /\ \A ip \in NextHop : /\ refCount'[ip] = s[ip] + Cardinality(Memberships(ip)')
                               /\ ip \in nextHopDB' <=> refCount'[ip] > 0
    BY <2>1, <2>2, TakeMembersTables
  <2>4. \A x \in Group : grpRefCount'[x] >= h2[x] /\ (x \in ipNextHopGroupDB' <=> grpRefCount'[x] > 0)
    BY <1>1, <2>1, <2>2
  <2> QED BY <2>1, <2>3, <2>4 DEF Tables
<1> QED BY <1>2, <1>3 DEF CreateNextHopGroup

\* A holder moves from one group to another; the old one is never dropped.
LEMMA UpdateGroupTables ==
  ASSUME NEW s, NEW h, Counts(s, h), Tables(s, h), NEW g \in Group, NEW new \in Group, g # new,
         UpdateNextHopGroup(g, new),
         NEW h2, Counts(s, h2), h[g] = h2[g] + 1, h2[new] = h[new] + 1,
         \A x \in Group \ {g, new} : h2[x] = h[x]
  PROVE  /\ Tables(s, h2)'
         /\ nextHopDB \subseteq nextHopDB' /\ ipNextHopGroupDB \subseteq ipNextHopGroupDB'
         /\ grpRefCount[g] = 1 => grpRefCount'[g] = 1
<1>1. /\ NHMgrTypeOK /\ hwNextHop = nextHopDB /\ hwGroup = ipNextHopGroupDB
      /\ \A x \in Group : /\ grpRefCount[x] \in Nat /\ h[x] \in Nat /\ h2[x] \in Nat
                          /\ grpRefCount[x] >= h[x]
                          /\ x \in ipNextHopGroupDB <=> grpRefCount[x] > 0
                          /\ x \notin ipNextHopGroupDB => grpRefCount[x] = 0
  BY TablesNat DEF Tables, Counts
<1>2. PICK kept : kept = IF grpRefCount[g] > 1 THEN [grpRefCount EXCEPT ![g] = @ - 1] ELSE grpRefCount
  OBVIOUS
<1>3. /\ kept \in [Group -> Int] /\ kept[g] = IF grpRefCount[g] > 1 THEN grpRefCount[g] - 1 ELSE grpRefCount[g]
      /\ \A x \in Group \ {g} : kept[x] = grpRefCount[x]
  BY <1>1, <1>2 DEF NHMgrTypeOK
<1>4. kept[g] > 0 /\ kept[g] >= h2[g] /\ g \in ipNextHopGroupDB
  BY <1>1, <1>3
<1>5. CASE new \in ipNextHopGroupDB
  <2>1. /\ grpRefCount' = [kept EXCEPT ![new] = @ + 1]
        /\ UNCHANGED <<nextHopDB, refCount, ipNextHopGroupDB, hwNextHop, hwGroup>>
    BY <1>2, <1>5 DEF UpdateNextHopGroup
  <2>2. /\ grpRefCount' \in [Group -> Int] /\ grpRefCount'[new] = grpRefCount[new] + 1
        /\ grpRefCount'[g] = kept[g]
        /\ \A x \in Group \ {g, new} : grpRefCount'[x] = grpRefCount[x]
    BY <1>3, <2>1
  <2>3. NHMgrTypeOK'
    BY <1>1, <2>1, <2>2 DEF NHMgrTypeOK
  <2>4. \A x \in Group : grpRefCount'[x] >= h2[x] /\ (x \in ipNextHopGroupDB' <=> grpRefCount'[x] > 0)
    BY <1>1, <1>4, <1>5, <2>1, <2>2
  <2>5. \A ip \in NextHop : /\ refCount'[ip] = s[ip] + Cardinality(Memberships(ip)')
                            /\ ip \in nextHopDB' <=> refCount'[ip] > 0
    BY <2>1 DEF Tables, Memberships
  <2> QED BY <1>1, <1>3, <2>1, <2>2, <2>3, <2>4, <2>5 DEF Tables
<1>6. CASE new \notin ipNextHopGroupDB
  <2>1. /\ TakeMembers(new)
        /\ ipNextHopGroupDB' = ipNextHopGroupDB \cup {new} /\ hwGroup' = hwGroup \cup {new}
        /\ grpRefCount' = [kept EXCEPT ![new] = 1]
    BY <1>2, <1>6 DEF UpdateNextHopGroup
  <2>2. /\ grpRefCount' \in [Group -> Int] /\ grpRefCount'[new] = 1
        /\ grpRefCount'[g] = kept[g]
        /\ \A x \in Group \ {g, new} : grpRefCount'[x] = grpRefCount[x]
    BY <1>3, <2>1
  <2>3. /\ NHMgrTypeOK' /\ hwNextHop' = nextHopDB' /\ hwGroup' = ipNextHopGroupDB'
        /\ nextHopDB \subseteq nextHopDB'
        /\ \A ip \in NextHop : /\ refCount'[ip] = s[ip] + Cardinality(Memberships(ip)')
                               /\ ip \in nextHopDB' <=> refCount'[ip] > 0
    BY <1>6, <2>1, <2>2, TakeMembersTables
  <2>4. \A x \in Group : grpRefCount'[x] >= h2[x] /\ (x \in ipNextHopGroupDB' <=> grpRefCount'[x] > 0)
    BY <1>1, <1>4, <1>6, <2>1, <2>2
  <2> QED BY <1>3, <2>1, <2>2, <2>3, <2>4 DEF Tables
<1> QED BY <1>5, <1>6

\* A reference on a group is given back; with the last one the group goes, and
\* with it the members nobody else refers to.
LEMMA DeleteGroupTables ==
  ASSUME NEW s, NEW h, Counts(s, h), Tables(s, h), NEW g \in Group, NEW busy, NEW busyGroups,
         DeleteNextHopGroup(g, busy, busyGroups),
         grpRefCount[g] >= 1,
         grpRefCount[g] = 1 => g \notin busyGroups /\ \A ip \in g : s[ip] = 0 => ip \notin busy,
         NEW h2, Counts(s, h2), h2[g] <= grpRefCount[g] - 1, \A x \in Group \ {g} : h2[x] = h[x]
  PROVE  /\ Tables(s, h2)'
         /\ grpRefCount[g] # 1 => UNCHANGED <<nextHopDB, hwNextHop, ipNextHopGroupDB, hwGroup>>
<1>1. /\ NHMgrTypeOK /\ hwNextHop = nextHopDB /\ hwGroup = ipNextHopGroupDB
      /\ \A x \in Group : /\ grpRefCount[x] \in Nat /\ h[x] \in Nat /\ h2[x] \in Nat
                          /\ grpRefCount[x] >= h[x]
                          /\ x \in ipNextHopGroupDB <=> grpRefCount[x] > 0
  BY TablesNat DEF Tables, Counts
<1>2. \A x \in NextHop : /\ refCount[x] \in Nat /\ s[x] \in Nat
                         /\ refCount[x] = s[x] + Cardinality(Memberships(x))
                         /\ Cardinality(Memberships(x)) \in Nat
                         /\ x \in nextHopDB <=> refCount[x] > 0
  BY <1>1, TablesNat, MembershipsFinite DEF Tables, Counts
<1>3. g \in ipNextHopGroupDB /\ g \subseteq NextHop
  BY <1>1 DEF Group
<1>4. CASE grpRefCount[g] # 1
  <2>1. /\ grpRefCount' = [grpRefCount EXCEPT ![g] = @ - 1]
        /\ UNCHANGED <<nextHopDB, refCount, ipNextHopGroupDB, hwNextHop, hwGroup>>
    BY <1>3, <1>4 DEF DeleteNextHopGroup
  <2>2. /\ grpRefCount' \in [Group -> Int] /\ grpRefCount'[g] = grpRefCount[g] - 1
        /\ \A x \in Group \ {g} : grpRefCount'[x] = grpRefCount[x]
    BY <1>1, <2>1 DEF NHMgrTypeOK
  <2>3. NHMgrTypeOK'
    BY <1>1, <2>1, <2>2 DEF NHMgrTypeOK
  <2>4. \A x \in Group : grpRefCount'[x] >= h2[x] /\ (x \in ipNextHopGroupDB' <=> grpRefCount'[x] > 0)
    BY <1>1, <1>4, <2>1, <2>2
  <2>5. \A ip \in NextHop : /\ refCount'[ip] = s[ip] + Cardinality(Memberships(ip)')
                            /\ ip \in nextHopDB' <=> refCount'[ip] > 0
    BY <2>1 DEF Tables, Memberships
  <2> QED BY <1>1, <1>4, <2>1, <2>3, <2>4, <2>5 DEF Tables
<1>5. CASE grpRefCount[g] = 1
  <2>1. /\ ReleaseMembers(g, busy)
        /\ ipNextHopGroupDB' = ipNextHopGroupDB \ {g} /\ hwGroup' = hwGroup \ {g}
        /\ grpRefCount' = [grpRefCount EXCEPT ![g] = 0]
    BY <1>3, <1>5 DEF DeleteNextHopGroup
  <2>2. PICK gone : gone = {ip \in g : DropsNextHop(ip, hwGroup \ {g}, busy)}
    OBVIOUS
  <2>3. \A ip \in NextHop : Cardinality(Memberships(ip)') = Cardinality(Memberships(ip)) - (IF ip \in g THEN 1 ELSE 0)
    BY <1>1, <1>3, <2>1, MembershipsLess
  <2>4. ASSUME NEW ip \in g
        PROVE  ip \in NextHop /\ refCount[ip] >= 1 /\ ip \in nextHopDB /\ (ip \in gone <=> refCount[ip] = 1)
    <3>1. ip \in NextHop
      BY <1>3
    <3>2. Cardinality(Memberships(ip)) # 0
      BY <1>1, <1>3, <3>1, MembershipsFinite
    <3>3. refCount[ip] >= 1 /\ ip \in nextHopDB
      BY <1>2, <3>1, <3>2
    <3>4. ASSUME refCount[ip] = 1
          PROVE  DropsNextHop(ip, hwGroup \ {g}, busy)
      <4>1. s[ip] = 0 /\ Cardinality(Memberships(ip)) = 1
        BY <1>2, <3>1, <3>2, <3>4
      <4>2. Cardinality(Memberships(ip) \ {g}) = 0 /\ IsFiniteSet(Memberships(ip) \ {g})
        <5>1. g \in Memberships(ip)
          BY <1>3 DEF Memberships
        <5> QED BY <1>1, <3>1, <4>1, <5>1, MembershipsFinite, FS_RemoveElement
      <4>3. Memberships(ip) \ {g} = {}
        BY <4>2, FS_EmptySet
      <4>4. \A x \in hwGroup \ {g} : ip \notin x
        BY <1>1, <4>3 DEF Memberships
      <4>5. ip \notin busy
        BY <1>5, <4>1
      <4> QED BY <3>3, <3>4, <4>4, <4>5 DEF DropsNextHop, NextHopInUse
    <3>5. ip \in gone => refCount[ip] = 1
      BY <2>2 DEF DropsNextHop
    <3> QED BY <2>2, <3>1, <3>3, <3>4, <3>5
  <2>5. /\ nextHopDB' = nextHopDB \ gone /\ hwNextHop' = nextHopDB'
        /\ refCount' = [ip \in NextHop |-> IF ip \in g \cap nextHopDB THEN refCount[ip] - 1 ELSE refCount[ip]]
    BY <1>1, <2>1, <2>2 DEF ReleaseMembers
  <2>6. /\ refCount' \in [NextHop -> Int]
        /\ \A ip \in NextHop : refCount'[ip] = refCount[ip] - (IF ip \in g THEN 1 ELSE 0)
    BY <1>2, <2>4, <2>5
  <2>7. \A ip \in NextHop : /\ refCount'[ip] = s[ip] + Cardinality(Memberships(ip)')
                            /\ ip \in nextHopDB' <=> refCount'[ip] > 0
    <3> TAKE ip \in NextHop
    <3>1. CASE ip \in g
      BY <1>2, <2>3, <2>4, <2>5, <2>6, <3>1
    <3>2. CASE ip \notin g
      <4>1. ip \notin gone
        BY <2>2, <3>2
      <4> QED BY <1>2, <2>3, <2>5, <2>6, <3>2, <4>1
    <3> QED BY <3>1, <3>2
  <2>8. /\ grpRefCount' \in [Group -> Int] /\ grpRefCount'[g] = 0
        /\ \A x \in Group \ {g} : grpRefCount'[x] = grpRefCount[x]
    BY <1>1, <2>1 DEF NHMgrTypeOK
  <2>9. \A x \in Group : grpRefCount'[x] >= h2[x] /\ (x \in ipNextHopGroupDB' <=> grpRefCount'[x] > 0)
    BY <1>1, <1>5, <2>1, <2>8
  <2>10. NHMgrTypeOK'
    BY <1>1, <2>1, <2>5, <2>6, <2>8 DEF NHMgrTypeOK
  <2> QED BY <1>1, <1>5, <2>1, <2>5, <2>7, <2>9, <2>10 DEF Tables
<1> QED BY <1>4, <1>5

-----------------------------------------------------------------------------
(***************************************************************************)
(* Counting what the prefixes hold.                                        *)
(***************************************************************************)
LEMMA HoldingsFinite ==
  /\ \A ip : IsFiniteSet(Singles(ip)) /\ Cardinality(Singles(ip)) \in Nat
  /\ \A g : IsFiniteSet(Holders(g)) /\ Cardinality(Holders(g)) \in Nat
BY PrefixAssumption, FS_Subset, FS_CardinalityType DEF Singles, Holders

LEMMA HoldingsCounts == Counts(SingleCount, HoldCount)
BY HoldingsFinite DEF Counts, SingleCount, HoldCount

\* The counts of the next state.
LEMMA HoldingsNext ==
  /\ Counts(SingleCount', HoldCount')
  /\ \A ip \in NextHop : SingleCount'[ip] = Cardinality(Singles(ip)')
  /\ \A g \in Group : HoldCount'[g] = Cardinality(Holders(g)')
<1>1. /\ \A ip : Singles(ip)' \subseteq Prefix
      /\ \A g : Holders(g)' \subseteq Prefix
  BY DEF Singles, Holders
<1>2. /\ \A ip : Cardinality(Singles(ip)') \in Nat
      /\ \A g : Cardinality(Holders(g)') \in Nat
  BY <1>1, PrefixAssumption, FS_Subset, FS_CardinalityType
<1> QED BY <1>2 DEF Counts, SingleCount, HoldCount

LEMMA NhNext ==
  ASSUME NEW s, NEW h, s = SingleCount', h = HoldCount', Tables(s, h)'
  PROVE  NhInv'
BY DEF NhInv, Tables

LEMMA SinglesSame ==
  ASSUME \A q \in Prefix : SingleNh(q)' = SingleNh(q)
  PROVE  SingleCount' = SingleCount
<1>1. \A ip : Singles(ip)' = Singles(ip)
  BY DEF Singles
<1> QED BY <1>1 DEF SingleCount

LEMMA HoldersSame ==
  ASSUME \A q \in Prefix : HeldGroup(q)' = HeldGroup(q)
  PROVE  HoldCount' = HoldCount
<1>1. \A g : Holders(g)' = Holders(g)
  BY DEF Holders
<1> QED BY <1>1 DEF HoldCount

LEMMA SinglesMore ==
  ASSUME NEW p \in Prefix, NEW n \in NextHop, n \notin SingleNh(p),
         SingleNh(p)' = SingleNh(p) \cup {n},
         \A q \in Prefix \ {p} : SingleNh(q)' = SingleNh(q)
  PROVE  /\ SingleCount'[n] = SingleCount[n] + 1
         /\ \A x \in NextHop \ {n} : SingleCount'[x] = SingleCount[x]
<1>1. Singles(n)' = Singles(n) \cup {p} /\ p \notin Singles(n)
  BY DEF Singles
<1>2. \A x \in NextHop \ {n} : Singles(x)' = Singles(x)
  BY DEF Singles
<1>3. Cardinality(Singles(n)') = Cardinality(Singles(n)) + 1
  BY <1>1, HoldingsFinite, FS_AddElement
<1> QED BY <1>2, <1>3, HoldingsNext DEF SingleCount

LEMMA SinglesLess ==
  ASSUME NEW p \in Prefix, NEW n \in NextHop, n \in SingleNh(p),
         SingleNh(p)' = SingleNh(p) \ {n},
         \A q \in Prefix \ {p} : SingleNh(q)' = SingleNh(q)
  PROVE  /\ SingleCount[n] = SingleCount'[n] + 1
         /\ \A x \in NextHop \ {n} : SingleCount'[x] = SingleCount[x]
<1>1. Singles(n)' = Singles(n) \ {p} /\ p \in Singles(n)
  BY DEF Singles
<1>2. \A x \in NextHop \ {n} : Singles(x)' = Singles(x)
  BY DEF Singles
<1>3. Cardinality(Singles(n)') = Cardinality(Singles(n)) - 1
  BY <1>1, HoldingsFinite, FS_RemoveElement
<1>4. Cardinality(Singles(n)) \in Nat
  BY HoldingsFinite
<1> QED BY <1>2, <1>3, <1>4, HoldingsNext DEF SingleCount

\* A prefix that held group g holds group g2; either may be no group.
LEMMA HoldersMove ==
  ASSUME NEW p \in Prefix, NEW g, NEW g2, g # g2, HeldGroup(p) = g, HeldGroup(p)' = g2,
         \A q \in Prefix \ {p} : HeldGroup(q)' = HeldGroup(q)
  PROVE  /\ g \in Group => HoldCount[g] = HoldCount'[g] + 1
         /\ g2 \in Group => HoldCount'[g2] = HoldCount[g2] + 1
         /\ Holders(g)' = Holders(g) \ {p}
         /\ \A x \in Group \ {g, g2} : HoldCount'[x] = HoldCount[x]
<1>1. Holders(g)' = Holders(g) \ {p} /\ p \in Holders(g)
  BY DEF Holders
<1>2. Holders(g2)' = Holders(g2) \cup {p} /\ p \notin Holders(g2)
  BY DEF Holders
<1>3. \A x \in Group \ {g, g2} : Holders(x)' = Holders(x)
  BY DEF Holders
<1>4. Cardinality(Holders(g)') = Cardinality(Holders(g)) - 1
  BY <1>1, HoldingsFinite, FS_RemoveElement
<1>5. Cardinality(Holders(g2)') = Cardinality(Holders(g2)) + 1
  BY <1>2, HoldingsFinite, FS_AddElement
<1>6. Cardinality(Holders(g)) \in Nat /\ Cardinality(Holders(g2)) \in Nat
  BY HoldingsFinite
<1>7. \A x \in Group : HoldCount[x] = Cardinality(Holders(x)) /\ HoldCount'[x] = Cardinality(Holders(x)')
  BY HoldingsNext DEF HoldCount
<1>8. g \in Group => HoldCount[g] = HoldCount'[g] + 1
  BY <1>4, <1>6, <1>7
<1>9. g2 \in Group => HoldCount'[g2] = HoldCount[g2] + 1
  BY <1>5, <1>6, <1>7
<1>10. \A x \in Group \ {g, g2} : HoldCount'[x] = HoldCount[x]
  BY <1>3, <1>7
<1> QED BY <1>1, <1>8, <1>9, <1>10

\* The only holder.
LEMMA OnlySingle ==
  ASSUME NEW ip \in NextHop, SingleCount[ip] = 1, NEW p \in Singles(ip)
  PROVE  Singles(ip) = {p}
<1>1. Cardinality(Singles(ip)) = 1 /\ IsFiniteSet(Singles(ip))
  BY HoldingsFinite DEF SingleCount
<1>2. Cardinality(Singles(ip) \ {p}) = 0 /\ IsFiniteSet(Singles(ip) \ {p})
  BY <1>1, FS_RemoveElement
<1>3. Singles(ip) \ {p} = {}
  BY <1>2, FS_EmptySet
<1> QED BY <1>3

LEMMA OnlyHolder ==
  ASSUME NEW g \in Group, HoldCount[g] <= 1, NEW p \in Holders(g)
  PROVE  Holders(g) = {p}
<1>1. Cardinality(Holders(g)) <= 1 /\ IsFiniteSet(Holders(g))
  BY HoldingsFinite DEF HoldCount
<1>2. /\ Cardinality(Holders(g) \ {p}) = Cardinality(Holders(g)) - 1
      /\ IsFiniteSet(Holders(g) \ {p}) /\ Cardinality(Holders(g) \ {p}) \in Nat
  BY <1>1, FS_RemoveElement, FS_CardinalityType
<1>3. Cardinality(Holders(g) \ {p}) = 0
  BY <1>1, <1>2, HoldingsFinite
<1>4. Holders(g) \ {p} = {}
  BY <1>2, <1>3, FS_EmptySet
<1> QED BY <1>4

\* What a prefix holds exists.
LEMMA HeldExists ==
  DbInv /\ NhInv =>
    \A q \in Prefix :
      /\ SingleNh(q) \subseteq nextHopDB
      /\ \A ip \in SingleNh(q) : SingleCount[ip] >= 1 /\ refCount[ip] >= 1
      /\ HeldGroup(q) # NoGroup => /\ HeldGroup(q) \in Group /\ HeldGroup(q) \in ipNextHopGroupDB
                                   /\ HoldCount[HeldGroup(q)] >= 1
<1> SUFFICES ASSUME DbInv, NhInv, NEW q \in Prefix
             PROVE  /\ \A ip \in SingleNh(q) : /\ ip \in nextHopDB
                                               /\ SingleCount[ip] >= 1 /\ refCount[ip] >= 1
                    /\ HeldGroup(q) # NoGroup => /\ HeldGroup(q) \in Group /\ HeldGroup(q) \in ipNextHopGroupDB
                                                 /\ HoldCount[HeldGroup(q)] >= 1
  OBVIOUS
<1>1. SingleNh(q) \subseteq NextHop /\ HeldGroup(q) \subseteq NextHop
  BY DEF DbInv, DbType, SingleNh, HeldGroup, Mine, Adding, Deleting
<1>2. ASSUME NEW ip \in SingleNh(q)
      PROVE  ip \in nextHopDB /\ SingleCount[ip] >= 1 /\ refCount[ip] >= 1
  <2>1. ip \in NextHop /\ q \in Singles(ip)
    BY <1>1, <1>2 DEF Singles
  <2>2. Cardinality(Singles(ip)) # 0
    BY <2>1, HoldingsFinite, FS_EmptySet
  <2>3. SingleCount[ip] >= 1 /\ SingleCount[ip] \in Nat
    BY <2>1, <2>2, HoldingsFinite DEF SingleCount
  <2>4. refCount[ip] \in Nat /\ refCount[ip] >= SingleCount[ip] /\ (ip \in nextHopDB <=> refCount[ip] > 0)
    BY <2>1, HoldingsCounts, TablesNat DEF NhInv, Tables
  <2> QED BY <2>3, <2>4
<1>3. ASSUME HeldGroup(q) # NoGroup
      PROVE  /\ HeldGroup(q) \in Group /\ HeldGroup(q) \in ipNextHopGroupDB
             /\ HoldCount[HeldGroup(q)] >= 1
  <2>1. PICK g : g = HeldGroup(q)
    OBVIOUS
  <2>2. g \in Group /\ q \in Holders(g)
    <3>1. g \subseteq NextHop /\ g # {}
      BY <1>1, <1>3, <2>1 DEF NoGroup
    <3>2. g \in Group
      BY <3>1 DEF Group
    <3>3. q \in Holders(g)
      BY <2>1 DEF Holders
    <3> QED BY <3>2, <3>3
  <2>3. Cardinality(Holders(g)) # 0
    BY <2>2, HoldingsFinite, FS_EmptySet
  <2>4. HoldCount[g] >= 1 /\ HoldCount[g] \in Nat
    BY <2>2, <2>3, HoldingsFinite DEF HoldCount
  <2>5. grpRefCount[g] >= HoldCount[g] /\ grpRefCount[g] \in Nat /\ (g \in ipNextHopGroupDB <=> grpRefCount[g] > 0)
    BY <2>2, HoldingsCounts, TablesNat DEF NhInv, Tables
  <2> QED BY <2>1, <2>2, <2>4, <2>5
<1> QED BY <1>2, <1>3

\* The target last asked for a prefix the handler does not work on is what
\* the prefix holds.
LEMMA SettledAsked ==
  ASSUME DbInv, NEW q \in Prefix, ~Mine(q)
  PROVE  \/ AskedTarget(q) = NoRoute
         \/ \E ip \in SingleNh(q) : AskedTarget(q) = [kind |-> "nh", nhs |-> {ip}]
         \/ HeldGroup(q) # NoGroup /\ AskedTarget(q) = GroupTarget(HeldGroup(q))
<1>1. Settled(q) /\ Asked(q) = nextHopMap[q] /\ HeldGroup(q) = ecmpGrpId[q]
  BY DEF DbInv, Asked, HeldGroup
<1>2. CASE q \notin ipRouteDB
  BY <1>1, <1>2 DEF Settled, AskedTarget
<1>3. CASE q \in ipRouteDB
  <2>1. Serves(ecmpGrpId[q], nextHopMap[q])
    BY <1>1, <1>3 DEF Settled
  <2>2. CASE ecmpGrpId[q] = NoGroup
    <3>1. PICK ip \in NextHop : nextHopMap[q] = {ip}
      BY <2>1, <2>2 DEF Serves, NoGroup
    <3>2. ip \in SingleNh(q)
      BY <1>3, <2>2, <3>1 DEF SingleNh
    <3> QED BY <1>1, <2>2, <3>1, <3>2 DEF AskedTarget
  <2>3. CASE ecmpGrpId[q] # NoGroup
    BY <1>1, <2>1, <2>3 DEF Serves, AskedTarget
  <2> QED BY <2>2, <2>3
<1> QED BY <1>2, <1>3

\* Between operations everything the ASIC was asked for exists.
LEMMA IdleExists ==
  DbInv /\ NhInv /\ pc = "idle" => RouteGroupsKnown /\ \A q \in Prefix : Exists(AskedTarget(q))
<1> SUFFICES ASSUME DbInv, NhInv, pc = "idle"
             PROVE  RouteGroupsKnown /\ \A q \in Prefix : Exists(AskedTarget(q))
  OBVIOUS
<1>1. hwNextHop = nextHopDB /\ hwGroup = ipNextHopGroupDB
  BY DEF NhInv, Tables
<1>2. ASSUME NEW q \in Prefix
      PROVE  Exists(AskedTarget(q)) /\ (ecmpGrpId[q] # NoGroup => ecmpGrpId[q] \in ipNextHopGroupDB)
  <2>1. ~Mine(q) /\ HeldGroup(q) = ecmpGrpId[q]
    BY DEF Mine, HeldGroup
  <2>2. CASE AskedTarget(q) = NoRoute
    BY <2>1, <2>2, HeldExists DEF Exists, NoRoute
  <2>3. CASE \E ip \in SingleNh(q) : AskedTarget(q) = [kind |-> "nh", nhs |-> {ip}]
    BY <1>1, <2>1, <2>3, HeldExists DEF Exists
  <2>4. CASE HeldGroup(q) # NoGroup /\ AskedTarget(q) = GroupTarget(HeldGroup(q))
    BY <1>1, <2>1, <2>4, HeldExists DEF Exists, GroupTarget
  <2> QED BY <2>1, <2>2, <2>3, <2>4, SettledAsked
<1> QED BY <1>2 DEF RouteGroupsKnown, DbInv, DbType

\* The queue is drained: the ASIC has what it was asked for last.
LEMMA Drained ==
  ASSUME ChannelBase, asicCh = <<>>, NEW q \in Prefix
  PROVE  hwRoute[q] = AskedTarget(q)
<1>1. Len(AsicKeyOf) = 0
  BY AsicSeq
<1>2. Before(AsicKeyOf, q, 0, 0 + 1)
  BY BeforeFirst
<1>3. AsicAfter(q, 0) = AskedTarget(q)
  BY <1>1, <1>2 DEF ChannelBase
<1> QED BY <1>3 DEF AsicAfter

\* What the ASIC uses once drained is held, by another prefix when the route of
\* the one in progress is gone.
LEMMA BusyHeld ==
  ASSUME DbInv, ChannelBase, asicCh = <<>>,
         (pc = "release" /\ nextHopMap[cur.prefix] = {}) \/ pc = "waitUpd"
  PROVE  /\ \A ip \in BusyNextHops : \E q \in Prefix : q # cur.prefix /\ ip \in SingleNh(q)
         /\ \A g \in BusyGroups : \E q \in Prefix : /\ HeldGroup(q) = g
                                                    /\ pc = "release" => q # cur.prefix
<1>0. PICK p : p = cur.prefix
  OBVIOUS
<1>1. Mine(p) /\ p \in Prefix /\ \A q \in Prefix : q # p => ~Mine(q)
  BY <1>0 DEF Mine, DbInv, DbType
<1>2. IF pc = "release" THEN AskedTarget(p) = NoRoute
      ELSE AskedTarget(p) = GroupTarget(HeldGroup(p))
  <2>1. CASE pc = "release"
    BY <1>0, <1>1, <2>1 DEF AskedTarget, Asked, Adding, Replacing
  <2>2. CASE pc = "waitUpd"
    <3>1. nextHopMap[p] # {} /\ ecmpGrpId[p] # NoGroup
      BY <1>0, <2>2 DEF DbInv, JobInv, Replacing
    <3> QED BY <1>0, <1>1, <2>2, <3>1 DEF AskedTarget, Asked, HeldGroup, Adding, Replacing, Deleting
  <2> QED BY <2>1, <2>2
<1>3. \A q \in Prefix : hwRoute[q] = AskedTarget(q)
  BY Drained
<1>4. ASSUME NEW ip \in BusyNextHops
      PROVE  \E q \in Prefix : q # p /\ ip \in SingleNh(q)
  <2>1. PICK q \in Prefix : AskedTarget(q) = [kind |-> "nh", nhs |-> {ip}]
    BY <1>3, <1>4 DEF BusyNextHops
  <2>2. q # p
    BY <1>2, <2>1 DEF NoRoute, GroupTarget
  <2>3. ip \in SingleNh(q)
    BY <1>1, <2>1, <2>2, SettledAsked DEF NoRoute, GroupTarget
  <2> QED BY <2>2, <2>3
<1>5. ASSUME NEW g \in BusyGroups
      PROVE  \E q \in Prefix : HeldGroup(q) = g /\ (pc = "release" => q # p)
  <2>1. PICK q \in Prefix : AskedTarget(q).kind = "group" /\ AskedTarget(q).nhs = g
    BY <1>3, <1>5 DEF BusyGroups
  <2>2. CASE q = p
    BY <1>2, <2>1, <2>2 DEF NoRoute, GroupTarget
  <2>3. CASE q # p
    BY <1>1, <2>1, <2>3, SettledAsked DEF NoRoute, GroupTarget
  <2> QED BY <2>2, <2>3
<1> QED BY <1>0, <1>4, <1>5

-----------------------------------------------------------------------------
(***************************************************************************)
(* Parts of the invariant that a step leaves alone.                        *)
(***************************************************************************)
LEMMA DanglingGrows ==
  ASSUME NoDanglingRoute, UNCHANGED <<asicCh, hwRoute>>,
         hwNextHop \subseteq hwNextHop', hwGroup \subseteq hwGroup'
  PROVE  NoDanglingRoute'
<1>1. \A t : Exists(t) => Exists(t)'
  BY DEF Exists
<1> QED BY <1>1 DEF NoDanglingRoute

LEMMA DanglingSent ==
  ASSUME NoDanglingRoute, UNCHANGED hwRoute, NEW m \in Message, ToAsic(m), Exists(m.target)',
         hwNextHop \subseteq hwNextHop', hwGroup \subseteq hwGroup', asicCh \in Seq(Message)
  PROVE  NoDanglingRoute'
<1>1. \A t : Exists(t) => Exists(t)'
  BY DEF Exists
<1>2. asicCh' = Append(asicCh, m)
  BY DEF ToAsic
<1>3. PICK n : n = Len(asicCh)
  OBVIOUS
<1>4. /\ n \in Nat /\ DOMAIN asicCh = 1 .. n /\ DOMAIN asicCh' = 1 .. n + 1
      /\ asicCh'[n + 1] = m /\ \A i \in 1 .. n : asicCh'[i] = asicCh[i]
  BY <1>2, <1>3, AppendProperties, LenProperties
<1>5. \A i \in 1 .. n + 1 : i \in 1 .. n \/ i = n + 1
  BY <1>4
<1>6. ASSUME NEW i \in DOMAIN asicCh', NEW t, t = asicCh'[i].target
      PROVE  Exists(t)'
  <2>1. CASE i = n + 1
    BY <1>4, <1>6, <2>1
  <2>2. CASE i \in 1 .. n
    <3>1. t = asicCh[i].target
      BY <1>4, <1>6, <2>2
    <3>2. Exists(t)
      BY <1>4, <2>2, <3>1 DEF NoDanglingRoute
    <3> QED BY <1>1, <3>2
  <2> QED BY <1>4, <1>5, <2>1, <2>2
<1>7. \A p \in Prefix : Exists(hwRoute[p])'
  BY <1>1 DEF NoDanglingRoute
<1> QED BY <1>6, <1>7 DEF NoDanglingRoute

\* The operation ends and the channel is empty.
LEMMA DanglingIdle ==
  ASSUME ChannelInv, asicCh = <<>>, UNCHANGED <<asicCh, hwRoute>>,
         \A q \in Prefix : AskedTarget(q)' = AskedTarget(q),
         DbInv', NhInv', pc' = "idle"
  PROVE  NoDanglingRoute'
<1>1. (DbInv /\ NhInv /\ pc = "idle" => \A q \in Prefix : Exists(AskedTarget(q)))'
  BY IdleExists, PTL
<1>2. \A q \in Prefix : hwRoute'[q] = AskedTarget(q)'
  BY Drained DEF ChannelInv
<1>3. \A q \in Prefix : Exists(hwRoute[q])'
  BY <1>1, <1>2
<1>4. DOMAIN asicCh' = {}
  OBVIOUS
<1> QED BY <1>3, <1>4 DEF NoDanglingRoute

LEMMA GroupsIdle ==
  ASSUME DbInv', NhInv', pc' = "idle"
  PROVE  RefsInv'
<1>1. (DbInv /\ NhInv /\ pc = "idle" => RouteGroupsKnown)'
  BY IdleExists, PTL
<1> QED BY <1>1 DEF RefsInv, Deleting, Replacing

LEMMA GroupsGrow ==
  ASSUME RefsInv, UNCHANGED <<ipRouteDB, ecmpGrpId>>,
         ipNextHopGroupDB \subseteq ipNextHopGroupDB'
  PROVE  RouteGroupsKnown'
BY DEF RefsInv, RouteGroupsKnown

LEMMA DoneQuiet ==
  ASSUME DoneInv, UNCHANGED <<doneChannel, asicCh>>, ~Waiting,
         pc' \notin {"waitDel", "waitUpd", "release"}
  PROVE  DoneInv'
BY DEF DoneInv, Waiting

\* The route server answers the last message of the channel.
LEMMA DoneServed ==
  ASSUME DoneInv, ChannelBase, AsicServer
  PROVE  DoneInv'
<1>1. PICK n \in Nat :
        /\ Len(asicCh) = n + 1 /\ DOMAIN asicCh = 1 .. n + 1 /\ Head(asicCh) = asicCh[1]
        /\ asicCh' \in Seq(Message) /\ Len(asicCh') = n /\ DOMAIN asicCh' = 1 .. n
        /\ \A i \in 1 .. n : asicCh'[i] = asicCh[i + 1]
  BY Received
<1>2. /\ UNCHANGED <<nextHopMap, pc, cur>> /\ asicCh # <<>>
      /\ doneChannel' = IF Head(asicCh).done THEN doneChannel + 1 ELSE doneChannel
  BY DEF AsicServer, dbVars
<1>3. asicCh' = <<>> <=> n = 0
  BY <1>1, EmptySeq, LenProperties
<1>4. \A i \in 1 .. n + 1 : asicCh[i].done <=> Waiting /\ i = n + 1
  BY <1>1 DEF DoneInv
<1>5. 1 \in 1 .. n + 1 /\ \A i \in 1 .. n : i + 1 \in 1 .. n + 1
  OBVIOUS
<1>6. doneChannel = 0 /\ (Head(asicCh).done <=> Waiting /\ n = 0)
  BY <1>1, <1>2, <1>4, <1>5 DEF DoneInv
<1>7. doneChannel' = IF Waiting /\ asicCh' = <<>> THEN 1 ELSE 0
  BY <1>2, <1>3, <1>6
<1>8. \A i \in DOMAIN asicCh' : asicCh'[i].done <=> Waiting /\ i = Len(asicCh')
  <2> SUFFICES ASSUME NEW i \in 1 .. n
               PROVE  asicCh'[i].done <=> Waiting /\ i = n
    BY <1>1
  <2>1. asicCh'[i] = asicCh[i + 1] /\ i + 1 \in 1 .. n + 1
    BY <1>1, <1>5
  <2>2. asicCh[i + 1].done <=> Waiting /\ i + 1 = n + 1
    BY <1>4, <2>1
  <2> QED BY <2>1, <2>2
<1>9. ~(pc = "release" /\ nextHopMap[cur.prefix] = {} /\ cur.refs <= 1)
  BY <1>2 DEF DoneInv
<1> QED BY <1>2, <1>7, <1>8, <1>9 DEF DoneInv, Waiting

\* A message is queued: it is the one the handler waits for if it waits.
LEMMA DoneSent ==
  ASSUME DoneInv, UNCHANGED doneChannel, ~Waiting, asicCh \in Seq(Message),
         NEW m \in Message, ToAsic(m), m.done <=> Waiting',
         ~(pc' = "release" /\ nextHopMap'[cur'.prefix] = {} /\ cur'.refs <= 1)
  PROVE  DoneInv'
<1>1. asicCh' = Append(asicCh, m)
  BY DEF ToAsic
<1>2. PICK n : n = Len(asicCh)
  OBVIOUS
<1>3. /\ n \in Nat /\ DOMAIN asicCh = 1 .. n /\ DOMAIN asicCh' = 1 .. n + 1 /\ Len(asicCh') = n + 1
      /\ asicCh'[n + 1] = m /\ \A i \in 1 .. n : asicCh'[i] = asicCh[i]
  BY <1>1, <1>2, AppendProperties, LenProperties
<1>4. asicCh' # <<>> /\ doneChannel' = 0
  BY <1>3 DEF DoneInv, Waiting
<1>5. \A i \in 1 .. n + 1 : (i \in 1 .. n /\ i # n + 1) \/ i = n + 1
  BY <1>3
<1>6. \A i \in DOMAIN asicCh' : asicCh'[i].done <=> Waiting' /\ i = Len(asicCh')
  <2> SUFFICES ASSUME NEW i \in 1 .. n + 1
               PROVE  asicCh'[i].done <=> Waiting' /\ i = n + 1
    BY <1>3
  <2>1. CASE i \in 1 .. n /\ i # n + 1
    <3>1. ~asicCh[i].done
      BY <1>3, <2>1 DEF DoneInv, Waiting
    <3> QED BY <1>3, <2>1, <3>1
  <2>2. CASE i = n + 1
    BY <1>3, <2>2
  <2> QED BY <1>5, <2>1, <2>2
<1> QED BY <1>4, <1>6 DEF DoneInv

-----------------------------------------------------------------------------
(***************************************************************************)
(* What each step of the handler changes of what the prefixes hold.        *)
(***************************************************************************)
LEMMA TakeAddFirstHolds ==
  ASSUME OrdinaryOnly, DbInv, TakeAddFirst,
         NEW p, p = Head(routeOpChannel).prefix, NEW n, n = Head(routeOpChannel).nh
  PROVE  /\ pc = "idle" /\ pc' = "program" /\ p \in Prefix /\ n \in NextHop
         /\ CreateNextHop(n, "RT_NBR_CREATE")
         /\ UNCHANGED <<ipRouteDB, nextHopMap, ecmpGrpId, doneChannel, asicCh, hwRoute>>
         /\ SingleNh(p) = {} /\ SingleNh(p)' = {n}
         /\ \A q \in Prefix \ {p} : SingleNh(q)' = SingleNh(q)
         /\ \A q \in Prefix : HeldGroup(q)' = HeldGroup(q)
<1>1. /\ pc = "idle" /\ p \in Prefix /\ n \in NextHop
      /\ \A q \in Prefix : Settled(q) /\ ~Mine(q)
  BY TakenOp DEF TakeAddFirst, Operations
<1>2. /\ p \notin ipRouteDB /\ CreateNextHop(n, "RT_NBR_CREATE")
      /\ cur'.prefix = p /\ cur'.nh = n /\ cur'.grp = NoGroup /\ pc' = "program"
      /\ UNCHANGED <<ipRouteDB, nextHopMap, ecmpGrpId, doneChannel, asicCh, hwRoute>>
  BY DEF TakeAddFirst, Ordinary, OrdinaryOnly, dbVars, hwVars
<1>3. nextHopMap[p] = {} /\ ecmpGrpId[p] = NoGroup
  BY <1>1, <1>2 DEF Settled
<1>4. /\ SingleNh(p) = {} /\ SingleNh(p)' = {n}
      /\ \A q \in Prefix \ {p} : SingleNh(q)' = SingleNh(q)
      /\ \A q \in Prefix : HeldGroup(q)' = HeldGroup(q)
  BY <1>1, <1>2, <1>3 DEF SingleNh, HeldGroup, Mine, Adding, Deleting
<1> QED BY <1>1, <1>2, <1>4

\* The single next hop keeps its reference until the prefix has its group.
LEMMA SingleBeforeDrop ==
  ASSUME NEW p, Mine(p)', pc' = "dropSingle"
  PROVE  SingleNh(p)' = cur'.nhs \ {cur'.nh}
BY DEF SingleNh, Deleting

LEMMA TakeAddSecondHolds ==
  ASSUME DbInv, TakeAddSecond \/ TakeAddMore,
         NEW p, p = Head(routeOpChannel).prefix, NEW n, n = Head(routeOpChannel).nh,
         NEW members, members = nextHopMap[p] \cup {n}
  PROVE  /\ pc = "idle" /\ p \in Prefix /\ n \in NextHop
         /\ members \in Group /\ members # NoGroup
         /\ UNCHANGED <<ipRouteDB, ecmpGrpId, doneChannel, asicCh, hwRoute>>
         /\ \/ ecmpGrpId[p] = NoGroup /\ pc' = "dropSingle" /\ CreateNextHopGroup(members)
            \/ /\ ecmpGrpId[p] # NoGroup /\ pc' = "program"
               /\ UpdateNextHopGroup(ecmpGrpId[p], members)
         /\ \A q \in Prefix : SingleNh(q)' = SingleNh(q)
         /\ HeldGroup(p) = ecmpGrpId[p] /\ HeldGroup(p)' = members /\ ecmpGrpId[p] # members
         /\ \A q \in Prefix \ {p} : HeldGroup(q)' = HeldGroup(q)
<1>1. /\ pc = "idle" /\ p \in Prefix /\ n \in NextHop
      /\ \A q \in Prefix : Settled(q) /\ ~Mine(q)
  BY TakenOp DEF TakeAddSecond, TakeAddMore, Operations
<1>2. /\ p \in ipRouteDB /\ n \notin nextHopMap[p]
      /\ nextHopMap' = [nextHopMap EXCEPT ![p] = members]
      /\ cur'.prefix = p /\ cur'.nh = n /\ cur'.nhs = members /\ cur'.grp = members
      /\ UNCHANGED <<ipRouteDB, ecmpGrpId, doneChannel, asicCh, hwRoute>>
      /\ \/ ecmpGrpId[p] = NoGroup /\ pc' = "dropSingle" /\ CreateNextHopGroup(members)
         \/ /\ ecmpGrpId[p] # NoGroup /\ pc' = "program"
            /\ UpdateNextHopGroup(ecmpGrpId[p], members)
  BY DEF TakeAddSecond, TakeAddMore, hwVars
<1>3. /\ nextHopMap[p] \subseteq NextHop /\ members \in Group /\ members # NoGroup
      /\ \A q \in Prefix \ {p} : nextHopMap'[q] = nextHopMap[q]
  <2>1. nextHopMap \in [Prefix -> SUBSET NextHop]
    BY DEF DbInv, DbType
  <2> QED BY <1>1, <1>2, <2>1 DEF Group, NoGroup
<1>4. Serves(ecmpGrpId[p], nextHopMap[p])
  BY <1>1, <1>2 DEF Settled
<1>5. \A q \in Prefix : SingleNh(q)' = SingleNh(q)
  <2>1. \A q \in Prefix \ {p} : SingleNh(q)' = SingleNh(q)
    BY <1>1, <1>2, <1>3 DEF SingleNh, Mine
  <2>2. Mine(p)' /\ ~Mine(p)
    BY <1>1, <1>2 DEF Mine
  <2>3. CASE ecmpGrpId[p] = NoGroup
    <3>1. members \ {n} = nextHopMap[p]
      BY <1>2
    <3>2. SingleNh(p)' = nextHopMap[p]
      <4>1. pc' = "dropSingle" /\ cur'.nhs = members /\ cur'.nh = n
        BY <1>2, <2>3
      <4>2. SingleNh(p)' = cur'.nhs \ {cur'.nh}
        BY <2>2, <4>1, SingleBeforeDrop
      <4> QED BY <3>1, <4>1, <4>2
    <3>3. SingleNh(p) = nextHopMap[p]
      BY <1>2, <2>2, <2>3 DEF SingleNh
    <3> QED BY <2>1, <3>2, <3>3
  <2>4. CASE ecmpGrpId[p] # NoGroup
    <3>1. SingleNh(p)' = {} /\ SingleNh(p) = {}
      BY <1>2, <2>2, <2>4 DEF SingleNh
    <3> QED BY <2>1, <3>1
  <2> QED BY <2>3, <2>4
<1>6. /\ HeldGroup(p) = ecmpGrpId[p] /\ HeldGroup(p)' = members /\ ecmpGrpId[p] # members
      /\ \A q \in Prefix \ {p} : HeldGroup(q)' = HeldGroup(q)
  <2>1. HeldGroup(p) = ecmpGrpId[p] /\ HeldGroup(p)' = members
    <3>1. HeldGroup(p) = ecmpGrpId[p]
      BY <1>1 DEF HeldGroup, Mine
    <3>2. pc' \in {"dropSingle", "program"}
      BY <1>2
    <3>3. Adding' /\ ~Deleting' /\ Mine(p)'
      BY <1>2, <3>2 DEF Mine, Adding, Deleting
    <3> QED BY <1>2, <3>1, <3>3 DEF HeldGroup
  <2>2. \A q \in Prefix \ {p} : HeldGroup(q)' = HeldGroup(q)
    BY <1>1, <1>2 DEF HeldGroup, Mine
  <2>3. ecmpGrpId[p] # members
    BY <1>2, <1>3, <1>4 DEF Serves, NoGroup
  <2> QED BY <2>1, <2>2, <2>3
<1> QED BY <1>1, <1>2, <1>3, <1>5, <1>6

\* The next hop that was alone is in the group by now.
LEMMA DropSingleHolds ==
  ASSUME DbInv, DropSingle, NEW p, p = cur.prefix
  PROVE  /\ \E old \in cur.nhs :
              /\ old \in NextHop /\ DeleteNextHop(old, BusyNextHops)
              /\ p \in Prefix /\ SingleNh(p) = {old} /\ SingleNh(p)' = {}
              /\ HeldGroup(p) = cur.nhs /\ cur.nhs # NoGroup
         /\ \A q \in Prefix \ {p} : SingleNh(q)' = SingleNh(q)
         /\ \A q \in Prefix : HeldGroup(q)' = HeldGroup(q)
<1>1. /\ pc = "dropSingle" /\ pc' = "program"
      /\ UNCHANGED <<ipRouteDB, nextHopMap, ecmpGrpId, cur, doneChannel, asicCh, hwRoute>>
  BY DEF DropSingle, dbVars, hwVars
<1>2. Adds(p) /\ p \in Prefix /\ Mine(p)
  BY <1>1 DEF DbInv, DbType, JobInv, Adding, Mine
<1>3. /\ p \in ipRouteDB /\ cur.nh \in cur.nhs /\ cur.grp = cur.nhs
      /\ Serves(NoGroup, cur.nhs \ {cur.nh})
  BY <1>1, <1>2 DEF Adds
<1>4. PICK old \in NextHop : cur.nhs \ {cur.nh} = {old}
  BY <1>3 DEF Serves, NoGroup
<1>5. DeleteNextHop(old, BusyNextHops)
  BY <1>4 DEF DropSingle
<1>6. /\ SingleNh(p) = {old} /\ SingleNh(p)' = {}
      /\ \A q \in Prefix \ {p} : SingleNh(q)' = SingleNh(q)
      /\ \A q \in Prefix : HeldGroup(q)' = HeldGroup(q)
      /\ HeldGroup(p) = cur.nhs
  <2>1. SingleNh(p) = {old} /\ SingleNh(p)' = {}
    <3>1. SingleNh(p) = cur.nhs \ {cur.nh}
      BY <1>1, <1>2 DEF SingleNh, Deleting
    <3>2. Mine(p)' /\ (p \in ipRouteDB)'
      BY <1>1, <1>2, <1>3 DEF Mine
    <3>3. SingleNh(p)' = {}
      BY <1>1, <3>2 DEF SingleNh, Deleting
    <3> QED BY <1>4, <3>1, <3>3
  <2>2. HeldGroup(p) = cur.nhs
    BY <1>1, <1>2, <1>3 DEF HeldGroup, Adding, Deleting
  <2>3. \A q \in Prefix : HeldGroup(q)' = HeldGroup(q)
    BY <1>1 DEF HeldGroup, Mine, Adding, Deleting
  <2>4. \A q \in Prefix \ {p} : SingleNh(q)' = SingleNh(q)
    BY <1>1 DEF SingleNh, Mine
  <2> QED BY <2>1, <2>2, <2>3, <2>4
<1>7. old \in cur.nhs /\ cur.nhs # NoGroup
  BY <1>3, <1>4 DEF NoGroup
<1> QED BY <1>2, <1>4, <1>5, <1>6, <1>7

LEMMA ProgramHolds ==
  ASSUME DbInv, Program
  PROVE  \A q \in Prefix : SingleNh(q)' = SingleNh(q) /\ HeldGroup(q)' = HeldGroup(q)
<1>0. PICK p, n : p = cur.prefix /\ n = cur.nh
  OBVIOUS
<1>1. /\ pc = "program" /\ pc' = "idle"
      /\ ipRouteDB' = ipRouteDB \cup {p}
      /\ nextHopMap' = [nextHopMap EXCEPT ![p] = cur.nhs]
      /\ ecmpGrpId' = [ecmpGrpId EXCEPT ![p] = cur.grp]
      /\ UNCHANGED <<nhMgrVars, doneChannel, hwRoute>>
  BY <1>0 DEF Program, hwVars
<1>2. Adds(p) /\ p \in Prefix /\ Mine(p) /\ cur.nhs \subseteq NextHop /\ cur.grp \subseteq NextHop
  BY <1>0, <1>1 DEF DbInv, DbType, JobInv, Adding, Mine
<1>3. /\ nextHopMap'[p] = cur.nhs /\ ecmpGrpId'[p] = cur.grp
      /\ \A q \in Prefix \ {p} : /\ nextHopMap'[q] = nextHopMap[q] /\ ecmpGrpId'[q] = ecmpGrpId[q]
                                 /\ q \in ipRouteDB' <=> q \in ipRouteDB
  BY <1>1, <1>2 DEF DbInv, DbType
<1>4. \A q \in Prefix : SingleNh(q)' = SingleNh(q) /\ HeldGroup(q)' = HeldGroup(q)
  <2>1. CASE p \in ipRouteDB
    <3>1. cur.grp = cur.nhs /\ cur.nhs # NoGroup
      BY <1>2, <2>1 DEF Adds, NoGroup
    <3>2. SingleNh(p)' = SingleNh(p)
      <4>1. SingleNh(p) = {}
        BY <1>1, <1>2, <2>1 DEF SingleNh, Deleting
      <4>2. ~Mine(p)' /\ ecmpGrpId'[p] # NoGroup
        BY <1>1, <1>3, <3>1 DEF Mine
      <4>3. SingleNh(p)' = {}
        BY <4>2 DEF SingleNh
      <4> QED BY <4>1, <4>3
    <3>3. HeldGroup(p)' = HeldGroup(p)
      BY <1>1, <1>2, <1>3 DEF HeldGroup, Mine, Adding, Deleting
    <3> QED BY <1>0, <1>1, <1>3, <3>2, <3>3 DEF SingleNh, HeldGroup, Mine
  <2>2. CASE p \notin ipRouteDB
    <3>1. cur.grp = NoGroup /\ cur.nhs = {n}
      BY <1>0, <1>2, <2>2 DEF Adds
    <3>2. SingleNh(p)' = SingleNh(p)
      <4>1. SingleNh(p) = {n}
        BY <1>0, <1>1, <1>2, <2>2 DEF SingleNh, Deleting
      <4>2. ~Mine(p)' /\ ecmpGrpId'[p] = NoGroup /\ nextHopMap'[p] = {n} /\ p \in ipRouteDB'
        BY <1>1, <1>3, <3>1 DEF Mine
      <4>3. SingleNh(p)' = {n}
        BY <4>2 DEF SingleNh
      <4> QED BY <4>1, <4>3
    <3>3. HeldGroup(p)' = HeldGroup(p)
      BY <1>1, <1>2, <1>3 DEF HeldGroup, Mine, Adding, Deleting
    <3> QED BY <1>0, <1>1, <1>3, <3>2, <3>3 DEF SingleNh, HeldGroup, Mine
  <2> QED BY <2>1, <2>2
<1> QED BY <1>4

LEMMA TakeDelHolds ==
  ASSUME DbInv, TakeDel
  PROVE  \A q \in Prefix : SingleNh(q)' = SingleNh(q) /\ HeldGroup(q)' = HeldGroup(q)
<1>0. PICK p, n, left, refs :
         /\ p = Head(routeOpChannel).prefix /\ n = Head(routeOpChannel).nh
         /\ left = nextHopMap[p] \ {n} /\ refs = References(p, n)
  OBVIOUS
<1>1. /\ pc = "idle" /\ p \in Prefix /\ n \in NextHop
      /\ \A q \in Prefix : Settled(q) /\ ~Mine(q)
  BY <1>0, TakenOp DEF TakeDel, Operations
<1>2. /\ p \in ipRouteDB /\ n \in nextHopMap[p]
      /\ nextHopMap' = [nextHopMap EXCEPT ![p] = left]
      /\ cur'.prefix = p /\ cur'.nh = n /\ cur'.refs = refs
      /\ pc' = IF left = {} /\ MustWait(refs) THEN "waitDel" ELSE "release"
      /\ UNCHANGED <<nhMgrVars, ipRouteDB, ecmpGrpId, doneChannel, hwRoute>>
      /\ IF left = {} THEN ToAsic(AsicMsg("Del", p, NoRoute, FALSE, MustWait(refs)))
         ELSE UNCHANGED asicCh
  BY <1>0 DEF TakeDel, Knows, hwVars
<1>3. /\ nextHopMap'[p] = left
      /\ \A q \in Prefix \ {p} : nextHopMap'[q] = nextHopMap[q]
  BY <1>1, <1>2 DEF DbInv, DbType
<1>4. Serves(ecmpGrpId[p], nextHopMap[p])
  BY <1>1, <1>2 DEF Settled
<1>5. \A q \in Prefix : SingleNh(q)' = SingleNh(q) /\ HeldGroup(q)' = HeldGroup(q)
  <2>1. HeldGroup(p)' = HeldGroup(p)
    BY <1>1, <1>2 DEF HeldGroup, Mine, Deleting
  <2>2. SingleNh(p)' = SingleNh(p)
    <3>1. ecmpGrpId[p] = NoGroup => nextHopMap[p] = {n}
      BY <1>2, <1>4 DEF Serves, NoGroup
    <3> QED BY <1>1, <1>2, <3>1 DEF SingleNh, Mine, Deleting
  <2>3. \A q \in Prefix \ {p} : SingleNh(q)' = SingleNh(q) /\ HeldGroup(q)' = HeldGroup(q)
    BY <1>1, <1>2, <1>3 DEF SingleNh, HeldGroup, Mine
  <2> QED BY <2>1, <2>2, <2>3
<1> QED BY <1>5

LEMMA ReleaseLastHolds ==
  ASSUME OrdinaryOnly, DbInv, ReleaseLast,
         NEW p, p = cur.prefix, NEW n, n = cur.nh, NEW g, g = ecmpGrpId[p]
  PROVE  /\ pc = "release" /\ pc' = "idle" /\ nextHopMap[p] = {}
         /\ UNCHANGED <<nextHopMap, doneChannel, asicCh, hwRoute>>
         /\ IF g = NoGroup THEN DeleteNextHop(n, BusyNextHops)
            ELSE DeleteNextHopGroup(g, BusyNextHops, BusyGroups)
         /\ \A q \in Prefix \ {p} : SingleNh(q)' = SingleNh(q) /\ HeldGroup(q)' = HeldGroup(q)
         /\ HeldGroup(p) = g /\ HeldGroup(p)' = NoGroup
         /\ SingleNh(p) = (IF g = NoGroup THEN {n} ELSE {}) /\ SingleNh(p)' = {}
<1>1. /\ pc = "release" /\ pc' = "idle" /\ nextHopMap[p] = {}
      /\ ipRouteDB' = ipRouteDB \ {p}
      /\ ecmpGrpId' = [ecmpGrpId EXCEPT ![p] = NoGroup]
      /\ UNCHANGED <<nextHopMap, doneChannel, asicCh, hwRoute>>
      /\ IF g = NoGroup THEN DeleteNextHop(n, BusyNextHops)
         ELSE DeleteNextHopGroup(g, BusyNextHops, BusyGroups)
  BY DEF ReleaseLast, Ordinary, OrdinaryOnly, hwVars
<1>2. /\ p \in Prefix /\ n \in NextHop /\ Mine(p)
  BY <1>1 DEF DbInv, DbType, JobInv, Deleting, Mine
<1>3. /\ p \notin ipRouteDB' /\ ecmpGrpId'[p] = NoGroup
      /\ \A q \in Prefix \ {p} : (q \in ipRouteDB' <=> q \in ipRouteDB) /\ ecmpGrpId'[q] = ecmpGrpId[q]
  BY <1>1, <1>2 DEF DbInv, DbType
<1>4. /\ \A q \in Prefix \ {p} : SingleNh(q)' = SingleNh(q) /\ HeldGroup(q)' = HeldGroup(q)
      /\ HeldGroup(p) = g /\ HeldGroup(p)' = NoGroup
      /\ SingleNh(p) = (IF g = NoGroup THEN {n} ELSE {}) /\ SingleNh(p)' = {}
  <2>1. \A q \in Prefix \ {p} : SingleNh(q)' = SingleNh(q) /\ HeldGroup(q)' = HeldGroup(q)
    BY <1>1, <1>3 DEF SingleNh, HeldGroup, Mine
  <2>2. HeldGroup(p) = g /\ HeldGroup(p)' = NoGroup
    BY <1>1, <1>2, <1>3 DEF HeldGroup, Mine, Deleting
  <2>3. SingleNh(p) = (IF g = NoGroup THEN {n} ELSE {}) /\ SingleNh(p)' = {}
    BY <1>1, <1>2, <1>3 DEF SingleNh, Mine, Deleting
  <2> QED BY <2>1, <2>2, <2>3
<1> QED BY <1>1, <1>4

LEMMA ReplaceGroupHolds ==
  ASSUME DbInv, ReplaceGroup,
         NEW p, p = cur.prefix, NEW g, g = ecmpGrpId[p], NEW members, members = nextHopMap[p]
  PROVE  /\ \A q \in Prefix : SingleNh(q)' = SingleNh(q)
         /\ \A q \in Prefix \ {p} : HeldGroup(q)' = HeldGroup(q)
         /\ HeldGroup(p) = g /\ HeldGroup(p)' = members /\ g # members
<1>0. PICK n : n = cur.nh
  OBVIOUS
<1>1. /\ pc = "release" /\ pc' = "waitUpd"
      /\ UpdateNextHopGroup(g, members)
      /\ ToAsic(AsicMsg("Add", p, GroupTarget(members), TRUE, TRUE))
      /\ UNCHANGED <<ipRouteDB, nextHopMap, ecmpGrpId, cur, doneChannel, hwRoute>>
  BY <1>0 DEF ReplaceGroup, dbVars, hwVars
<1>2. /\ p \in Prefix /\ members # {} /\ members \subseteq NextHop
      /\ n \notin members /\ g = members \cup {n} /\ g # NoGroup
      /\ AskedTarget(p) # NoRoute
      /\ AskedTarget(p)' = GroupTarget(members)
      /\ \A q \in Prefix \ {p} : AskedTarget(q)' = AskedTarget(q)
  BY <1>0, ReplaceGroupAsked
<1>3. Mine(p)
  BY <1>1 DEF Mine
<1>4. /\ \A q \in Prefix : SingleNh(q)' = SingleNh(q)
      /\ \A q \in Prefix \ {p} : HeldGroup(q)' = HeldGroup(q)
      /\ HeldGroup(p) = g /\ HeldGroup(p)' = members /\ g # members
  <2>1. HeldGroup(p) = g /\ HeldGroup(p)' = members
    BY <1>0, <1>1, <1>3 DEF HeldGroup, Mine, Deleting, Adding
  <2>2. \A q \in Prefix : SingleNh(q)' = SingleNh(q)
    <3>1. SingleNh(p)' = SingleNh(p)
      BY <1>0, <1>1, <1>2, <1>3 DEF SingleNh, Mine, Deleting
    <3> QED BY <1>0, <1>1, <3>1 DEF SingleNh, Mine
  <2>3. \A q \in Prefix \ {p} : HeldGroup(q)' = HeldGroup(q)
    BY <1>0, <1>1 DEF HeldGroup, Mine
  <2> QED BY <1>2, <2>1, <2>2, <2>3
<1> QED BY <1>4

LEMMA WaitUpdHolds ==
  ASSUME DbInv, WaitUpd
  PROVE  \A q \in Prefix : SingleNh(q)' = SingleNh(q) /\ HeldGroup(q)' = HeldGroup(q)
<1>0. PICK p : p = cur.prefix
  OBVIOUS
<1>1. /\ pc = "waitUpd" /\ pc' = "idle"
      /\ ecmpGrpId' = [ecmpGrpId EXCEPT ![p] = nextHopMap[p]]
      /\ UNCHANGED <<ipRouteDB, nextHopMap>>
  BY <1>0 DEF WaitUpd
<1>3. p \in Prefix /\ Mine(p) /\ nextHopMap[p] # {} /\ ecmpGrpId[p] # NoGroup
  BY <1>0, <1>1 DEF DbInv, DbType, JobInv, Replacing, Mine
<1>5. ecmpGrpId'[p] = nextHopMap[p] /\ \A q \in Prefix \ {p} : ecmpGrpId'[q] = ecmpGrpId[q]
  BY <1>1, <1>3 DEF DbInv, DbType
<1>6. \A q \in Prefix : SingleNh(q)' = SingleNh(q) /\ HeldGroup(q)' = HeldGroup(q)
  <2>1. HeldGroup(p)' = HeldGroup(p)
    BY <1>0, <1>1, <1>3, <1>5 DEF HeldGroup, Mine, Deleting, Adding
  <2>2. SingleNh(p)' = SingleNh(p)
    BY <1>0, <1>1, <1>3, <1>5 DEF SingleNh, Mine, Deleting, NoGroup
  <2>3. \A q \in Prefix \ {p} : SingleNh(q)' = SingleNh(q) /\ HeldGroup(q)' = HeldGroup(q)
    BY <1>0, <1>1, <1>5 DEF SingleNh, HeldGroup, Mine
  <2> QED BY <2>1, <2>2, <2>3
<1> QED BY <1>6

-----------------------------------------------------------------------------
(***************************************************************************)
(* The handler's steps.                                                    *)
(***************************************************************************)
LEMMA SameHoldings ==
  ASSUME UNCHANGED <<ipRouteDB, nextHopMap, ecmpGrpId, pc, cur>>, NEW q
  PROVE  /\ SingleNh(q)' = SingleNh(q) /\ HeldGroup(q)' = HeldGroup(q)
         /\ Asked(q)' = Asked(q) /\ AskedTarget(q)' = AskedTarget(q)
BY DEF SingleNh, HeldGroup, AskedTarget, Asked, Mine, Adding, Deleting, Replacing

\* A step that holds what was held.
LEMMA NhSame ==
  ASSUME NhInv, UNCHANGED nhMgrVars,
         \A q \in Prefix : SingleNh(q)' = SingleNh(q) /\ HeldGroup(q)' = HeldGroup(q)
  PROVE  NhInv'
<1>1. PICK s, h : s = SingleCount /\ h = HoldCount
  OBVIOUS
<1>2. s = SingleCount' /\ h = HoldCount'
  BY <1>1, SinglesSame, HoldersSame
<1>3. Tables(s, h)'
  BY <1>1, TablesSame DEF NhInv
<1> QED BY <1>2, <1>3, NhNext

LEMMA QuietA ==
  ASSUME AInv, DbInv',
         UNCHANGED <<nhMgrVars, dbVars, pc, cur, doneChannel, asicCh, hwRoute>>
  PROVE  AInv'
<1>1. /\ UNCHANGED <<ipRouteDB, nextHopMap, ecmpGrpId, pc, cur>>
      /\ UNCHANGED <<refCount, ipNextHopGroupDB, grpRefCount, hwNextHop, hwGroup>>
  BY DEF dbVars, nhMgrVars
<1>2. NhInv' /\ ChannelInv'
  BY <1>1, SameHoldings, NhSame, AsicSame DEF AInv
<1>3. RefsInv'
  <2>1. \A g : Holders(g)' = Holders(g)
    BY <1>1, SameHoldings DEF Holders
  <2> QED BY <1>1, <2>1 DEF AInv, RefsInv, RouteGroupsKnown, References, Deleting, Replacing
<1>4. NoDanglingRoute'
  BY <1>1, DanglingGrows DEF AInv
<1>5. DoneInv'
  BY <1>1 DEF AInv, DoneInv, Waiting
<1> QED BY <1>2, <1>3, <1>4, <1>5 DEF AInv

LEMMA TakeAddFirstA ==
  ASSUME OrdinaryOnly, AInv, TakeAddFirst
  PROVE  AInv'
<1>0. PICK p, n : p = Head(routeOpChannel).prefix /\ n = Head(routeOpChannel).nh
  OBVIOUS
<1>1. /\ pc = "idle" /\ pc' = "program" /\ p \in Prefix /\ n \in NextHop
      /\ CreateNextHop(n, "RT_NBR_CREATE")
      /\ UNCHANGED <<ipRouteDB, nextHopMap, ecmpGrpId, doneChannel, asicCh, hwRoute>>
  BY <1>0, TakeAddFirstHolds DEF AInv
<1>4. /\ SingleNh(p) = {} /\ SingleNh(p)' = {n}
      /\ \A q \in Prefix \ {p} : SingleNh(q)' = SingleNh(q)
      /\ \A q \in Prefix : HeldGroup(q)' = HeldGroup(q)
  BY <1>0, TakeAddFirstHolds DEF AInv
<1>5. NhInv'
  <2>1. PICK s, h, s2 : s = SingleCount /\ h = HoldCount /\ s2 = SingleCount'
    OBVIOUS
  <2>2. s2[n] = s[n] + 1 /\ \A x \in NextHop \ {n} : s2[x] = s[x]
    BY <1>1, <1>4, <2>1, SinglesMore
  <2>3. h = HoldCount'
    BY <1>4, <2>1, HoldersSame
  <2>4. Counts(s, h) /\ Counts(s2, h) /\ Tables(s, h)
    BY <2>1, <2>3, HoldingsCounts, HoldingsNext DEF AInv, NhInv
  <2>5. Tables(s2, h)'
    BY <1>1, <2>2, <2>4, CreateNextHopTables
  <2> QED BY <2>1, <2>3, <2>5, NhNext
<1>6. DbInv' /\ ChannelInv'
  BY <1>1, TakeAddFirstDb, QuietAsked, AsicSame DEF AInv
<1>7. /\ hwNextHop \subseteq hwNextHop' /\ hwGroup \subseteq hwGroup'
      /\ ipNextHopGroupDB \subseteq ipNextHopGroupDB'
  BY <1>1 DEF CreateNextHop
<1>8. RefsInv'
  BY <1>1, <1>7, GroupsGrow DEF AInv, RefsInv, Deleting, Replacing
<1>9. NoDanglingRoute' /\ DoneInv'
  BY <1>1, <1>7, DanglingGrows, DoneQuiet DEF AInv, Waiting
<1> QED BY <1>5, <1>6, <1>8, <1>9 DEF AInv

\* A group is taken for the prefix, a new one or in place of a smaller one.
LEMMA TakeAddSecondA ==
  ASSUME AInv, TakeAddSecond \/ TakeAddMore
  PROVE  AInv'
<1>0. PICK p, n, members : /\ p = Head(routeOpChannel).prefix /\ n = Head(routeOpChannel).nh
                           /\ members = nextHopMap[p] \cup {n}
  OBVIOUS
<1>1. pc = "idle" /\ p \in Prefix /\ members \in Group /\ members # NoGroup
  BY <1>0, TakeAddSecondHolds DEF AInv
<1>2. /\ UNCHANGED <<ipRouteDB, ecmpGrpId, doneChannel, asicCh, hwRoute>>
      /\ \/ ecmpGrpId[p] = NoGroup /\ pc' = "dropSingle" /\ CreateNextHopGroup(members)
         \/ /\ ecmpGrpId[p] # NoGroup /\ pc' = "program"
            /\ UpdateNextHopGroup(ecmpGrpId[p], members)
  BY <1>0, TakeAddSecondHolds DEF AInv
<1>5. \A q \in Prefix : SingleNh(q)' = SingleNh(q)
  BY <1>0, TakeAddSecondHolds DEF AInv
<1>6. /\ HeldGroup(p) = ecmpGrpId[p] /\ HeldGroup(p)' = members /\ ecmpGrpId[p] # members
      /\ \A q \in Prefix \ {p} : HeldGroup(q)' = HeldGroup(q)
  BY <1>0, TakeAddSecondHolds DEF AInv
<1>7. PICK g : g = ecmpGrpId[p]
  OBVIOUS
<1>8. PICK s, h, h2 : s = SingleCount /\ h = HoldCount /\ h2 = HoldCount'
  OBVIOUS
<1>9. s = SingleCount' /\ Counts(s, h) /\ Counts(s, h2) /\ Tables(s, h)
  BY <1>5, <1>8, SinglesSame, HoldingsCounts, HoldingsNext DEF AInv, NhInv
<1>10. /\ g \in Group => h[g] = h2[g] + 1
       /\ h2[members] = h[members] + 1
       /\ \A x \in Group \ {g, members} : h2[x] = h[x]
  <2>1. /\ HeldGroup(p) = g /\ HeldGroup(p)' = members /\ g # members
    BY <1>6, <1>7
  <2>2. /\ g \in Group => HoldCount[g] = HoldCount'[g] + 1
        /\ members \in Group => HoldCount'[members] = HoldCount[members] + 1
        /\ \A x \in Group \ {g, members} : HoldCount'[x] = HoldCount[x]
    BY <1>1, <1>6, <2>1, HoldersMove
  <2> QED BY <1>1, <1>8, <2>2
<1>11. /\ Tables(s, h2)'
       /\ nextHopDB \subseteq nextHopDB' /\ ipNextHopGroupDB \subseteq ipNextHopGroupDB'
  <2>1. CASE g = NoGroup
    <3>1. g \notin Group
      BY <2>1 DEF Group, NoGroup
    <3>2. \A x \in Group \ {members} : h2[x] = h[x]
      BY <1>10, <3>1
    <3> QED BY <1>2, <1>1, <1>7, <1>9, <1>10, <2>1, <3>2, CreateGroupTables
  <2>2. CASE g # NoGroup
    <3>1. g \in Group
      BY <1>1, <1>6, <1>7, <2>2, HeldExists DEF AInv
    <3>2. UpdateNextHopGroup(g, members) /\ g # members
      BY <1>2, <1>6, <1>7, <2>2
    <3> QED BY <1>1, <1>9, <1>10, <3>1, <3>2, UpdateGroupTables
  <2> QED BY <2>1, <2>2
<1>12. NhInv'
  BY <1>8, <1>9, <1>11, NhNext
<1>13. DbInv' /\ ChannelInv'
  BY <1>2, TakeAddSecondDb, QuietAsked, AsicSame DEF AInv
<1>14. hwNextHop \subseteq hwNextHop' /\ hwGroup \subseteq hwGroup'
  BY <1>9, <1>11 DEF Tables
<1>15. RefsInv'
  BY <1>2, <1>11, GroupsGrow DEF AInv, RefsInv, Deleting, Replacing
<1>16. NoDanglingRoute' /\ DoneInv'
  BY <1>1, <1>2, <1>14, DanglingGrows, DoneQuiet DEF AInv, Waiting
<1> QED BY <1>12, <1>13, <1>15, <1>16 DEF AInv

\* The next hop that was alone is in the group by now: it loses a reference but
\* never its entry.
LEMMA DropSingleA ==
  ASSUME AInv, DropSingle
  PROVE  AInv'
<1>0. PICK p : p = cur.prefix
  OBVIOUS
<1>1. /\ pc = "dropSingle" /\ pc' = "program"
      /\ UNCHANGED <<ipRouteDB, nextHopMap, ecmpGrpId, cur, doneChannel, asicCh, hwRoute>>
  BY DEF DropSingle, dbVars, hwVars
<1>2. PICK old \in cur.nhs :
        /\ old \in NextHop /\ DeleteNextHop(old, BusyNextHops)
        /\ p \in Prefix /\ SingleNh(p) = {old} /\ SingleNh(p)' = {}
        /\ HeldGroup(p) = cur.nhs /\ cur.nhs # NoGroup
  BY <1>0, DropSingleHolds DEF AInv
<1>6. /\ \A q \in Prefix \ {p} : SingleNh(q)' = SingleNh(q)
      /\ \A q \in Prefix : HeldGroup(q)' = HeldGroup(q)
  BY <1>0, DropSingleHolds DEF AInv
<1>7. PICK s, h, s2 : s = SingleCount /\ h = HoldCount /\ s2 = SingleCount'
  OBVIOUS
<1>8. h = HoldCount' /\ Counts(s, h) /\ Counts(s2, h) /\ Tables(s, h)
  BY <1>6, <1>7, HoldersSame, HoldingsCounts, HoldingsNext DEF AInv, NhInv
<1>9. s[old] = s2[old] + 1 /\ \A x \in NextHop \ {old} : s2[x] = s[x]
  BY <1>2, <1>6, <1>7, SinglesLess
<1>10. refCount[old] # 1
  <2>1. cur.nhs \in ipNextHopGroupDB /\ old \in cur.nhs
    <3>1. p \in Prefix /\ HeldGroup(p) # NoGroup
      BY <1>2
    <3>2. HeldGroup(p) \in ipNextHopGroupDB
      BY <3>1, HeldExists DEF AInv
    <3> QED BY <1>2, <3>2
  <2>2. Cardinality(Memberships(old)) # 0 /\ Cardinality(Memberships(old)) \in Nat
    BY <1>2, <1>8, <2>1, MembershipsFinite DEF Tables
  <2>3. refCount[old] = s[old] + Cardinality(Memberships(old)) /\ s[old] >= 1 /\ s[old] \in Nat
    BY <1>2, <1>8, <1>9 DEF Tables, Counts
  <2> QED BY <2>2, <2>3
<1>11. /\ Tables(s2, h)' /\ UNCHANGED <<nextHopDB, hwNextHop, ipNextHopGroupDB, hwGroup>>
  BY <1>2, <1>8, <1>9, <1>10, DeleteNextHopTables
<1>12. NhInv'
  BY <1>7, <1>8, <1>11, NhNext
<1>13. DbInv' /\ ChannelInv'
  BY <1>1, StepsDb, QuietAsked, AsicSame DEF AInv
<1>14. RefsInv'
  BY <1>1, <1>11, GroupsGrow DEF AInv, RefsInv, Deleting, Replacing
<1>15. NoDanglingRoute' /\ DoneInv'
  BY <1>1, <1>11, DanglingGrows, DoneQuiet DEF AInv, Waiting
<1> QED BY <1>12, <1>13, <1>14, <1>15 DEF AInv

LEMMA ProgramA ==
  ASSUME OrdinaryOnly, AInv, Program
  PROVE  AInv'
<1>0. PICK p, n : p = cur.prefix /\ n = cur.nh
  OBVIOUS
<1>1. /\ pc = "program" /\ pc' = "idle"
      /\ ipRouteDB' = ipRouteDB \cup {p}
      /\ nextHopMap' = [nextHopMap EXCEPT ![p] = cur.nhs]
      /\ ecmpGrpId' = [ecmpGrpId EXCEPT ![p] = cur.grp]
      /\ UNCHANGED <<nhMgrVars, doneChannel, hwRoute>>
  BY <1>0 DEF Program, hwVars
<1>2. p \in Prefix
  BY <1>0, <1>1 DEF AInv, DbInv, DbType
<1>4. \A q \in Prefix : SingleNh(q)' = SingleNh(q) /\ HeldGroup(q)' = HeldGroup(q)
  BY ProgramHolds DEF AInv
<1>5. NhInv' /\ DbInv'
  BY <1>0, <1>1, <1>4, NhSame, ProgramDb DEF AInv
<1>6. /\ Forwards(cur.target) /\ cur.target \in Target
      /\ (AskedTarget(p) # NoRoute <=> p \in ipRouteDB) /\ AskedTarget(p)' = cur.target
      /\ \A q \in Prefix \ {p} : AskedTarget(q)' = AskedTarget(q)
  BY <1>0, ProgramAsked DEF AInv
<1>7. PICK m : m = AsicMsg("Add", p, cur.target, p \in ipRouteDB, FALSE)
  OBVIOUS
<1>8. /\ m \in Message /\ m.op = "Add" /\ m.prefix = p /\ m.target = cur.target
      /\ m.update <=> p \in ipRouteDB
      /\ ~m.done
  <2>1. (p \in ipRouteDB) \in BOOLEAN
    OBVIOUS
  <2> QED BY <1>2, <1>6, <1>7, <2>1 DEF AsicMsg, Message
<1>9. ToAsic(m) /\ asicCh \in Seq(Message)
  BY <1>0, <1>7 DEF Program, AInv, ChannelInv, ChannelBase
<1>10. ChannelInv'
  BY <1>1, <1>6, <1>8, <1>9, AsicSent DEF AInv
<1>11. NoDanglingRoute'
  <2>1. (DbInv /\ NhInv /\ pc = "idle" => \A q \in Prefix : Exists(AskedTarget(q)))'
    BY IdleExists, PTL
  <2>2. Exists(AskedTarget(p))'
    BY <1>1, <1>2, <1>5, <2>1
  <2>3. PICK t : t = m.target
    OBVIOUS
  <2>4. t = AskedTarget(p)'
    BY <1>6, <1>8, <2>3
  <2>5. Exists(t)'
    BY <2>2, <2>4
  <2>6. UNCHANGED <<hwNextHop, hwGroup>>
    BY <1>1 DEF nhMgrVars
  <2> QED BY <1>1, <1>8, <1>9, <2>3, <2>5, <2>6, DanglingSent DEF AInv
<1>12. RefsInv'
  BY <1>1, <1>5, GroupsIdle
<1>13. DoneInv'
  BY <1>1, <1>8, <1>9, DoneSent DEF AInv, Waiting
<1> QED BY <1>5, <1>10, <1>11, <1>12, <1>13 DEF AInv

LEMMA TakeDelA ==
  ASSUME AInv, TakeDel
  PROVE  AInv'
<1>0. PICK p, n, left, refs :
         /\ p = Head(routeOpChannel).prefix /\ n = Head(routeOpChannel).nh
         /\ left = nextHopMap[p] \ {n} /\ refs = References(p, n)
  OBVIOUS
<1>1. /\ pc = "idle" /\ p \in Prefix /\ n \in NextHop
      /\ \A q \in Prefix : Settled(q) /\ ~Mine(q)
  BY <1>0, TakenOp DEF TakeDel, Operations, AInv
<1>2. /\ p \in ipRouteDB /\ n \in nextHopMap[p]
      /\ nextHopMap' = [nextHopMap EXCEPT ![p] = left]
      /\ cur'.prefix = p /\ cur'.nh = n /\ cur'.refs = refs
      /\ pc' = IF left = {} /\ MustWait(refs) THEN "waitDel" ELSE "release"
      /\ UNCHANGED <<nhMgrVars, ipRouteDB, ecmpGrpId, doneChannel, hwRoute>>
      /\ IF left = {} THEN ToAsic(AsicMsg("Del", p, NoRoute, FALSE, MustWait(refs)))
         ELSE UNCHANGED asicCh
  BY <1>0 DEF TakeDel, Knows, hwVars
<1>3. /\ nextHopMap'[p] = left
      /\ \A q \in Prefix \ {p} : nextHopMap'[q] = nextHopMap[q]
  BY <1>1, <1>2 DEF AInv, DbInv, DbType
<1>5. \A q \in Prefix : SingleNh(q)' = SingleNh(q) /\ HeldGroup(q)' = HeldGroup(q)
  BY TakeDelHolds DEF AInv
<1>6. NhInv' /\ DbInv'
  BY <1>0, <1>2, <1>5, NhSame, TakeDelDb DEF AInv
<1>7. RefsInv'
  <2>1. UNCHANGED <<refCount, grpRefCount, ipNextHopGroupDB>>
    BY <1>2 DEF nhMgrVars
  <2>2. refs = IF ecmpGrpId[p] = NoGroup THEN refCount[n] ELSE grpRefCount[ecmpGrpId[p]]
    BY <1>0 DEF References
  <2>3. (cur.refs = References(cur.prefix, cur.nh))'
    BY <1>2, <2>1, <2>2 DEF References
  <2>4. RouteGroupsKnown'
    BY <1>2, <2>1, GroupsGrow DEF AInv, RefsInv
  <2>5. ~Replacing'
    BY <1>2 DEF Replacing
  <2> QED BY <2>3, <2>4, <2>5 DEF RefsInv
<1>8. asicCh \in Seq(Message)
  BY DEF AInv, ChannelInv, ChannelBase
<1>9. ChannelInv' /\ NoDanglingRoute' /\ DoneInv'
  <2>1. CASE left = {}
    <3>1. PICK m : m = AsicMsg("Del", p, NoRoute, FALSE, MustWait(refs))
      OBVIOUS
    <3>2. NoRoute \in Target /\ MustWait(refs) \in BOOLEAN
      BY DEF NoRoute, Target, MustWait
    <3>3. /\ m \in Message /\ m.op = "Del" /\ m.prefix = p /\ m.target = NoRoute
          /\ m.done <=> MustWait(refs)
      BY <1>1, <3>1, <3>2 DEF AsicMsg, Message
    <3>4. ToAsic(m)
      BY <1>2, <2>1, <3>1
    <3>5. AskedTarget(p)' = NoRoute /\ \A q \in Prefix \ {p} : AskedTarget(q)' = AskedTarget(q)
      BY <1>0, <1>3, <2>1, TakeDelAsked DEF AInv
    <3>6. ChannelInv'
      BY <1>2, <3>3, <3>4, <3>5, AsicSent DEF AInv
    <3>7. NoDanglingRoute'
      <4>1. Exists(m.target)' /\ UNCHANGED <<hwNextHop, hwGroup>>
        BY <1>2, <3>3 DEF Exists, NoRoute, nhMgrVars
      <4> QED BY <1>2, <1>8, <3>3, <3>4, <4>1, DanglingSent DEF AInv
    <3>8. DoneInv'
      <4>1. Waiting' <=> MustWait(refs)
        BY <1>2, <2>1 DEF Waiting
      <4>2. ~(pc' = "release" /\ cur'.refs <= 1)
        BY <1>2, <2>1 DEF MustWait
      <4> QED BY <1>1, <1>2, <1>8, <3>3, <3>4, <4>1, <4>2, DoneSent DEF AInv, Waiting
    <3> QED BY <3>6, <3>7, <3>8
  <2>2. CASE left # {}
    <3>1. \A q \in Prefix : AskedTarget(q)' = AskedTarget(q)
      BY <1>0, <1>3, <2>2, QuietAsked DEF AInv
    <3>2. UNCHANGED <<asicCh, hwNextHop, hwGroup>>
      BY <1>2, <2>2 DEF nhMgrVars
    <3>3. ChannelInv' /\ NoDanglingRoute'
      BY <1>2, <3>1, <3>2, AsicSame, DanglingGrows DEF AInv
    <3>4. DoneInv'
      BY <1>1, <1>2, <1>3, <2>2, <3>2 DEF AInv, DoneInv, Waiting
    <3> QED BY <3>3, <3>4
  <2> QED BY <2>1, <2>2
<1> QED BY <1>6, <1>7, <1>9 DEF AInv

LEMMA WaitDelA ==
  ASSUME AInv, WaitDel
  PROVE  AInv'
<1>1. /\ pc = "waitDel" /\ pc' = "release" /\ doneChannel > 0 /\ doneChannel' = doneChannel - 1
      /\ UNCHANGED <<nhMgrVars, ipRouteDB, nextHopMap, ecmpGrpId, cur, asicCh, hwRoute>>
  BY DEF WaitDel, dbVars, hwVars
<1>2. asicCh = <<>> /\ doneChannel = 1
  BY <1>1 DEF AInv, DoneInv
<1>3. \A q \in Prefix : SingleNh(q)' = SingleNh(q) /\ HeldGroup(q)' = HeldGroup(q)
  BY <1>1 DEF SingleNh, HeldGroup, Mine, Deleting, Adding
<1>4. NhInv' /\ DbInv' /\ ChannelInv'
  BY <1>1, <1>3, NhSame, StepsDb, QuietAsked, AsicSame DEF AInv
<1>5. UNCHANGED <<refCount, grpRefCount, ipNextHopGroupDB, hwNextHop, hwGroup>>
  BY <1>1 DEF nhMgrVars
<1>6. RefsInv'
  BY <1>1, <1>5, GroupsGrow DEF AInv, RefsInv, Deleting, Replacing, References
<1>7. NoDanglingRoute'
  BY <1>1, <1>5, DanglingGrows DEF AInv
<1>8. DoneInv'
  BY <1>1, <1>2 DEF DoneInv, Waiting
<1> QED BY <1>4, <1>6, <1>7, <1>8 DEF AInv

\* The last next hop is released.  When the handler read a last reference it has
\* waited for the ASIC, and nothing there uses what goes.
LEMMA ReleaseLastA ==
  ASSUME OrdinaryOnly, AInv, ReleaseLast
  PROVE  AInv'
<1>0. PICK p, n, g : p = cur.prefix /\ n = cur.nh /\ g = ecmpGrpId[p]
  OBVIOUS
<1>1. /\ pc = "release" /\ pc' = "idle" /\ nextHopMap[p] = {}
      /\ UNCHANGED <<nextHopMap, doneChannel, asicCh, hwRoute>>
      /\ IF g = NoGroup THEN DeleteNextHop(n, BusyNextHops)
         ELSE DeleteNextHopGroup(g, BusyNextHops, BusyGroups)
  BY <1>0, ReleaseLastHolds DEF AInv
<1>2. p \in Prefix /\ n \in NextHop /\ cur.refs = References(p, n)
  BY <1>0, <1>1 DEF AInv, DbInv, DbType, Deleting, RefsInv
<1>4. /\ \A q \in Prefix \ {p} : SingleNh(q)' = SingleNh(q) /\ HeldGroup(q)' = HeldGroup(q)
      /\ HeldGroup(p) = g /\ HeldGroup(p)' = NoGroup
      /\ SingleNh(p) = (IF g = NoGroup THEN {n} ELSE {}) /\ SingleNh(p)' = {}
  BY <1>0, ReleaseLastHolds DEF AInv
<1>5. PICK s, h, s2, h2 : s = SingleCount /\ h = HoldCount /\ s2 = SingleCount' /\ h2 = HoldCount'
  OBVIOUS
<1>6. Counts(s, h) /\ Counts(s2, h2) /\ Tables(s, h)
  BY <1>5, HoldingsCounts, HoldingsNext DEF AInv, NhInv
<1>7. asicCh = <<>> =>
        /\ \A ip \in BusyNextHops : \E q \in Prefix : q # p /\ ip \in SingleNh(q)
        /\ \A x \in BusyGroups : \E q \in Prefix : q # p /\ HeldGroup(q) = x
  BY <1>0, <1>1, BusyHeld DEF AInv, ChannelInv
<1>8. /\ Tables(s2, h2)'
      /\ asicCh # <<>> => UNCHANGED <<hwNextHop, hwGroup>>
  <2>1. CASE g = NoGroup
    <3>1. cur.refs = refCount[n]
      BY <1>0, <1>2, <2>1 DEF References
    <3>2. refCount[n] = 1 => asicCh = <<>>
      BY <1>0, <1>1, <3>1 DEF AInv, DoneInv
    <3>3. s[n] = s2[n] + 1 /\ \A x \in NextHop \ {n} : s2[x] = s[x]
      BY <1>2, <1>4, <1>5, <2>1, SinglesLess
    <3>4. \A q \in Prefix : HeldGroup(q)' = HeldGroup(q)
      BY <1>4, <2>1
    <3>5. h2 = h
      BY <1>5, <3>4, HoldersSame
    <3>6. refCount[n] = 1 => n \notin BusyNextHops
      <4> SUFFICES ASSUME refCount[n] = 1 PROVE n \notin BusyNextHops
        OBVIOUS
      <4>1. s[n] = 1
        <5>1. refCount[n] >= s[n] /\ s[n] \in Nat /\ s2[n] \in Nat
          BY <1>2, <1>6, TablesNat DEF Counts
        <5> QED BY <3>3, <5>1
      <4>2. Singles(n) = {p}
        <5>1. p \in Singles(n)
          BY <1>2, <1>4, <2>1 DEF Singles
        <5> QED BY <1>2, <1>5, <4>1, <5>1, OnlySingle
      <4>3. \A q \in Prefix : n \in SingleNh(q) => q = p
        BY <4>2 DEF Singles
      <4> QED BY <1>7, <3>2, <4>3
    <3>7. Tables(s2, h)' /\ UNCHANGED hwGroup /\ (refCount[n] # 1 => UNCHANGED hwNextHop)
      BY <1>1, <1>2, <1>6, <2>1, <3>3, <3>5, <3>6, DeleteNextHopTables
    <3> QED BY <3>2, <3>5, <3>7
  <2>2. CASE g # NoGroup
    <3>1. g \in Group /\ h[g] >= 1
      BY <1>2, <1>4, <1>5, <2>2, HeldExists DEF AInv
    <3>2. cur.refs = grpRefCount[g] /\ grpRefCount[g] >= h[g]
      BY <1>0, <1>2, <1>6, <2>2, <3>1 DEF References, Tables
    <3>3. grpRefCount[g] = 1 => asicCh = <<>>
      BY <1>0, <1>1, <3>2 DEF AInv, DoneInv
    <3>4. \A q \in Prefix : SingleNh(q)' = SingleNh(q)
      BY <1>4, <2>2
    <3>5. s2 = s
      BY <1>5, <3>4, SinglesSame
    <3>6. h[g] = h2[g] + 1 /\ \A x \in Group \ {g} : h2[x] = h[x]
      <4>1. NoGroup \notin Group
        BY DEF Group, NoGroup
      <4>2. /\ g \in Group => HoldCount[g] = HoldCount'[g] + 1
            /\ \A x \in Group \ {g, NoGroup} : HoldCount'[x] = HoldCount[x]
        BY <1>2, <1>4, <2>2, <3>1, HoldersMove
      <4> QED BY <1>5, <2>2, <3>1, <4>1, <4>2
    <3>7. h[g] \in Nat /\ h2[g] \in Nat /\ grpRefCount[g] \in Nat
      BY <1>6, <3>1, TablesNat DEF Counts
    <3>8. grpRefCount[g] = 1 => g \notin BusyGroups /\ \A ip \in g : s[ip] = 0 => ip \notin BusyNextHops
      <4> SUFFICES ASSUME grpRefCount[g] = 1
                   PROVE  g \notin BusyGroups /\ \A ip \in g : s[ip] = 0 => ip \notin BusyNextHops
        OBVIOUS
      <4>1. Holders(g) = {p}
        <5>1. p \in Holders(g) /\ h[g] <= 1
          BY <1>2, <1>4, <3>2, <3>7 DEF Holders
        <5> QED BY <1>5, <3>1, <5>1, OnlyHolder
      <4>2. g \notin BusyGroups
        BY <1>7, <3>3, <4>1 DEF Holders
      <4>3. ASSUME NEW ip \in g, s[ip] = 0
            PROVE  ip \notin BusyNextHops
        <5>1. \A q \in Prefix : ip \notin SingleNh(q)
          BY <1>5, <4>3, HeldExists DEF AInv
        <5> QED BY <1>7, <3>3, <5>1
      <4> QED BY <4>2, <4>3
    <3>9. Tables(s, h2)' /\ (grpRefCount[g] # 1 => UNCHANGED <<hwNextHop, hwGroup>>)
      <4>1. grpRefCount[g] >= 1 /\ h2[g] <= grpRefCount[g] - 1
        BY <3>1, <3>2, <3>6, <3>7
      <4>2. DeleteNextHopGroup(g, BusyNextHops, BusyGroups)
        BY <1>1, <2>2
      <4> QED BY <1>6, <3>1, <3>5, <3>6, <3>8, <4>1, <4>2, DeleteGroupTables
    <3> QED BY <3>3, <3>5, <3>9
  <2> QED BY <2>1, <2>2
<1>9. NhInv' /\ DbInv'
  BY <1>0, <1>5, <1>8, NhNext, EndsDb DEF AInv
<1>10. \A q \in Prefix : AskedTarget(q)' = AskedTarget(q)
  BY QuietAsked DEF AInv
<1>11. ChannelInv'
  BY <1>1, <1>10, AsicSame DEF AInv
<1>12. NoDanglingRoute'
  BY <1>1, <1>8, <1>9, <1>10, DanglingIdle, DanglingGrows DEF AInv
<1>13. RefsInv' /\ DoneInv'
  BY <1>1, <1>9, GroupsIdle, DoneQuiet DEF AInv, Waiting
<1> QED BY <1>9, <1>11, <1>12, <1>13 DEF AInv

LEMMA HeldKnown ==
  DbInv /\ NhInv => \A q \in Prefix : HeldGroup(q) # NoGroup => HeldGroup(q) \in ipNextHopGroupDB
BY HeldExists

LEMMA ReplaceGroupA ==
  ASSUME AInv, ReplaceGroup
  PROVE  AInv'
<1>0. PICK p, n, g, members : p = cur.prefix /\ n = cur.nh /\ g = ecmpGrpId[p] /\ members = nextHopMap[p]
  OBVIOUS
<1>1. /\ pc = "release" /\ pc' = "waitUpd"
      /\ UpdateNextHopGroup(g, members)
      /\ ToAsic(AsicMsg("Add", p, GroupTarget(members), TRUE, TRUE))
      /\ UNCHANGED <<ipRouteDB, nextHopMap, ecmpGrpId, cur, doneChannel, hwRoute>>
  BY <1>0 DEF ReplaceGroup, dbVars, hwVars
<1>2. /\ p \in Prefix /\ members # {} /\ members \subseteq NextHop
      /\ n \notin members /\ g = members \cup {n} /\ g # NoGroup
      /\ AskedTarget(p) # NoRoute
      /\ AskedTarget(p)' = GroupTarget(members)
      /\ \A q \in Prefix \ {p} : AskedTarget(q)' = AskedTarget(q)
  BY <1>0, ReplaceGroupAsked DEF AInv
<1>3. Mine(p) /\ cur.refs = grpRefCount[g]
  BY <1>0, <1>1, <1>2 DEF AInv, RefsInv, References, Deleting, Mine
<1>4. /\ \A q \in Prefix : SingleNh(q)' = SingleNh(q)
      /\ \A q \in Prefix \ {p} : HeldGroup(q)' = HeldGroup(q)
      /\ HeldGroup(p) = g /\ HeldGroup(p)' = members /\ g # members
  BY <1>0, ReplaceGroupHolds DEF AInv
<1>5. PICK s, h, h2 : s = SingleCount /\ h = HoldCount /\ h2 = HoldCount'
  OBVIOUS
<1>6. s = SingleCount' /\ Counts(s, h) /\ Counts(s, h2) /\ Tables(s, h)
  BY <1>4, <1>5, SinglesSame, HoldingsCounts, HoldingsNext DEF AInv, NhInv
<1>7. g \in Group /\ h[g] >= 1 /\ members \in Group
  <2>1. members \in Group
    BY <1>2 DEF Group
  <2> QED BY <1>2, <1>4, <1>5, <2>1, HeldExists DEF AInv
<1>8. /\ h[g] = h2[g] + 1 /\ h2[members] = h[members] + 1
      /\ \A x \in Group \ {g, members} : h2[x] = h[x]
      /\ Holders(g)' = Holders(g) \ {p}
  <2>1. /\ g \in Group => HoldCount[g] = HoldCount'[g] + 1
        /\ members \in Group => HoldCount'[members] = HoldCount[members] + 1
        /\ Holders(g)' = Holders(g) \ {p}
        /\ \A x \in Group \ {g, members} : HoldCount'[x] = HoldCount[x]
    BY <1>2, <1>4, HoldersMove
  <2> QED BY <1>5, <1>7, <2>1
<1>9. /\ Tables(s, h2)'
      /\ nextHopDB \subseteq nextHopDB' /\ ipNextHopGroupDB \subseteq ipNextHopGroupDB'
      /\ grpRefCount[g] = 1 => grpRefCount'[g] = 1
  BY <1>1, <1>4, <1>6, <1>7, <1>8, UpdateGroupTables
<1>10. NhInv' /\ DbInv'
  BY <1>5, <1>6, <1>9, NhNext, StepsDb DEF AInv
<1>11. hwNextHop \subseteq hwNextHop' /\ hwGroup \subseteq hwGroup' /\ members \in hwGroup'
  <2>1. (DbInv /\ NhInv => \A q \in Prefix : HeldGroup(q) # NoGroup => HeldGroup(q) \in ipNextHopGroupDB)'
    BY HeldKnown, PTL
  <2>2. HeldGroup(p)' # NoGroup
    BY <1>2, <1>4 DEF NoGroup
  <2>3. members \in ipNextHopGroupDB'
    BY <1>2, <1>4, <1>10, <2>1, <2>2
  <2> QED BY <1>6, <1>9, <2>3 DEF Tables
<1>12. RefsInv'
  <2>1. RouteGroupsKnown'
    BY <1>1, <1>9, GroupsGrow DEF AInv
  <2>2. ASSUME cur.refs = 1
        PROVE  grpRefCount'[g] = 1 /\ Holders(g)' = {}
    <3>1. grpRefCount[g] = 1 /\ h[g] <= 1
      BY <1>3, <1>6, <1>7, <2>2 DEF Tables
    <3>2. p \in Holders(g)
      BY <1>2, <1>4 DEF Holders
    <3>3. Holders(g) = {p}
      BY <1>5, <1>7, <3>1, <3>2, OnlyHolder
    <3> QED BY <1>8, <1>9, <3>1, <3>3
  <2> QED BY <1>0, <1>1, <2>1, <2>2 DEF RefsInv, Deleting, Replacing
<1>13. PICK m : m = AsicMsg("Add", p, GroupTarget(members), TRUE, TRUE)
  OBVIOUS
<1>14. /\ m \in Message /\ m.op = "Add" /\ m.prefix = p /\ m.target = GroupTarget(members)
       /\ m.update /\ m.done /\ ToAsic(m) /\ Forwards(m.target)
  <2>1. GroupTarget(members) \in Target /\ Forwards(GroupTarget(members))
    BY <1>2 DEF GroupTarget, Target, Forwards
  <2> QED BY <1>1, <1>2, <1>13, <2>1 DEF AsicMsg, Message
<1>15. ChannelInv' /\ asicCh \in Seq(Message)
  BY <1>1, <1>2, <1>14, AsicSent DEF AInv, ChannelInv, ChannelBase
<1>16. NoDanglingRoute'
  <2>1. Exists(m.target)'
    BY <1>11, <1>14 DEF Exists, GroupTarget
  <2> QED BY <1>1, <1>11, <1>14, <1>15, <2>1, DanglingSent DEF AInv
<1>17. DoneInv'
  BY <1>1, <1>14, <1>15, DoneSent DEF AInv, Waiting
<1> QED BY <1>10, <1>12, <1>15, <1>16, <1>17 DEF AInv

\* The ASIC has followed: the replaced group goes if the prefix was its last.
LEMMA WaitUpdA ==
  ASSUME AInv, WaitUpd
  PROVE  AInv'
<1>0. PICK p, g : p = cur.prefix /\ g = ecmpGrpId[p]
  OBVIOUS
<1>1. /\ pc = "waitUpd" /\ pc' = "idle" /\ doneChannel > 0 /\ doneChannel' = doneChannel - 1
      /\ ecmpGrpId' = [ecmpGrpId EXCEPT ![p] = nextHopMap[p]]
      /\ UNCHANGED <<ipRouteDB, nextHopMap, asicCh, hwRoute>>
      /\ IF cur.refs = 1 THEN DeleteNextHopGroup(g, BusyNextHops, BusyGroups)
         ELSE UNCHANGED nhMgrVars
  BY <1>0 DEF WaitUpd, hwVars
<1>2. asicCh = <<>> /\ doneChannel = 1
  BY <1>1 DEF AInv, DoneInv
<1>3. /\ p \in Prefix /\ Mine(p) /\ nextHopMap[p] # {} /\ g # NoGroup /\ g \subseteq NextHop
      /\ cur.refs = 1 => grpRefCount[g] = 1 /\ Holders(g) = {}
  BY <1>0, <1>1 DEF AInv, DbInv, DbType, JobInv, Replacing, Mine, RefsInv
<1>4. g \in Group
  <2>1. g # {}
    BY <1>3 DEF NoGroup
  <2> QED BY <1>3, <2>1 DEF Group
<1>6. \A q \in Prefix : SingleNh(q)' = SingleNh(q) /\ HeldGroup(q)' = HeldGroup(q)
  BY WaitUpdHolds DEF AInv
<1>7. PICK s, h : s = SingleCount /\ h = HoldCount
  OBVIOUS
<1>8. s = SingleCount' /\ h = HoldCount' /\ Counts(s, h) /\ Tables(s, h)
  BY <1>6, <1>7, SinglesSame, HoldersSame, HoldingsCounts DEF AInv, NhInv
<1>9. Tables(s, h)'
  <2>1. CASE cur.refs # 1
    BY <1>1, <1>8, <2>1, TablesSame
  <2>2. CASE cur.refs = 1
    <3>1. h[g] = 0
      BY <1>3, <1>4, <1>7, <2>2, FS_EmptySet DEF HoldCount
    <3>2. g \notin BusyGroups
      <4>1. \A q \in Prefix : HeldGroup(q) # g
        BY <1>3, <2>2 DEF Holders
      <4> QED BY <1>1, <1>2, <4>1, BusyHeld DEF AInv, ChannelInv
    <3>3. ASSUME NEW ip \in g, s[ip] = 0
          PROVE  ip \notin BusyNextHops
      <4>1. \A q \in Prefix : ip \notin SingleNh(q)
        BY <1>7, <3>3, HeldExists DEF AInv
      <4> QED BY <1>1, <1>2, <4>1, BusyHeld DEF AInv, ChannelInv
    <3>4. /\ DeleteNextHopGroup(g, BusyNextHops, BusyGroups)
          /\ grpRefCount[g] = 1 /\ h[g] <= grpRefCount[g] - 1
      BY <1>1, <1>3, <2>2, <3>1
    <3> QED BY <1>4, <1>8, <3>2, <3>3, <3>4, DeleteGroupTables
  <2> QED BY <2>1, <2>2
<1>10. NhInv' /\ DbInv'
  BY <1>8, <1>9, NhNext, EndsDb DEF AInv
<1>11. \A q \in Prefix : AskedTarget(q)' = AskedTarget(q)
  BY QuietAsked DEF AInv
<1>12. ChannelInv' /\ NoDanglingRoute'
  BY <1>1, <1>2, <1>10, <1>11, AsicSame, DanglingIdle DEF AInv
<1>13. RefsInv'
  BY <1>1, <1>10, GroupsIdle
<1>14. DoneInv'
  BY <1>1, <1>2 DEF DoneInv, Waiting
<1> QED BY <1>10, <1>12, <1>13, <1>14 DEF AInv

LEMMA AsicServerA ==
  ASSUME AInv, AsicServer
  PROVE  AInv'
<1>1. /\ UNCHANGED <<nhMgrVars, routeOpChannel, ipRouteDB, nextHopMap, ecmpGrpId, pc, cur>>
  BY DEF AsicServer, dbVars
<1>2. DbInv'
  BY <1>1, DbSame DEF AInv, DbInv, DbType
<1>3. NhInv'
  BY <1>1, SameHoldings, NhSame DEF AInv
<1>4. RefsInv'
  <2>1. \A g : Holders(g)' = Holders(g)
    BY <1>1, SameHoldings DEF Holders
  <2> QED BY <1>1, <2>1 DEF AInv, RefsInv, RouteGroupsKnown, References, Deleting, Replacing, nhMgrVars
<1>5. ChannelInv' /\ NoDanglingRoute'
  BY AsicServe DEF AInv
<1>6. DoneInv'
  BY DoneServed DEF AInv, ChannelInv
<1> QED BY <1>2, <1>3, <1>4, <1>5, <1>6 DEF AInv

-----------------------------------------------------------------------------
(***************************************************************************)
(* The whole system.                                                       *)
(***************************************************************************)
LEMMA AskedNhs ==
  ASSUME NEW q
  PROVE  AskedTarget(q).nhs = Asked(q)
<1>1. CASE Asked(q) = {}
  BY <1>1 DEF AskedTarget, NoRoute
<1>2. CASE Asked(q) # {}
  BY <1>2 DEF AskedTarget, GroupTarget
<1> QED BY <1>1, <1>2

LEMMA InitA == Init => AInv
<1> SUFFICES ASSUME Init PROVE AInv
  OBVIOUS
<1>1. /\ ipRouteDB = {} /\ pc = "idle" /\ asicCh = <<>> /\ doneChannel = 0
      /\ nextHopMap = [p \in Prefix |-> {}] /\ ecmpGrpId = [p \in Prefix |-> NoGroup]
      /\ hwRoute = [p \in Prefix |-> NoRoute]
  BY DEF Init, RouteInit
<1>2. /\ nextHopDB = {} /\ ipNextHopGroupDB = {} /\ hwNextHop = {} /\ hwGroup = {}
      /\ refCount = [ip \in NextHop |-> 0] /\ grpRefCount = [g \in Group |-> 0]
  BY DEF Init, NHMgrInit
<1>3. DbInv
  BY InitDb
<1>4. NhInv
  <2>1. \A p \in Prefix : SingleNh(p) = {} /\ HeldGroup(p) = NoGroup
    BY <1>1 DEF SingleNh, HeldGroup, Mine
  <2>2. \A ip \in NextHop : Singles(ip) = {} /\ Memberships(ip) = {}
    BY <1>2, <2>1 DEF Singles, Memberships
  <2>3. \A g \in Group : Holders(g) = {}
    BY <2>1 DEF Holders, Group, NoGroup
  <2>4. /\ \A ip \in NextHop : SingleCount[ip] = 0 /\ Cardinality(Memberships(ip)) = 0
        /\ \A g \in Group : HoldCount[g] = 0
    BY <2>2, <2>3, FS_EmptySet DEF SingleCount, HoldCount
  <2> QED BY <1>2, <2>4 DEF NhInv, Tables, NHMgrTypeOK
<1>5. RefsInv
  BY <1>1 DEF RefsInv, RouteGroupsKnown, Deleting, Replacing
<1>6. ChannelInv
  <2>1. Len(AsicKeyOf) = 0 /\ DOMAIN asicCh = {} /\ asicCh \in Seq(Message)
    BY <1>1, EmptySeq DEF AsicKeyOf
  <2>2. 0 .. Len(AsicKeyOf) = {0} /\ 1 .. Len(AsicKeyOf) = {}
    BY <2>1
  <2>3. \A p \in Prefix : AsicAfter(p, 0) = AskedTarget(p)
    BY <1>1 DEF AsicAfter, AskedTarget, Asked, Mine, Replacing
  <2>4. \A p \in Prefix : Before(AsicKeyOf, p, 0, 0 + 1)
    BY BeforeFirst
  <2>5. hwRoute \in [Prefix -> Target] /\ \A p \in Prefix : hwRoute[p] = NoRoute
    BY <1>1 DEF Target, NoRoute
  <2> QED BY <2>1, <2>2, <2>3, <2>4, <2>5 DEF ChannelInv, ChannelBase, Marked
<1>7. NoDanglingRoute
  BY <1>1 DEF NoDanglingRoute, Exists, NoRoute
<1>8. DoneInv
  BY <1>1 DEF DoneInv, Waiting
<1> QED BY <1>3, <1>4, <1>5, <1>6, <1>7, <1>8 DEF AInv

\* What does not concern the handler: a call is queued or dropped, the kernel
\* and the key list move on.
LEMMA OthersA ==
  ASSUME AInv,
         \/ \E p \in Prefix, nh \in NextHop : CreateIPRoute(p, nh) \/ DeleteIPRoute(p, nh)
         \/ TakeNoOp \/ LinuxServer \/ KeyServer \/ UNCHANGED vars
  PROVE  AInv'
<1>0. routeOpChannel \in Seq(Operations)
  BY DEF AInv, DbInv, DbType
<1>1. UNCHANGED <<nhMgrVars, dbVars, pc, cur, doneChannel, asicCh, hwRoute>>
  BY DEF CreateIPRoute, DeleteIPRoute, QueueOp, TakeNoOp, LinuxServer, KeyServer, vars,
         routeVars, hwVars
<1>2. routeOpChannel' \in Seq(Operations)
  <2>1. ASSUME NEW p \in Prefix, NEW nh \in NextHop, CreateIPRoute(p, nh) \/ DeleteIPRoute(p, nh)
        PROVE  routeOpChannel' \in Seq(Operations)
    <3>1. PICK op \in {"Add", "Del"} : QueueOp(op, p, nh)
      BY <2>1 DEF CreateIPRoute, DeleteIPRoute
    <3>2. PICK x : x = [op |-> op, prefix |-> p, nh |-> nh]
      OBVIOUS
    <3>3. x \in Operations /\ routeOpChannel' = Append(routeOpChannel, x)
      BY <3>1, <3>2 DEF QueueOp, Operations
    <3> QED BY <1>0, <3>3, AppendProperties
  <2>2. CASE TakeNoOp
    <3>1. Takes("Add") \/ Takes("Del")
      BY <2>2 DEF TakeNoOp
    <3> QED BY <3>1, TakenOp DEF AInv
  <2>3. CASE LinuxServer \/ KeyServer \/ UNCHANGED vars
    BY <1>0, <2>3 DEF LinuxServer, KeyServer, vars, routeVars
  <2> QED BY <2>1, <2>2, <2>3
<1>3. DbInv'
  BY <1>1, <1>2, DbSame DEF AInv, dbVars
<1> QED BY <1>1, <1>3, QuietA

LEMMA NextA ==
  ASSUME OrdinaryOnly, AInv, [Next]_vars
  PROVE  AInv'
<1>1. CASE TakeAddFirst \/ TakeAddSecond \/ TakeAddMore \/ DropSingle \/ Program
  BY <1>1, TakeAddFirstA, TakeAddSecondA, DropSingleA, ProgramA
<1>2. CASE TakeDel \/ WaitDel \/ ReleaseLast \/ ReplaceGroup \/ WaitUpd
  BY <1>2, TakeDelA, WaitDelA, ReleaseLastA, ReplaceGroupA, WaitUpdA
<1>3. CASE AsicServer
  BY <1>3, AsicServerA
<1>4. CASE \/ \E p \in Prefix, nh \in NextHop : CreateIPRoute(p, nh) \/ DeleteIPRoute(p, nh)
           \/ TakeNoOp \/ LinuxServer \/ KeyServer \/ UNCHANGED vars
  BY <1>4, OthersA
<1> QED BY <1>1, <1>2, <1>3, <1>4 DEF Next, Handler

\* The next hop tables, the database and the ASIC's channel stay consistent.
THEOREM RouteReferences ==
  ASSUME OrdinaryOnly
  PROVE  Spec => []AInv
<1>1. AInv /\ [Next]_vars => AInv'
  BY NextA
<1> QED BY InitA, <1>1, PTL DEF Spec

\* The handler never lets go of a next hop or a group before the ASIC, and what
\* is queued for it, has stopped needing it ("Determine nh ref count/nhGroup ref
\* count to determine if we have to block on route del call", routeMgr.go:520).
THEOREM NoRouteDangles ==
  ASSUME OrdinaryOnly
  PROVE  Spec => []NoDanglingRoute
<1>1. AInv => NoDanglingRoute
  BY DEF AInv
<1> QED BY <1>1, RouteReferences, PTL

\* The group a route refers to is in the group table, which UpdateNextHopGroup
\* reads without checking (nexthopMgr.go:425).
THEOREM RouteGroupsAreKnown ==
  ASSUME OrdinaryOnly
  PROVE  Spec => []RouteGroupsKnown
<1>1. AInv => RouteGroupsKnown
  BY DEF AInv, RefsInv
<1> QED BY <1>1, RouteReferences, PTL

\* Between operations a next hop counts the routes that have it alone and the
\* groups it is in, and a group counts no fewer than the routes that use it.
THEOREM RouteCountsAreExact ==
  ASSUME OrdinaryOnly
  PROVE  Spec => []RouteCountsExact
<1>1. AInv => RouteCountsExact
  <2> SUFFICES ASSUME AInv, pc = "idle"
               PROVE  /\ \A ip \in NextHop : refCount[ip] =
                           Cardinality(SingleUsers(ip)) + Cardinality(Memberships(ip))
                      /\ \A g \in Group : grpRefCount[g] >= Cardinality(GroupUsers(g))
    BY DEF RouteCountsExact, Idle
  <2>1. \A p \in Prefix : ~Mine(p) /\ Settled(p)
    BY DEF AInv, DbInv, Mine
  <2>2. ipRouteDB \subseteq Prefix
    BY DEF AInv, DbInv, DbType
  <2>3. ASSUME NEW ip \in NextHop
        PROVE  refCount[ip] = Cardinality(SingleUsers(ip)) + Cardinality(Memberships(ip))
    <3>1. Singles(ip) = SingleUsers(ip)
      <4>1. \A p \in Prefix : p \in Singles(ip) <=> p \in SingleUsers(ip)
        BY <2>1 DEF Singles, SingleUsers, SingleNh, Settled, Serves, NoGroup
      <4> QED BY <2>2, <4>1 DEF Singles, SingleUsers
    <3>2. refCount[ip] = SingleCount[ip] + Cardinality(Memberships(ip))
      BY DEF AInv, NhInv, Tables
    <3> QED BY <3>1, <3>2 DEF SingleCount
  <2>4. ASSUME NEW g \in Group
        PROVE  grpRefCount[g] >= Cardinality(GroupUsers(g))
    <3>1. GroupUsers(g) \subseteq Holders(g)
      BY <2>1, <2>2 DEF GroupUsers, Holders, HeldGroup
    <3>2. IsFiniteSet(Holders(g))
      BY PrefixAssumption, FS_Subset DEF Holders
    <3>3. /\ Cardinality(GroupUsers(g)) <= Cardinality(Holders(g))
          /\ Cardinality(GroupUsers(g)) \in Nat /\ Cardinality(Holders(g)) \in Nat
      BY <3>1, <3>2, FS_Subset, FS_CardinalityType
    <3>4. grpRefCount[g] >= Cardinality(Holders(g)) /\ grpRefCount[g] \in Int
      BY DEF AInv, NhInv, Tables, HoldCount, NHMgrTypeOK
    <3> QED BY <3>3, <3>4
  <2> QED BY <2>3, <2>4
<1> QED BY <1>1, RouteReferences, PTL

\* Once its queue is drained the ASIC has, for every prefix, exactly the next
\* hops of the route database.
THEOREM AsicFollowsDb ==
  ASSUME OrdinaryOnly
  PROVE  Spec => []AsicAgrees
<1>1. AInv => AsicAgrees
  <2> SUFFICES ASSUME AInv, pc = "idle", asicCh = <<>>, NEW p \in Prefix
               PROVE  hwRoute[p].nhs = nextHopMap[p]
    BY DEF AsicAgrees, Idle
  <2>1. hwRoute[p] = AskedTarget(p)
    BY Drained DEF AInv, ChannelInv
  <2>2. Asked(p) = nextHopMap[p]
    BY DEF Asked, Mine
  <2> QED BY <2>1, <2>2, AskedNhs
<1> QED BY <1>1, RouteReferences, PTL

-----------------------------------------------------------------------------
(***************************************************************************)
(* The ASIC implements Fib, step by step.                                  *)
(***************************************************************************)
\* What the prefix was asked to have last, as Fib reads it off the channel.
LEMMA AskedLatest ==
  ASSUME AInv, NEW q \in Prefix
  PROVE  FibOf!Latest(q, Asked(q))
<1>0. PICK n : n = Len(asicCh)
  OBVIOUS
<1>1. /\ Len(AsicKeyOf) = n /\ n \in Nat /\ DOMAIN asicCh = 1 .. n
      /\ \A i \in 1 .. n : AsicKeyOf[i] = asicCh[i].prefix
  BY <1>0, AsicSeq DEF AInv, ChannelInv
<1>2. PICK i \in 0 .. n : Before(AsicKeyOf, q, i, n + 1)
  BY <1>1 DEF AInv, ChannelInv, ChannelBase
<1>3. AsicAfter(q, i) = AskedTarget(q)
  BY <1>1, <1>2 DEF AInv, ChannelInv, ChannelBase
<1>4. AsicAfter(q, i).nhs = Asked(q)
  BY <1>3, AskedNhs
<1>5. Len(Submitted) = n /\ \A j \in 1 .. n : Submitted[j].prefix = AsicKeyOf[j] /\ Submitted[j].nhs = asicCh[j].target.nhs
  BY <1>1 DEF Submitted
<1>6. i \in 1 .. n \/ i = 0
  BY <1>1
<1>7. FibOf!LastOf(q, i)
  <2>1. \A j \in i + 1 .. n : j \in i + 1 .. (n + 1) - 1 /\ j \in 1 .. n
    BY <1>1
  <2>2. i = 0 \/ Submitted[i].prefix = q
    BY <1>1, <1>2, <1>5, <1>6 DEF Before
  <2> QED BY <1>2, <1>5, <2>1, <2>2 DEF FibOf!LastOf, Before
<1>8. Asked(q) = IF i = 0 THEN [p \in Prefix |-> hwRoute[p].nhs][q] ELSE Submitted[i].nhs
  BY <1>4, <1>5, <1>6 DEF AsicAfter
<1> QED BY <1>2, <1>5, <1>7, <1>8 DEF FibOf!Latest

Submission == [prefix : Prefix, nhs : SUBSET NextHop]
SubmissionOf(m) == [prefix |-> m.prefix, nhs |-> m.target.nhs]

LEMMA SubmittedSeq ==
  ASSUME NEW ch \in Seq(Message), NEW sub, sub = [i \in DOMAIN ch |-> SubmissionOf(ch[i])]
  PROVE  /\ sub \in Seq(Submission) /\ Len(sub) = Len(ch) /\ Len(ch) \in Nat
         /\ \A i \in 1 .. Len(ch) : sub[i] = SubmissionOf(ch[i]) /\ sub[i] \in Submission
<1>1. PICK n : n = Len(ch)
  OBVIOUS
<1>2. n \in Nat /\ DOMAIN ch = 1 .. n /\ \A i \in 1 .. n : ch[i] \in Message
  BY <1>1, LenProperties, ElementOfSeq
<1>3. \A i \in 1 .. n : sub[i] = SubmissionOf(ch[i]) /\ sub[i] \in Submission
  BY <1>2 DEF SubmissionOf, Submission, Message, Target
<1>4. sub \in [1 .. n -> Submission]
  BY <1>2, <1>3
<1>5. sub \in Seq(Submission)
  BY <1>2, <1>4, SeqDef
<1>6. Len(sub) = n
  BY <1>2
<1> QED BY <1>1, <1>2, <1>3, <1>5, <1>6

LEMMA SubmittedIs == Submitted = [i \in DOMAIN asicCh |-> SubmissionOf(asicCh[i])]
BY DEF Submitted, SubmissionOf

\* A message queued for the ASIC is a submission.
LEMMA SentSubmits ==
  ASSUME AInv, NEW m \in Message, ToAsic(m), UNCHANGED hwRoute
  PROVE  FibOf!Submit(m.prefix, m.target.nhs)
<1>0. PICK n : n = Len(asicCh)
  OBVIOUS
<1>1. asicCh \in Seq(Message) /\ asicCh' = Append(asicCh, m)
  BY DEF AInv, ChannelInv, ChannelBase, ToAsic
<1>2. /\ n \in Nat /\ DOMAIN asicCh = 1 .. n /\ DOMAIN asicCh' = 1 .. n + 1
      /\ asicCh'[n + 1] = m /\ \A i \in 1 .. n : asicCh'[i] = asicCh[i]
  BY <1>0, <1>1, AppendProperties, LenProperties
<1>3. PICK x : x = [prefix |-> m.prefix, nhs |-> m.target.nhs]
  OBVIOUS
<1>4. Submitted' = Append(Submitted, x)
  <2>1. PICK sub, sub2 : sub = Submitted /\ sub2 = Submitted'
    OBVIOUS
  <2>2. sub2 = [i \in DOMAIN asicCh' |-> SubmissionOf(asicCh'[i])]
    BY <2>1, SubmittedIs DEF Submitted, SubmissionOf
  <2>3. asicCh' \in Seq(Message) /\ Len(asicCh') = n + 1
    BY <1>0, <1>1, AppendProperties
  <2>4. sub \in Seq(Submission) /\ Len(sub) = n /\ \A i \in 1 .. n : sub[i] = SubmissionOf(asicCh[i])
    BY <1>0, <1>1, <2>1, SubmittedIs, SubmittedSeq
  <2>5. /\ sub2 \in Seq(Submission) /\ Len(sub2) = n + 1
        /\ \A i \in 1 .. n + 1 : sub2[i] = SubmissionOf(asicCh'[i]) /\ sub2[i] \in Submission
    BY <2>2, <2>3, SubmittedSeq
  <2>6. n + 1 \in 1 .. n + 1 /\ sub2[n + 1] = x /\ x \in Submission
    BY <1>2, <1>3, <2>5 DEF SubmissionOf
  <2>7. /\ Append(sub, x) \in Seq(Submission) /\ Len(Append(sub, x)) = n + 1
        /\ \A i \in 1 .. n : Append(sub, x)[i] = sub[i]
        /\ Append(sub, x)[n + 1] = x
    BY <1>2, <2>4, <2>6, AppendProperties
  <2>8. ASSUME NEW i \in 1 .. n + 1
        PROVE  sub2[i] = Append(sub, x)[i]
    <3>1. CASE i = n + 1
      BY <2>6, <2>7, <3>1
    <3>2. CASE i # n + 1
      <4>1. i \in 1 .. n
        BY <1>2, <3>2
      <4> QED BY <1>2, <2>4, <2>5, <2>7, <4>1
    <3> QED BY <3>1, <3>2
  <2>9. sub2 = Append(sub, x)
    BY <2>5, <2>7, <2>8, SeqEqual
  <2> QED BY <2>1, <2>9
<1> QED BY <1>3, <1>4 DEF FibOf!Submit

\* The route server installs the oldest submission.
LEMMA ServeInstalls ==
  ASSUME AInv, AsicServer
  PROVE  FibOf!Install
<1>0. PICK n, m : n + 1 = Len(asicCh) /\ n \in Nat /\ m = Head(asicCh)
  <2>1. asicCh \in Seq(Message) /\ asicCh # <<>>
    BY DEF AInv, ChannelInv, ChannelBase, AsicServer
  <2>2. Len(asicCh) \in Nat \ {0}
    BY <2>1, EmptySeq, LenProperties
  <2>3. Len(asicCh) - 1 \in Nat /\ (Len(asicCh) - 1) + 1 = Len(asicCh)
    BY <2>2
  <2> QED BY <2>3
<1>1. /\ m \in Message /\ m.prefix \in Prefix
      /\ hwRoute' = [hwRoute EXCEPT ![m.prefix] = m.target]
  BY <1>0, AsicServe DEF AInv, Message
<1>2. /\ DOMAIN asicCh = 1 .. n + 1 /\ DOMAIN asicCh' = 1 .. n
      /\ m = asicCh[1] /\ \A i \in 1 .. n : asicCh'[i] = asicCh[i + 1]
  <2>1. asicCh \in Seq(Message) /\ asicCh # <<>> /\ asicCh' = Tail(asicCh)
    BY DEF AInv, ChannelInv, ChannelBase, AsicServer
  <2> QED BY <1>0, <2>1, HeadTailProperties, LenProperties
<1>3. 1 \in 1 .. n + 1 /\ \A i \in 1 .. n : i + 1 \in 1 .. n + 1
  BY <1>0
<1>4. PICK sub, sub2 : sub = Submitted /\ sub2 = Submitted'
  OBVIOUS
<1>5. asicCh \in Seq(Message) /\ asicCh' \in Seq(Message) /\ Len(asicCh') = n
  <2>1. asicCh \in Seq(Message) /\ asicCh # <<>> /\ asicCh' = Tail(asicCh)
    BY DEF AInv, ChannelInv, ChannelBase, AsicServer
  <2> QED BY <1>0, <2>1, HeadTailProperties
<1>6. /\ sub \in Seq(Submission) /\ Len(sub) = n + 1
      /\ \A i \in 1 .. n + 1 : sub[i] = SubmissionOf(asicCh[i])
  BY <1>0, <1>4, <1>5, SubmittedIs, SubmittedSeq
<1>7. /\ sub2 \in Seq(Submission) /\ Len(sub2) = n
      /\ \A i \in 1 .. n : sub2[i] = SubmissionOf(asicCh'[i])
  <2>1. sub2 = [i \in DOMAIN asicCh' |-> SubmissionOf(asicCh'[i])]
    BY <1>4 DEF Submitted, SubmissionOf
  <2> QED BY <1>5, <2>1, SubmittedSeq
<1>8. sub # <<>> /\ Head(sub) = sub[1] /\ sub[1].prefix = m.prefix /\ sub[1].nhs = m.target.nhs
  BY <1>0, <1>2, <1>3, <1>6, EmptySeq DEF SubmissionOf
<1>9. sub2 = Tail(sub)
  <2>1. /\ Tail(sub) \in Seq(Submission) /\ Len(Tail(sub)) = n
        /\ \A i \in 1 .. n : Tail(sub)[i] = sub[i + 1]
    BY <1>0, <1>6, <1>8, HeadTailProperties
  <2>2. \A i \in 1 .. n : sub2[i] = Tail(sub)[i]
    BY <1>2, <1>3, <1>6, <1>7, <2>1
  <2> QED BY <1>7, <2>1, <2>2, SeqEqual
<1>10. [p \in Prefix |-> hwRoute'[p].nhs] =
         [[p \in Prefix |-> hwRoute[p].nhs] EXCEPT ![m.prefix] = m.target.nhs]
  BY <1>1 DEF AInv, ChannelInv, ChannelBase
<1>11. /\ Submitted # <<>> /\ Submitted' = Tail(Submitted)
       /\ Head(Submitted).prefix = m.prefix /\ Head(Submitted).nhs = m.target.nhs
  BY <1>4, <1>8, <1>9
<1> QED BY <1>10, <1>11 DEF FibOf!Install

LEMMA QuietFib ==
  ASSUME UNCHANGED <<asicCh, hwRoute>>
  PROVE  UNCHANGED FibOf!fibVars
BY DEF FibOf!fibVars, Submitted

LEMMA ProgramAdds ==
  ASSUME OrdinaryOnly, AInv, Program
  PROVE  FibOf!AddNextHop(cur.prefix, cur.nh) /\ cur.prefix \in Prefix /\ cur.nh \in NextHop
<1>0. PICK p, n, m : p = cur.prefix /\ n = cur.nh
                     /\ m = AsicMsg("Add", p, cur.target, p \in ipRouteDB, FALSE)
  OBVIOUS
<1>1. /\ p \in Prefix /\ n \in NextHop /\ Asked(p) \subseteq NextHop /\ n \notin Asked(p)
      /\ cur.target.nhs = Asked(p) \cup {n} /\ cur.target \in Target
  BY <1>0, ProgramAsked DEF AInv
<1>2. m \in Message /\ m.prefix = p /\ m.target = cur.target
  <2>1. (p \in ipRouteDB) \in BOOLEAN
    OBVIOUS
  <2> QED BY <1>0, <1>1, <2>1 DEF AsicMsg, Message
<1>3. ToAsic(m) /\ UNCHANGED hwRoute
  BY <1>0 DEF Program, hwVars
<1>4. FibOf!Submit(p, Asked(p) \cup {n})
  BY <1>1, <1>2, <1>3, SentSubmits
<1> QED BY <1>0, <1>1, <1>4, AskedLatest DEF FibOf!AddNextHop

LEMMA TakeDelRemoves ==
  ASSUME AInv, TakeDel
  PROVE  \/ UNCHANGED FibOf!fibVars
         \/ \E p \in Prefix, n \in NextHop : FibOf!RemoveNextHop(p, n)
<1>0. PICK p, n, m : /\ p = Head(routeOpChannel).prefix /\ n = Head(routeOpChannel).nh
                     /\ m = AsicMsg("Del", p, NoRoute, FALSE, MustWait(References(p, n)))
  OBVIOUS
<1>1. UNCHANGED hwRoute /\ nextHopMap' = [nextHopMap EXCEPT ![p] = @ \ {n}]
  BY <1>0 DEF TakeDel, hwVars
<1>2. CASE nextHopMap[p] \ {n} # {}
  <2>1. UNCHANGED asicCh
    BY <1>0, <1>2 DEF TakeDel
  <2> QED BY <1>1, <2>1, QuietFib
<1>3. CASE nextHopMap[p] \ {n} = {}
  <2>1. p \in Prefix
    BY <1>0, TakenOp DEF TakeDel, Operations, AInv
  <2>2. nextHopMap'[p] = {}
    BY <1>1, <1>3, <2>1 DEF AInv, DbInv, DbType
  <2>3. n \in NextHop /\ Asked(p) = {n}
    BY <1>0, <2>2, TakeDelAsked DEF AInv
  <2>4. m \in Message /\ m.prefix = p /\ m.target.nhs = {}
    <3>1. NoRoute \in Target /\ NoRoute.nhs = {} /\ MustWait(References(p, n)) \in BOOLEAN
      BY DEF NoRoute, Target, MustWait
    <3> QED BY <1>0, <2>1, <3>1 DEF AsicMsg, Message
  <2>5. ToAsic(m)
    BY <1>0, <1>3 DEF TakeDel
  <2>6. FibOf!Submit(p, Asked(p) \ {n})
    <3>1. Asked(p) \ {n} = {}
      BY <2>3
    <3> QED BY <1>1, <2>4, <2>5, <3>1, SentSubmits
  <2>7. FibOf!Latest(p, Asked(p))
    BY <2>1, AskedLatest
  <2> QED BY <2>1, <2>3, <2>6, <2>7 DEF FibOf!RemoveNextHop
<1> QED BY <1>2, <1>3

LEMMA ReplaceRemoves ==
  ASSUME AInv, ReplaceGroup
  PROVE  \E p \in Prefix, n \in NextHop : FibOf!RemoveNextHop(p, n)
<1>0. PICK p, n, m : /\ p = cur.prefix /\ n = cur.nh
                     /\ m = AsicMsg("Add", p, GroupTarget(nextHopMap[p]), TRUE, TRUE)
  OBVIOUS
<1>1. /\ p \in Prefix /\ n \in NextHop /\ n \notin nextHopMap[p] /\ nextHopMap[p] \subseteq NextHop
      /\ Asked(p) = nextHopMap[p] \cup {n}
  BY <1>0, ReplaceGroupAsked DEF AInv
<1>2. m \in Message /\ m.prefix = p /\ m.target.nhs = nextHopMap[p]
  BY <1>0, <1>1 DEF AsicMsg, Message, GroupTarget, Target
<1>3. ToAsic(m) /\ UNCHANGED hwRoute
  BY <1>0 DEF ReplaceGroup, hwVars
<1>4. FibOf!Submit(p, nextHopMap[p])
  BY <1>2, <1>3, SentSubmits
<1>5. /\ Asked(p) \in SUBSET NextHop /\ n \in Asked(p) /\ nextHopMap[p] = Asked(p) \ {n}
      /\ FibOf!Latest(p, Asked(p))
  BY <1>1, AskedLatest
<1>6. FibOf!RemoveNextHop(p, n)
  BY <1>4, <1>5 DEF FibOf!RemoveNextHop
<1> QED BY <1>1, <1>6

\* Every step of the route manager and the ASIC is a step of Fib or changes
\* nothing there: what the route daemon asked for takes effect one by one, in
\* the order it was asked for, and nothing else does.  (That each does
\* eventually is a matter of fairness; the run checks it.)
THEOREM AsicImplementsFib ==
  ASSUME OrdinaryOnly
  PROVE  Spec => FibOf!FibInit /\ [][FibOf!FibNext]_(FibOf!fibVars)
<1>1. Init => FibOf!FibInit
  <2> SUFFICES ASSUME Init PROVE FibOf!FibInit
    OBVIOUS
  <2>1. asicCh = <<>> /\ hwRoute = [p \in Prefix |-> NoRoute]
    BY DEF Init, RouteInit
  <2>2. Submitted = <<>>
    BY <2>1 DEF Submitted
  <2>3. [p \in Prefix |-> hwRoute[p].nhs] = [p \in Prefix |-> {}]
    BY <2>1 DEF NoRoute
  <2> QED BY <2>2, <2>3 DEF FibOf!FibInit
<1>2. AInv /\ [Next]_vars => [FibOf!FibNext]_(FibOf!fibVars)
  <2> SUFFICES ASSUME AInv, [Next]_vars
               PROVE  FibOf!FibNext \/ UNCHANGED FibOf!fibVars
    OBVIOUS
  <2>1. CASE Program
    BY <2>1, ProgramAdds DEF FibOf!FibNext
  <2>2. CASE TakeDel
    BY <2>2, TakeDelRemoves DEF FibOf!FibNext
  <2>3. CASE ReplaceGroup
    BY <2>3, ReplaceRemoves DEF FibOf!FibNext
  <2>4. CASE AsicServer
    BY <2>4, ServeInstalls DEF FibOf!FibNext
  <2>5. CASE \/ \E p \in Prefix, nh \in NextHop : CreateIPRoute(p, nh) \/ DeleteIPRoute(p, nh)
             \/ LinuxServer \/ KeyServer \/ UNCHANGED vars
    <3>1. UNCHANGED <<asicCh, hwRoute>>
      BY <2>5 DEF CreateIPRoute, DeleteIPRoute, QueueOp, LinuxServer, KeyServer, vars,
                  routeVars, hwVars
    <3> QED BY <3>1, QuietFib
  <2>6. CASE \/ TakeNoOp \/ TakeAddFirst \/ TakeAddSecond \/ TakeAddMore \/ DropSingle
             \/ WaitDel \/ ReleaseLast \/ WaitUpd
    <3>1. UNCHANGED <<asicCh, hwRoute>>
      BY <2>6 DEF TakeNoOp, TakeAddFirst, TakeAddSecond, TakeAddMore, DropSingle, WaitDel,
                  ReleaseLast, WaitUpd, hwVars
    <3> QED BY <3>1, QuietFib
  <2> QED BY <2>1, <2>2, <2>3, <2>4, <2>5, <2>6 DEF Next, Handler
<1> QED BY <1>1, <1>2, RouteReferences, PTL DEF Spec
=============================================================================
