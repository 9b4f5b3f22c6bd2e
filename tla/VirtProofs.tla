----------------------------- MODULE VirtProofs -----------------------------
(***************************************************************************)
(* Proofs about VirtIntf for every set of interfaces and addresses and any *)
(* number of crashes, when one client configures the loopbacks and one     *)
(* deletes and updates sub-interfaces, which any number of others may      *)
(* create beside it.                                                       *)
(***************************************************************************)
EXTENDS VirtIntf, SequenceTheorems, WellFoundedInduction, TLAPS

OneLoClient == \A c, d \in LoClient : c = d
OneEditor == \A c, d \in Editor : c = d

SubEntry == [ip : Ip, ifIndex : IfId, name : IfName, enable : BOOLEAN]

-----------------------------------------------------------------------------
(***************************************************************************)
(* The inductive invariant.                                                *)
(***************************************************************************)
IdType ==
  /\ nextIfId \in [IfType -> Nat]
  /\ freeIfIndex \in [IfType -> Seq(IfId)]
  /\ \A t \in IfType : \A k \in DOMAIN freeIfIndex[t] : freeIfIndex[t][k][1] = t

DbType ==
  /\ logicalIntf \in [Lo -> IfId \cup {None}]
  /\ subIntf \in Seq(SubEntry)
  /\ vxlan \in [Vni -> (SUBSET Vtep) \cup {None}]
  /\ loCfg \subseteq Lo
  /\ subCfg \subseteq SubType

\* Who makes which calls: clients none while Init applies the configuration.
Allowed(c, x) ==
  \/ x = None
  \/ x \in NewLoCall /\ c \in LoClient \cup {Boot}
  \/ x \in OldLoCall /\ c \in LoClient
  \/ x \in NewSubCall /\ c \in SubClient \cup {Boot}
  \/ x \in OldSubCall /\ c \in Editor

CallType ==
  /\ call = [c \in Client |-> call[c]]
  /\ \A c \in Client : Allowed(c, call[c])
  /\ Booting => \A c \in Client \ {Boot} : call[c] = None

\* What a creation has got to.
Made(c) == call[c] \in NewLoCall =>
  /\ call[c].at # "addLoopback" => call[c].lo \in DOMAIN links
  /\ call[c].at = "loCreated" => logicalIntf[call[c].lo] # None

Kept(l) == logicalIntf[l] # None /\ l \in DOMAIN links
Restoring(l) == call[Boot] \in NewLoCall /\ call[Boot].lo = l
Deleting(l) == \E c \in LoClient : call[c] \in OldLoCall /\ call[c].lo = l

LoInv ==
  /\ \A c \in Client : Made(c)
  /\ \A l \in loCfg \ boot : Kept(l) \/ Restoring(l) \/ Deleting(l)

IInv == IdType /\ DbType /\ CallType /\ LoInv

-----------------------------------------------------------------------------
(***************************************************************************)
(* Calls.                                                                  *)
(***************************************************************************)
\* The clause "at" tells the kinds of call apart.
LEMMA NewLoFields ==
  ASSUME NEW x \in NewLoCall
  PROVE  /\ x.at \in {"addLoopback", "storeLoopback", "loCreated"}
         /\ x.lo \in Lo /\ x.ifIndex \in IfId
         /\ x \notin OldLoCall
         /\ \A s \in {"addLoopback", "storeLoopback", "loCreated"} :
              /\ [x EXCEPT !.at = s] \in NewLoCall
              /\ [x EXCEPT !.at = s].at = s
              /\ [x EXCEPT !.at = s].lo = x.lo
BY DEF NewLoCall, OldLoCall

LEMMA OldLoFields ==
  ASSUME NEW x \in OldLoCall
  PROVE  /\ x.at \in {"dropLoopback", "loDeleted"}
         /\ x.lo \in Lo
         /\ \A s \in {"dropLoopback", "loDeleted"} :
              /\ [x EXCEPT !.at = s] \in OldLoCall
              /\ [x EXCEPT !.at = s].at = s
              /\ [x EXCEPT !.at = s].lo = x.lo
BY DEF OldLoCall

NewSteps == {"verifySub", "addSub", "nameSub", "storeSub", "subCreated"}
OldSteps == {"delSub", "freeSub", "removeSub", "subDeleted", "setSub", "storeEnable", "subUpdated"}

LEMMA NewSubFields ==
  ASSUME NEW x \in NewSubCall
  PROVE  /\ x.at \in NewSteps
         /\ x.sub \in SubType
         /\ x.at # "subCreated" => x.ifIndex \in IfId
         /\ x.at \in {"nameSub", "storeSub"} => x.name \in IfName
BY DEF NewSubCall, NewSteps

LEMMA OldSubFields ==
  ASSUME NEW x \in OldSubCall
  PROVE  /\ x.at \in OldSteps
         /\ x.sub \in SubType /\ x.place \in Nat
         /\ \A s \in OldSteps :
              /\ [x EXCEPT !.at = s] \in OldSubCall
              /\ [x EXCEPT !.at = s].at = s
              /\ [x EXCEPT !.at = s].sub = x.sub
              /\ [x EXCEPT !.at = s].place = x.place
BY DEF OldSubCall, OldSteps

\* The calls before their results are stored.
LEMMA NewSubMoves ==
  ASSUME NEW x \in NewSubCall
  PROVE  /\ x.at = "verifySub" => [x EXCEPT !.at = "addSub"] \in NewSubCall
         /\ x.at = "nameSub" => [x EXCEPT !.at = "storeSub"] \in NewSubCall
BY DEF NewSubCall

LEMMA OldCallMoves ==
  ASSUME NEW c, call[c] \in OldSubCall, Return(c) \/ \E s \in OldSteps : Goto(c, s)
  PROVE  \E y : call' = [call EXCEPT ![c] = y] /\ (y = None \/ y \in OldSubCall)
<1>1. CASE Return(c)
  BY <1>1 DEF Return
<1>2. CASE \E s \in OldSteps : Goto(c, s)
  <2>1. PICK s \in OldSteps : Goto(c, s)
    BY <1>2
  <2>2. call' = [call EXCEPT ![c] = [call[c] EXCEPT !.at = s]]
    BY <2>1 DEF Goto
  <2>3. [call[c] EXCEPT !.at = s] \in OldSubCall
    BY <2>1, OldSubFields DEF OldSteps
  <2> QED BY <2>2, <2>3
<1> QED BY <1>1, <1>2

LEMMA OtherKinds ==
  \A x \in NewSubCall \cup OldSubCall : x \notin NewLoCall \cup OldLoCall
<1>1. \A x \in NewSubCall \cup OldSubCall : x.at \in NewSteps \cup OldSteps
  BY NewSubFields, OldSubFields
<1>2. \A x \in NewLoCall \cup OldLoCall :
        x.at \in {"addLoopback", "storeLoopback", "loCreated", "dropLoopback", "loDeleted"}
  BY NewLoFields, OldLoFields
<1> QED BY <1>1, <1>2 DEF NewSteps, OldSteps

\* Where a call is says what it is.
LEMMA CallKinds ==
  ASSUME CallType, NEW c \in Client
  PROVE  /\ At(c, "addLoopback") \/ At(c, "storeLoopback") \/ At(c, "loCreated") =>
              call[c] \in NewLoCall /\ c \in LoClient \cup {Boot}
         /\ At(c, "dropLoopback") \/ At(c, "loDeleted") =>
              call[c] \in OldLoCall /\ c \in LoClient
         /\ (\E s \in NewSteps : At(c, s)) => call[c] \in NewSubCall /\ c \in SubClient \cup {Boot}
         /\ (\E s \in OldSteps : At(c, s)) => call[c] \in OldSubCall /\ c \in Editor
<1>1. Allowed(c, call[c])
  BY DEF CallType
<1>2. CASE call[c] = None
  BY <1>2 DEF At
<1>3. CASE call[c] # None /\ call[c] \in NewLoCall /\ c \in LoClient \cup {Boot}
  <2>1. call[c].at \in {"addLoopback", "storeLoopback", "loCreated"}
    BY <1>3, NewLoFields
  <2> QED BY <1>3, <2>1 DEF At, NewSteps, OldSteps
<1>4. CASE call[c] # None /\ call[c] \in OldLoCall /\ c \in LoClient
  BY <1>4, OldLoFields DEF At, NewSteps, OldSteps
<1>5. CASE call[c] # None /\ call[c] \in NewSubCall /\ c \in SubClient \cup {Boot}
  BY <1>5, NewSubFields DEF At, NewSteps, OldSteps
<1>6. CASE call[c] # None /\ call[c] \in OldSubCall /\ c \in Editor
  BY <1>6, OldSubFields DEF At, NewSteps, OldSteps
<1> QED BY <1>1, <1>2, <1>3, <1>4, <1>5, <1>6 DEF Allowed

\* A step by the one whose turn it is.
Turn(c) == c = Boot <=> Booting

LEMMA TurnOfCaller ==
  ASSUME CallType, NEW c \in Client, call[c] # None
  PROVE  Turn(c)
BY DEF CallType, Turn, Booting

LEMMA CallMoves ==
  ASSUME CallType, NEW c \in Client, Turn(c), NEW y, Allowed(c, y),
         call' = [call EXCEPT ![c] = y], boot' \subseteq boot
  PROVE  CallType' /\ call'[c] = y /\ \A d \in Client \ {c} : call'[d] = call[d]
<1>1. call'[c] = y /\ \A d \in Client \ {c} : call'[d] = call[d]
  BY DEF CallType
<1>2. call' = [d \in Client |-> call'[d]]
  BY <1>1 DEF CallType
<1>3. \A d \in Client : Allowed(d, call[d])'
  <2> SUFFICES ASSUME NEW d \in Client
               PROVE  Allowed(d, call'[d])
    BY DEF Allowed
  <2> QED BY <1>1 DEF CallType
<1>4. Boot \in Client
  BY DEF Client
<1>5. Booting' => Booting
  BY <1>1, <1>4 DEF Turn, Booting
<1>6. (Booting => \A d \in Client \ {Boot} : call[d] = None)'
  BY <1>1, <1>5 DEF CallType, Turn
<1> QED BY <1>1, <1>2, <1>3, <1>6 DEF CallType

\* Beside a loopback's call no other is in progress.
LEMMA AloneLo ==
  ASSUME CallType, OneLoClient, NEW c \in LoClient \cup {Boot}, Turn(c),
         NEW d \in Client, d # c, call[d] \in NewLoCall \cup OldLoCall
  PROVE  FALSE
<1>1. call[d] # None
  BY NamesAssumption
<1>2. d \in LoClient \cup {Boot}
  <2>1. Allowed(d, call[d])
    BY DEF CallType
  <2>2. \A x \in NewSubCall \cup OldSubCall : x \notin NewLoCall \cup OldLoCall
    BY OtherKinds
  <2> QED BY <2>1, <2>2, <1>1 DEF Allowed
<1> QED BY <1>1, <1>2 DEF CallType, OneLoClient, Turn, Booting

-----------------------------------------------------------------------------
(***************************************************************************)
(* What a step leaves alone.                                               *)
(***************************************************************************)
LEMMA LoStays ==
  ASSUME LoInv, DbType, UNCHANGED <<logicalIntf, loCfg>>,
         \A l \in Lo : l \in DOMAIN links => l \in DOMAIN links',
         \A l \in loCfg : l \notin boot' => l \notin boot,
         \A d \in Client : (\/ call[d] \in NewLoCall \cup OldLoCall
                            \/ call'[d] \in NewLoCall \cup OldLoCall) => call'[d] = call[d]
  PROVE  LoInv'
<1>1. ASSUME NEW d \in Client, call'[d] \in NewLoCall
      PROVE  Made(d)'
  <2>1. call'[d] = call[d] /\ Made(d)
    BY <1>1 DEF LoInv
  <2>2. call[d].lo \in Lo
    BY <1>1, <2>1, NewLoFields
  <2> QED BY <1>1, <2>1, <2>2 DEF Made
<1>2. ASSUME NEW l \in loCfg', l \notin boot'
      PROVE  Kept(l)' \/ Restoring(l)' \/ Deleting(l)'
  <2>1. Kept(l) \/ Restoring(l) \/ Deleting(l)
    BY <1>2 DEF LoInv
  <2>2. l \in Lo
    BY DEF DbType
  <2> QED BY <2>1, <2>2 DEF Kept, Restoring, Deleting, Client
<1> QED BY <1>1, <1>2 DEF LoInv, Made

LEMMA ExceptValue ==
  ASSUME NEW D, NEW S, NEW f \in [D -> S], NEW t \in D, NEW v \in S
  PROVE  /\ [f EXCEPT ![t] = v] \in [D -> S]
         /\ [f EXCEPT ![t] = v][t] = v
         /\ \A u \in D \ {t} : [f EXCEPT ![t] = v][u] = f[u]
OBVIOUS

\* Ids come and go.
LEMMA Allocates ==
  ASSUME IdType, NEW name, NEW t \in IfType, AllocateIfIndex(name, t)
  PROVE  NewIfIndex(t) \in IfId /\ NewIfIndex(t)[1] = t /\ IdType'
<1>1. NewIfIndex(t) \in IfId /\ NewIfIndex(t)[1] = t
  <2>1. CASE freeIfIndex[t] # << >>
    <3>1. freeIfIndex[t] \in Seq(IfId) /\ Len(freeIfIndex[t]) \in DOMAIN freeIfIndex[t]
      BY <2>1 DEF IdType
    <3> QED BY <2>1, <3>1 DEF IdType, NewIfIndex
  <2>2. CASE freeIfIndex[t] = << >>
    BY <2>2 DEF IdType, NewIfIndex, IfId
  <2> QED BY <2>1, <2>2
<1>2. CASE freeIfIndex[t] # << >>
  <2> DEFINE s == freeIfIndex[t]
             r == SubSeq(s, 1, Len(s) - 1)
  <2>1. s \in Seq(IfId) /\ s # << >> /\ \A k \in DOMAIN s : s[k][1] = t
    BY <1>2 DEF IdType
  <2>2. r \in Seq(IfId) /\ DOMAIN r \subseteq DOMAIN s /\ \A k \in DOMAIN r : r[k] = s[k]
    <3> HIDE DEF s
    <3>1. Len(s) \in Nat \ {0}
      BY <2>1
    <3> QED BY <2>1, <3>1, SubSeqProperties
  <2>3. freeIfIndex' = [freeIfIndex EXCEPT ![t] = r] /\ UNCHANGED nextIfId
    BY <1>2 DEF AllocateIfIndex
  <2> HIDE DEF r, s
  <2>4. freeIfIndex \in [IfType -> Seq(IfId)]
    BY DEF IdType
  <2>5. /\ freeIfIndex' \in [IfType -> Seq(IfId)]
        /\ freeIfIndex'[t] = r
        /\ \A u \in IfType \ {t} : freeIfIndex'[u] = freeIfIndex[u]
    BY <2>2, <2>3, <2>4, ExceptValue
  <2>6. \A k \in DOMAIN r : r[k][1] = t
    BY <2>1, <2>2
  <2>7. ASSUME NEW u \in IfType, NEW k \in DOMAIN freeIfIndex'[u]
        PROVE  freeIfIndex'[u][k][1] = u
    <3>1. CASE u = t
      BY <2>5, <2>6, <2>7, <3>1
    <3>2. CASE u # t
      <4>1. freeIfIndex'[u] = freeIfIndex[u]
        BY <2>5, <3>2
      <4> QED BY <2>7, <4>1 DEF IdType
    <3> QED BY <3>1, <3>2
  <2>8. nextIfId' \in [IfType -> Nat]
    BY <2>3 DEF IdType
  <2>9. \A u \in IfType : \A k \in DOMAIN freeIfIndex'[u] : freeIfIndex'[u][k][1] = u
    BY <2>7
  <2>10. freeIfIndex' \in [IfType -> Seq(IfId)]
    BY <2>5
  <2>11. IdType'
    BY <2>8, <2>9, <2>10, Zenon DEF IdType
  <2> QED BY <1>1, <2>11
<1>3. CASE freeIfIndex[t] = << >>
  <2>1. freeIfIndex' = freeIfIndex /\ nextIfId' = [nextIfId EXCEPT ![t] = @ + 1]
    BY <1>3 DEF AllocateIfIndex
  <2>2. nextIfId' \in [IfType -> Nat]
    BY <2>1 DEF IdType
  <2> QED BY <1>1, <2>1, <2>2 DEF IdType
<1> QED BY <1>1, <1>2, <1>3

LEMMA Frees ==
  ASSUME IdType, NEW i \in IfId, FreeIfIndex(i)
  PROVE  IdType'
BY DEF IdType, FreeIfIndex, IfId

-----------------------------------------------------------------------------
(***************************************************************************)
(* The calls of loopbacks.                                                 *)
(***************************************************************************)
LEMMA WasKept ==
  ASSUME IInv, OneLoClient, NEW c \in LoClient \cup {Boot}, Turn(c), NEW l \in loCfg \ boot
  PROVE  \/ Kept(l)
         \/ c = Boot /\ call[c] \in NewLoCall /\ call[c].lo = l
         \/ call[c] \in OldLoCall /\ call[c].lo = l
<1>1. Kept(l) \/ Restoring(l) \/ Deleting(l)
  BY DEF IInv, LoInv
<1> QED BY <1>1, AloneLo DEF IInv, Restoring, Deleting, Client

LEMMA LoopbackMoves ==
  ASSUME IInv, OneLoClient, NEW c \in LoClient \cup {Boot}, Turn(c),
         NEW y, y = None \/ y \in NewLoCall \/ (y \in OldLoCall /\ c \in LoClient),
         call' = [call EXCEPT ![c] = y], boot' \subseteq boot,
         IdType', DbType',
         y \in NewLoCall => /\ y.at # "addLoopback" => y.lo \in DOMAIN links'
                            /\ y.at = "loCreated" => logicalIntf'[y.lo] # None,
         \A l \in loCfg' \ boot' : \/ Kept(l)'
                                   \/ c = Boot /\ y \in NewLoCall /\ y.lo = l
                                   \/ y \in OldLoCall /\ y.lo = l
  PROVE  IInv'
<1>1. c \in Client
  BY DEF Client
<1>2. CallType' /\ call'[c] = y /\ \A d \in Client \ {c} : call'[d] = call[d]
  BY <1>1, CallMoves DEF IInv, Allowed
<1>3. ASSUME NEW d \in Client
      PROVE  Made(d)'
  BY <1>2, AloneLo DEF IInv, Made
<1>4. ASSUME NEW l \in loCfg', l \notin boot'
      PROVE  Kept(l)' \/ Restoring(l)' \/ Deleting(l)'
  BY <1>2, <1>4, NamesAssumption, NewLoFields DEF Restoring, Deleting
<1> QED BY <1>2, <1>3, <1>4 DEF IInv, LoInv

LEMMA StartLogicalStep ==
  ASSUME IInv, OneLoClient, NEW c \in LoClient \cup {Boot}, Turn(c), NEW l \in Lo,
         call[c] = None, StartLogical(c, l),
         boot' = boot \/ (c = Boot /\ boot' = boot \ {l})
  PROVE  IInv'
<1> DEFINE y == [at |-> "addLoopback", lo |-> l, ifIndex |-> NewIfIndex("Loopback")]
<1>1. NewIfIndex("Loopback") \in IfId /\ IdType'
  BY Allocates DEF IInv, StartLogical, IfType
<1>2. y \in NewLoCall /\ y.at = "addLoopback" /\ y.lo = l
  BY <1>1 DEF NewLoCall
<1>3. call' = [call EXCEPT ![c] = y] /\ UNCHANGED <<links, dbVars, cfgVars>>
  BY DEF StartLogical
<1>4. DbType'
  BY <1>3 DEF IInv, DbType, dbVars, cfgVars
<1>5. ASSUME NEW k \in loCfg', k \notin boot', k # l \/ c # Boot
      PROVE  Kept(k)'
  <2>1. k \in loCfg \ boot
    BY <1>3, <1>5 DEF cfgVars
  <2>2. Kept(k)
    BY <2>1, WasKept, NamesAssumption
  <2> QED BY <2>2, <1>3 DEF Kept, dbVars
<1> HIDE DEF y
<1> QED BY <1>1, <1>2, <1>3, <1>4, <1>5, LoopbackMoves DEF dbVars

LEMMA AddLoopbackStep ==
  ASSUME IInv, OneLoClient, NEW c \in LoClient \cup {Boot}, AddLoopback(c)
  PROVE  IInv'
<1>1. c \in Client /\ At(c, "addLoopback")
  BY DEF Client, AddLoopback
<1>2. call[c] \in NewLoCall /\ Turn(c) /\ call[c].at = "addLoopback"
  BY <1>1, CallKinds, TurnOfCaller DEF IInv, At
<1>3. IdType' /\ DbType' /\ UNCHANGED <<boot, logicalIntf, loCfg, subIntf>>
  BY DEF IInv, IdType, DbType, AddLoopback, ifVars, dbVars, cfgVars
<1>4. call[c].lo \in Lo /\ call[c] \notin OldLoCall
  BY <1>2, NewLoFields
<1>5. DOMAIN links \subseteq DOMAIN links'
  BY DEF AddLoopback, With
<1>6. ASSUME NEW k \in loCfg', k \notin boot', c # Boot \/ call[c].lo # k
      PROVE  Kept(k)'
  BY <1>3, <1>4, <1>5, <1>6, <1>2, WasKept DEF Kept
<1>7. CASE Goto(c, "storeLoopback") /\
           links' = IF call[c].lo \in DOMAIN links THEN links ELSE With(links, call[c].lo, "UP")
  <2> DEFINE y == [call[c] EXCEPT !.at = "storeLoopback"]
  <2>1. y \in NewLoCall /\ y.at = "storeLoopback" /\ y.lo = call[c].lo
    BY <1>2, NewLoFields
  <2>2. call' = [call EXCEPT ![c] = y]
    BY <1>7 DEF Goto
  <2>3. call[c].lo \in DOMAIN links'
    BY <1>7 DEF With
  <2> HIDE DEF y
  <2> QED BY <1>2, <1>3, <1>6, <2>1, <2>2, <2>3, LoopbackMoves
<1>8. CASE c # Boot /\ Return(c)
  <2>1. call' = [call EXCEPT ![c] = None] /\ None \notin NewLoCall
    BY <1>8, NamesAssumption DEF Return
  <2> QED BY <1>2, <1>3, <1>6, <1>8, <2>1, LoopbackMoves
<1> QED BY <1>7, <1>8 DEF AddLoopback

LEMMA StoreLoopbackStep ==
  ASSUME IInv, OneLoClient, NEW c \in LoClient \cup {Boot}, StoreLoopback(c)
  PROVE  IInv'
<1> DEFINE y == [call[c] EXCEPT !.at = "loCreated"]
<1>1. c \in Client /\ At(c, "storeLoopback")
  BY DEF Client, StoreLoopback
<1>2. call[c] \in NewLoCall /\ Turn(c) /\ call[c].at = "storeLoopback"
  BY <1>1, CallKinds, TurnOfCaller DEF IInv, At
<1>3. call[c].lo \in Lo /\ call[c].ifIndex \in IfId /\ call[c] \notin OldLoCall
  BY <1>2, NewLoFields
<1>4. call[c].ifIndex # None
  BY <1>3, NamesAssumption
<1>5. call[c].lo \in DOMAIN links
  BY <1>1, <1>2 DEF IInv, LoInv, Made
<1>6. /\ logicalIntf' = [logicalIntf EXCEPT ![call[c].lo] = call[c].ifIndex]
      /\ call' = [call EXCEPT ![c] = y]
      /\ UNCHANGED <<ifVars, links, subIntf, vxlan, cfgVars, boot>>
  BY DEF StoreLoopback, Goto
<1>7. y \in NewLoCall /\ y.at = "loCreated" /\ y.lo = call[c].lo
  BY <1>2, NewLoFields
<1>8. IdType' /\ DbType'
  BY <1>3, <1>6 DEF IInv, IdType, DbType, ifVars, cfgVars
<1>9. logicalIntf'[call[c].lo] # None
  BY <1>3, <1>4, <1>6 DEF IInv, DbType
<1>10. ASSUME NEW k \in loCfg', k \notin boot'
       PROVE  Kept(k)'
  <2>1. k \in Lo /\ (Kept(k) \/ k = call[c].lo)
    BY <1>3, <1>6, <1>10, <1>2, WasKept DEF cfgVars, IInv, DbType
  <2> QED BY <2>1, <1>5, <1>6, <1>9 DEF Kept, IInv, DbType
<1> HIDE DEF y
<1> QED BY <1>2, <1>5, <1>6, <1>7, <1>8, <1>9, <1>10, LoopbackMoves

LEMMA DeleteLogicalIntfStep ==
  ASSUME IInv, OneLoClient, NEW c \in LoClient, NEW l \in Lo, DeleteLogicalIntf(c, l)
  PROVE  IInv'
<1> DEFINE y == [at |-> "dropLoopback", lo |-> l]
<1>1. c \in Client /\ Turn(c) /\ call[c] = None
  BY BootAssumption DEF Client, DeleteLogicalIntf, Idle, Turn
<1>2. y \in OldLoCall /\ y.lo = l /\ y \notin NewLoCall
  BY DEF OldLoCall, NewLoCall
<1>3. /\ call' = [call EXCEPT ![c] = y] /\ links' = Without(links, l)
      /\ UNCHANGED <<ifVars, dbVars, cfgVars, boot>>
  BY DEF DeleteLogicalIntf
<1>4. IdType' /\ DbType'
  BY <1>3 DEF IInv, IdType, DbType, ifVars, dbVars, cfgVars
<1>5. ASSUME NEW k \in loCfg', k \notin boot', k # l
      PROVE  Kept(k)'
  <2>1. Kept(k)
    BY <1>1, <1>3, <1>5, WasKept, NamesAssumption DEF cfgVars
  <2> QED BY <2>1, <1>3, <1>5 DEF Kept, dbVars, Without
<1> HIDE DEF y
<1> QED BY <1>1, <1>2, <1>3, <1>4, <1>5, LoopbackMoves DEF dbVars

LEMMA DropLoopbackStep ==
  ASSUME IInv, OneLoClient, NEW c \in LoClient, DropLoopback(c)
  PROVE  IInv'
<1> DEFINE y == [call[c] EXCEPT !.at = "loDeleted"]
<1>1. c \in Client /\ At(c, "dropLoopback")
  BY DEF Client, DropLoopback
<1>2. call[c] \in OldLoCall /\ Turn(c) /\ call[c] \notin NewLoCall
  BY <1>1, CallKinds, TurnOfCaller, NewLoFields DEF IInv, At
<1>3. call[c].lo \in Lo
  BY <1>2, OldLoFields
<1>4. call' = [call EXCEPT ![c] = y] /\ UNCHANGED <<links, subIntf, vxlan, cfgVars, boot>>
  BY DEF DropLoopback, Goto
<1>5. y \in OldLoCall /\ y.at = "loDeleted" /\ y.lo = call[c].lo
  BY <1>2, OldLoFields
<1>6. y \notin NewLoCall
  BY <1>5, NewLoFields
<1>7. IdType' /\ DbType' /\ \A k \in Lo \ {call[c].lo} : logicalIntf'[k] = logicalIntf[k]
  <2>1. CASE logicalIntf[call[c].lo] = None
    BY <2>1, <1>4 DEF DropLoopback, IInv, IdType, DbType, ifVars, cfgVars
  <2>2. CASE logicalIntf[call[c].lo] # None
    <3>1. logicalIntf[call[c].lo] \in IfId
      BY <1>3, <2>2 DEF IInv, DbType
    <3>2. IdType'
      BY <2>2, <3>1, Frees DEF DropLoopback, IInv
    <3>3. logicalIntf' = [logicalIntf EXCEPT ![call[c].lo] = None]
      BY <2>2 DEF DropLoopback
    <3> QED BY <1>3, <1>4, <3>2, <3>3 DEF IInv, DbType, cfgVars
  <2> QED BY <2>1, <2>2
<1>8. ASSUME NEW k \in loCfg', k \notin boot', k # call[c].lo
      PROVE  Kept(k)'
  <2>1. k \in Lo /\ Kept(k)
    BY <1>2, <1>4, <1>8, WasKept DEF cfgVars, IInv, DbType
  <2> QED BY <2>1, <1>4, <1>7, <1>8 DEF Kept
<1> HIDE DEF y
<1> QED BY <1>2, <1>4, <1>5, <1>6, <1>7, <1>8, LoopbackMoves

LEMMA LoopbackReturnsStep ==
  ASSUME IInv, OneLoClient, NEW c \in LoClient, LoopbackReturns(c)
  PROVE  IInv'
<1>1. c \in Client /\ call[c] # None /\ (At(c, "loCreated") \/ At(c, "loDeleted"))
  BY DEF Client, LoopbackReturns, At
<1>2. Turn(c) /\ c # Boot
  BY <1>1, TurnOfCaller, BootAssumption DEF IInv
<1>3. /\ call' = [call EXCEPT ![c] = None] /\ UNCHANGED <<ifVars, links, dbVars, boot, subCfg>>
      /\ None \notin NewLoCall /\ None \notin OldLoCall
  BY NamesAssumption DEF LoopbackReturns, Return
<1>4. IdType' /\ (loCfg' \subseteq Lo => DbType')
  BY <1>3 DEF IInv, IdType, DbType, ifVars, dbVars
<1>5. CASE At(c, "loCreated")
  <2>1. call[c] \in NewLoCall /\ call[c].at = "loCreated" /\ loCfg' = loCfg \cup {call[c].lo}
    BY <1>1, <1>5, CallKinds DEF IInv, LoopbackReturns, At
  <2>2. Kept(call[c].lo) /\ call[c].lo \in Lo /\ call[c] \notin OldLoCall
    <3>1. call[c].lo \in Lo /\ call[c] \notin OldLoCall
      BY <2>1, NewLoFields
    <3>2. Made(c)
      BY <1>1, <2>1 DEF IInv, LoInv
    <3> QED BY <2>1, <3>1, <3>2 DEF Made, Kept
  <2>3. ASSUME NEW k \in loCfg', k \notin boot'
        PROVE  Kept(k)'
    <3>1. Kept(k)
      BY <1>2, <1>3, <2>1, <2>2, <2>3, WasKept
    <3> QED BY <3>1, <1>3 DEF Kept, dbVars
  <2>4. DbType'
    BY <1>4, <2>1, <2>2 DEF IInv, DbType
  <2> QED BY <1>2, <1>3, <1>4, <2>3, <2>4, LoopbackMoves DEF dbVars
<1>6. CASE At(c, "loDeleted")
  <2>1. call[c] \in OldLoCall /\ loCfg' = loCfg \ {call[c].lo}
    BY <1>1, <1>6, CallKinds DEF IInv, LoopbackReturns, At
  <2>2. ASSUME NEW k \in loCfg', k \notin boot'
        PROVE  Kept(k)'
    <3>1. Kept(k)
      BY <1>2, <1>3, <2>1, <2>2, WasKept
    <3> QED BY <3>1, <1>3 DEF Kept, dbVars
  <2>3. DbType'
    BY <1>4, <2>1 DEF IInv, DbType
  <2> QED BY <1>2, <1>3, <1>4, <2>2, <2>3, LoopbackMoves DEF dbVars
<1> QED BY <1>1, <1>5, <1>6

-----------------------------------------------------------------------------
(***************************************************************************)
(* The calls of sub-interfaces.                                            *)
(***************************************************************************)
LEMMA SubMoves ==
  ASSUME IInv, NEW c \in SubClient \cup {Boot}, Turn(c),
         call[c] \in NewSubCall \cup OldSubCall \cup {None},
         NEW y, y = None \/ y \in NewSubCall \/ (y \in OldSubCall /\ c \in Editor),
         call' = [call EXCEPT ![c] = y], boot' \subseteq boot,
         \A l \in loCfg : l \notin boot' => l \notin boot,
         IdType', DbType', UNCHANGED <<logicalIntf, loCfg>>,
         \A l \in Lo : l \in DOMAIN links => l \in DOMAIN links'
  PROVE  IInv'
<1>1. c \in Client
  BY DEF Client
<1>2. CallType' /\ call'[c] = y /\ \A d \in Client \ {c} : call'[d] = call[d]
  BY <1>1, CallMoves DEF IInv, Allowed
<1>3. call[c] \notin NewLoCall \cup OldLoCall /\ y \notin NewLoCall \cup OldLoCall
  BY OtherKinds, NamesAssumption
<1>4. LoInv'
  BY <1>2, <1>3, LoStays DEF IInv
<1> QED BY <1>2, <1>4 DEF IInv

\* No loopback has the name of a sub-interface.
LEMMA LoopbackLinks ==
  ASSUME NEW n \in IfName
  PROVE  n \notin Lo
BY NamesAssumption

LEMMA SubNames ==
  ASSUME NEW sub \in SubType, NEW i \in IfId
  PROVE  LinkName(sub, i) \in IfName
BY DEF SubType, IfId, LinkName, IfName

LEMMA ListTypes ==
  ASSUME IInv
  PROVE  \A e \in DOMAIN subIntf :
           /\ subIntf[e] \in SubEntry
           /\ subIntf[e].ifIndex \in IfId /\ subIntf[e].name \in IfName
           /\ subIntf[e].ip \in Ip
<1>1. \A e \in DOMAIN subIntf : subIntf[e] \in SubEntry
  BY DEF IInv, DbType
<1>2. \A x \in SubEntry : x.ifIndex \in IfId /\ x.name \in IfName /\ x.ip \in Ip
  BY DEF SubEntry
<1> QED BY <1>1, <1>2

LEMMA LeastNat ==
  ASSUME NEW S \in SUBSET Nat, S # {}
  PROVE  \E v \in S : \A w \in S : v <= w
<1>1. PICK v \in S : \A w \in S : <<w, v>> \notin OpToRel(<, Nat)
  BY NatLessThanWellFounded, WFMin
<1>2. OpToRel(<, Nat) = {ss \in Nat \X Nat : ss[1] < ss[2]}
  BY DEF OpToRel
<1>3. ASSUME NEW w \in S, w < v
      PROVE  FALSE
  <2>1. <<w, v>> \in {ss \in Nat \X Nat : ss[1] < ss[2]}
    BY <1>3
  <2> QED BY <1>1, <1>2, <2>1
<1>4. \A w \in S : v <= w
  BY <1>3
<1> QED BY <1>4

LEMMA PlaceIsNat ==
  ASSUME subIntf \in Seq(SubEntry), NEW ip \in Ip, PlaceOf(ip) # None
  PROVE  PlaceOf(ip) \in Nat
<1> DEFINE Places == {e \in DOMAIN subIntf : subIntf[e].ip = ip}
<1>1. DOMAIN subIntf \subseteq Nat
  OBVIOUS
<1>2. Places # {}
  BY DEF PlaceOf
<1>3. Places \in SUBSET Nat
  BY <1>1
<1>4. PICK e \in Places : \A d \in Places : e <= d
  <2> HIDE DEF Places
  <2> QED BY <1>2, <1>3, LeastNat
<1>5. subIntf[e].ip = ip /\ \A d \in 1..e - 1 : subIntf[d].ip # ip
  <2>1. ASSUME NEW d \in 1..e - 1, subIntf[d].ip = ip
        PROVE  FALSE
    <3>1. d \in DOMAIN subIntf /\ d \in Nat /\ e \in Nat /\ d < e
      BY <1>1, <1>4
    <3>2. d \in Places
      BY <2>1, <3>1
    <3> QED BY <1>4, <3>1, <3>2
  <2> QED BY <1>4, <2>1
<1> QED BY <1>1, <1>4, <1>5 DEF PlaceOf

LEMMA StartSubStep ==
  ASSUME IInv, NEW c \in SubClient \cup {Boot}, Turn(c), NEW sub \in SubType,
         call[c] = None, StartSub(c, sub), boot' \subseteq boot,
         \A l \in loCfg : l \notin boot' => l \notin boot
  PROVE  IInv'
<1> DEFINE y == [at |-> "verifySub", sub |-> sub, ifIndex |-> NewIfIndex(PoolOf(sub.kind))]
<1>1. NewIfIndex(PoolOf(sub.kind)) \in IfId /\ IdType'
  BY Allocates DEF IInv, StartSub, IfType, PoolOf
<1>2. y \in NewSubCall
  BY <1>1 DEF NewSubCall
<1>3. call' = [call EXCEPT ![c] = y] /\ UNCHANGED <<links, dbVars, cfgVars>>
  BY DEF StartSub
<1>4. DbType'
  BY <1>3 DEF IInv, DbType, dbVars, cfgVars
<1> HIDE DEF y
<1> QED BY <1>1, <1>2, <1>3, <1>4, SubMoves DEF dbVars, cfgVars

\* The look at the list, and the name for the ifIndex.
LEMMA GoOnStep ==
  ASSUME IInv, NEW c \in SubClient \cup {Boot}, VerifySub(c) \/ NameSub(c)
  PROVE  IInv'
<1>1. c \in Client /\ (At(c, "verifySub") \/ At(c, "nameSub"))
  BY DEF Client, VerifySub, NameSub
<1>2. call[c] \in NewSubCall /\ Turn(c)
  BY <1>1, CallKinds, TurnOfCaller DEF IInv, At, NewSteps
<1>3. PICK y \in NewSubCall \cup {None} : call' = [call EXCEPT ![c] = y]
  <2>1. CASE VerifySub(c)
    <3>1. [call[c] EXCEPT !.at = "addSub"] \in NewSubCall
      BY <1>2, <2>1, NewSubMoves DEF VerifySub, At
    <3> QED BY <2>1, <3>1 DEF VerifySub, Goto, Return
  <2>2. CASE NameSub(c)
    <3>1. [call[c] EXCEPT !.at = "storeSub"] \in NewSubCall
      BY <1>2, <2>2, NewSubMoves DEF NameSub, At
    <3> QED BY <2>2, <3>1 DEF NameSub, Goto
  <2> QED BY <2>1, <2>2
<1>4. UNCHANGED <<nextIfId, freeIfIndex, links, dbVars, cfgVars, boot>>
  BY DEF VerifySub, NameSub, UpdateIfNameForIfIndex, ifVars
<1>5. IdType' /\ DbType'
  BY <1>4 DEF IInv, IdType, DbType, dbVars, cfgVars
<1> QED BY <1>2, <1>3, <1>4, <1>5, SubMoves DEF dbVars, cfgVars

LEMMA AddSubLinkStep ==
  ASSUME IInv, NEW c \in SubClient \cup {Boot}, AddSubLink(c)
  PROVE  IInv'
<1> DEFINE name == LinkName(call[c].sub, call[c].ifIndex)
           named(n) == [at |-> "nameSub", sub |-> call[c].sub, ifIndex |-> call[c].ifIndex,
                        name |-> n]
<1>1. c \in Client /\ At(c, "addSub")
  BY DEF Client, AddSubLink
<1>2. call[c] \in NewSubCall /\ Turn(c) /\ call[c].at = "addSub"
  BY <1>1, CallKinds, TurnOfCaller DEF IInv, At, NewSteps
<1>3. call[c].sub \in SubType /\ call[c].ifIndex \in IfId
  BY <1>2, NewSubFields
<1>4. name \in IfName /\ NoName \in IfName /\ name \notin Lo
  BY <1>3, SubNames, LoopbackLinks DEF IfName
<1>5. \A n \in IfName : named(n) \in NewSubCall
  BY <1>3 DEF NewSubCall
<1>6. UNCHANGED <<ifVars, dbVars, cfgVars, boot>>
  BY DEF AddSubLink
<1>7. IdType' /\ DbType'
  BY <1>6 DEF IInv, IdType, DbType, ifVars, dbVars, cfgVars
<1>8. \A l \in Lo : l \in DOMAIN links => l \in DOMAIN links'
  BY <1>4 DEF AddSubLink, With, Without
<1>9. PICK y : call' = [call EXCEPT ![c] = y] /\ y \in {None, named(NoName), named(name)}
  BY DEF AddSubLink, GotNamed, Return
<1>10. y = None \/ y \in NewSubCall
  BY <1>4, <1>5, <1>9
<1> HIDE DEF name, named
<1> QED BY <1>2, <1>6, <1>7, <1>8, <1>9, <1>10, SubMoves DEF dbVars, cfgVars

LEMMA StoreSubStep ==
  ASSUME IInv, NEW c \in SubClient \cup {Boot}, StoreSub(c)
  PROVE  IInv'
<1> DEFINE y == [at |-> "subCreated", sub |-> call[c].sub]
           x == [ip |-> call[c].sub.ip, ifIndex |-> call[c].ifIndex, name |-> call[c].name,
                 enable |-> call[c].sub.enable]
<1>1. c \in Client /\ At(c, "storeSub")
  BY DEF Client, StoreSub
<1>2. call[c] \in NewSubCall /\ Turn(c) /\ call[c].at = "storeSub"
  BY <1>1, CallKinds, TurnOfCaller DEF IInv, At, NewSteps
<1>3. call[c].sub \in SubType /\ call[c].ifIndex \in IfId /\ call[c].name \in IfName
  BY <1>2, NewSubFields
<1>4. x \in SubEntry /\ y \in NewSubCall
  BY <1>3 DEF SubEntry, SubType, NewSubCall
<1>5. /\ call' = [call EXCEPT ![c] = y] /\ subIntf' = Append(subIntf, x)
      /\ UNCHANGED <<ifVars, links, logicalIntf, vxlan, cfgVars, boot>>
  BY DEF StoreSub
<1> HIDE DEF x, y
<1>6. IdType' /\ DbType'
  BY <1>4, <1>5 DEF IInv, IdType, DbType, cfgVars, ifVars
<1> QED BY <1>2, <1>4, <1>5, <1>6, SubMoves DEF cfgVars

\* A call that has only found its place, or sets the link.
LEMMA PlacedStep ==
  ASSUME IInv, NEW c \in SubClient, Turn(c),
         call[c] \in NewSubCall \cup OldSubCall \cup {None},
         NEW y, y = None \/ (y \in OldSubCall /\ c \in Editor),
         call' = [call EXCEPT ![c] = y], UNCHANGED <<ifVars, logicalIntf, subIntf, vxlan, boot, loCfg>>,
         subCfg' \subseteq SubType,
         \A l \in Lo : l \in DOMAIN links => l \in DOMAIN links'
  PROVE  IInv'
<1>1. IdType' /\ DbType'
  BY DEF IInv, IdType, DbType, ifVars
<1> QED BY <1>1, SubMoves

LEMMA FindSubStep ==
  ASSUME IInv, NEW c \in Editor, NEW sub \in subCfg,
         DeleteSubIPv4Intf(c, sub) \/ UpdateSubIPv4Intf(c, sub)
  PROVE  IInv'
<1>1. c \in SubClient /\ c \in Client /\ Turn(c) /\ call[c] = None
  BY BootAssumption, EditorAssumption
     DEF Client, DeleteSubIPv4Intf, UpdateSubIPv4Intf, Idle, Turn
<1>2. sub \in SubType /\ sub.ip \in Ip
  BY DEF IInv, DbType, SubType
<1>3. PlaceOf(sub.ip) \in Nat
  BY <1>2, PlaceIsNat DEF DeleteSubIPv4Intf, UpdateSubIPv4Intf, IInv, DbType
<1>4. PICK y \in OldSubCall : call' = [call EXCEPT ![c] = y]
  BY <1>2, <1>3 DEF DeleteSubIPv4Intf, UpdateSubIPv4Intf, OldSubCall
<1>5. UNCHANGED <<ifVars, links, dbVars, cfgVars, boot>>
  BY DEF DeleteSubIPv4Intf, UpdateSubIPv4Intf
<1> QED BY <1>1, <1>4, <1>5, PlacedStep DEF dbVars, cfgVars, IInv, DbType

LEMMA LinkStep ==
  ASSUME IInv, NEW c \in Editor, DelSubLink(c) \/ SetSubLink(c)
  PROVE  IInv'
<1>1. c \in SubClient /\ c \in Client /\ (At(c, "delSub") \/ At(c, "setSub"))
  BY EditorAssumption DEF Client, DelSubLink, SetSubLink
<1>2. call[c] \in OldSubCall /\ Turn(c)
  BY <1>1, CallKinds, TurnOfCaller DEF IInv, At, OldSteps
<1>3. PICK y : call' = [call EXCEPT ![c] = y] /\ (y = None \/ y \in OldSubCall)
  <2>1. Return(c) \/ \E s \in OldSteps : Goto(c, s)
    BY DEF DelSubLink, SetSubLink, OldSteps
  <2> QED BY <1>2, <2>1, OldCallMoves
<1>4. UNCHANGED <<ifVars, dbVars, cfgVars, boot>>
  BY DEF DelSubLink, SetSubLink
<1>5. \A l \in Lo : l \in DOMAIN links => l \in DOMAIN links'
  <2>1. CASE DelSubLink(c)
    <3>1. CASE InList(c) /\ links' = Without(links, subIntf[call[c].place].name)
      <4>1. subIntf[call[c].place].name \notin Lo
        BY <3>1, ListTypes, LoopbackLinks DEF InList
      <4> QED BY <3>1, <4>1 DEF Without
    <3> QED BY <2>1, <3>1 DEF DelSubLink
  <2>2. CASE SetSubLink(c)
    BY <2>2 DEF SetSubLink
  <2> QED BY <2>1, <2>2
<1> QED BY <1>1, <1>2, <1>3, <1>4, <1>5, PlacedStep DEF dbVars, cfgVars, IInv, DbType

\* RemoveAt keeps the others, in the order they had.
LEMMA RemoveAtEffect ==
  ASSUME NEW S, NEW s \in Seq(S), NEW k \in 1..Len(s)
  PROVE  /\ RemoveAt(s, k) \in Seq(S)
         /\ DOMAIN RemoveAt(s, k) = 1..Len(s) - 1
         /\ \A e \in 1..Len(s) - 1 : RemoveAt(s, k)[e] = s[IF e < k THEN e ELSE e + 1]
<1> DEFINE n == Len(s)
           before == SubSeq(s, 1, k - 1)
           after == SubSeq(s, k + 1, n)
<1>1. n \in Nat /\ k \in 1..n
  OBVIOUS
<1>2. before \in Seq(S)
  BY SubSeqProperties
<1>3. Len(before) = k - 1 /\ \A e \in 1..k - 1 : before[e] = s[e]
  BY <1>1, SubSeqProperties
<1>4. after \in Seq(S)
  BY SubSeqProperties
<1>5. Len(after) = n - k /\ \A e \in 1..n - k : after[e] = s[k + e]
  BY <1>1, SubSeqProperties
<1>6. RemoveAt(s, k) = before \o after
  BY DEF RemoveAt
<1> HIDE DEF before, after, n
<1>7. /\ before \o after \in Seq(S)
      /\ Len(before \o after) = Len(before) + Len(after)
      /\ \A i \in 1..Len(before) + Len(after) :
           (before \o after)[i] = IF i <= Len(before) THEN before[i] ELSE after[i - Len(before)]
  BY ONLY <1>2, <1>4, ConcatProperties
<1>8. Len(before) + Len(after) = n - 1
  BY <1>1, <1>3, <1>5
<1>9. ASSUME NEW e \in 1..n - 1
      PROVE  (before \o after)[e] = s[IF e < k THEN e ELSE e + 1]
  <2>1. CASE e < k
    BY <1>1, <1>3, <1>7, <1>8, <2>1
  <2>2. CASE ~(e < k)
    <3>1. (before \o after)[e] = after[e - (k - 1)]
      <4>1. ~(e <= Len(before)) /\ e \in 1..Len(before) + Len(after)
        BY <1>1, <1>3, <1>8, <2>2
      <4>2. (before \o after)[e] = after[e - Len(before)]
        BY <1>7, <4>1
      <4> QED BY <1>3, <4>2
    <3>2. e - (k - 1) \in 1..n - k /\ k + (e - (k - 1)) = e + 1
      BY <1>1, <2>2
    <3>3. after[e - (k - 1)] = s[k + (e - (k - 1))]
      BY <1>5, <3>2
    <3>4. s[k + (e - (k - 1))] = s[e + 1]
      BY <3>2
    <3> QED BY <1>1, <2>2, <3>1, <3>3, <3>4
  <2> QED BY <2>1, <2>2
<1>10. DOMAIN RemoveAt(s, k) = 1..n - 1
  BY <1>6, <1>7, <1>8
<1> QED BY <1>6, <1>7, <1>9, <1>10 DEF n

LEMMA EntryStep ==
  ASSUME IInv, NEW c \in Editor, FreeSub(c) \/ RemoveSub(c) \/ StoreEnable(c)
  PROVE  IInv'
<1>1. c \in SubClient /\ c \in Client /\ \E s \in OldSteps : At(c, s)
  BY EditorAssumption DEF Client, FreeSub, RemoveSub, StoreEnable, OldSteps
<1>2. call[c] \in OldSubCall /\ Turn(c)
  BY <1>1, CallKinds, TurnOfCaller DEF IInv, At
<1>3. PICK y : call' = [call EXCEPT ![c] = y] /\ (y = None \/ y \in OldSubCall)
  <2>1. Return(c) \/ \E s \in OldSteps : Goto(c, s)
    BY DEF FreeSub, RemoveSub, StoreEnable, OldSteps
  <2> QED BY <1>2, <2>1, OldCallMoves
<1>4. UNCHANGED <<links, logicalIntf, vxlan, cfgVars, boot>>
  BY DEF FreeSub, RemoveSub, StoreEnable, dbVars
<1>5. IdType' /\ subIntf' \in Seq(SubEntry)
  <2>1. subIntf \in Seq(SubEntry)
    BY DEF IInv, DbType
  <2>2. CASE UNCHANGED <<ifVars, subIntf>>
    BY <2>1, <2>2 DEF IInv, IdType, ifVars
  <2>3. CASE FreeSub(c) /\ InList(c)
    <3>1. FreeIfIndex(subIntf[call[c].place].ifIndex) /\ UNCHANGED subIntf
      BY <2>3 DEF FreeSub, dbVars
    <3>2. subIntf[call[c].place].ifIndex \in IfId
      BY <2>3, ListTypes DEF InList
    <3> QED BY <2>1, <3>1, <3>2, Frees DEF IInv
  <2>4. CASE RemoveSub(c)
    <3>1. /\ subIntf' = RemoveAt(subIntf, call[c].place) /\ UNCHANGED ifVars
          /\ call[c].place \in 1..Len(subIntf)
      BY <2>1, <2>4 DEF RemoveSub, InList
    <3> QED BY <2>1, <3>1, RemoveAtEffect DEF IInv, IdType, ifVars
  <2>5. CASE StoreEnable(c)
    <3>1. /\ subIntf' = [subIntf EXCEPT ![call[c].place].enable = ~call[c].sub.enable]
          /\ call[c].place \in DOMAIN subIntf /\ UNCHANGED ifVars
      BY <2>5 DEF StoreEnable, InList, NewEnable
    <3>2. [subIntf[call[c].place] EXCEPT !.enable = ~call[c].sub.enable] \in SubEntry
      BY <3>1, ListTypes DEF SubEntry
    <3> QED BY <2>1, <3>1, <3>2 DEF IInv, IdType, ifVars
  <2> QED BY <2>2, <2>3, <2>4, <2>5 DEF FreeSub, dbVars
<1>6. DbType'
  BY <1>4, <1>5 DEF IInv, DbType, cfgVars
<1> QED BY <1>1, <1>2, <1>3, <1>4, <1>5, <1>6, SubMoves DEF cfgVars

LEMMA SubReturnsStep ==
  ASSUME IInv, NEW c \in SubClient, SubReturns(c)
  PROVE  IInv'
<1>1. c \in Client /\ (At(c, "subCreated") \/ At(c, "subDeleted") \/ At(c, "subUpdated"))
  BY DEF Client, SubReturns
<1>2. call[c] \in NewSubCall \cup OldSubCall /\ Turn(c)
  BY <1>1, CallKinds, TurnOfCaller DEF IInv, At, NewSteps, OldSteps
<1>3. call[c].sub \in SubType
  BY <1>2, NewSubFields, OldSubFields
<1>4. [call[c].sub EXCEPT !.enable = ~@] \in SubType
  BY <1>3 DEF SubType
<1>5. subCfg' \subseteq SubType
  BY <1>3, <1>4 DEF SubReturns, IInv, DbType
<1>6. call' = [call EXCEPT ![c] = None] /\ UNCHANGED <<ifVars, links, dbVars, loCfg, boot>>
  BY DEF SubReturns, Return
<1> QED BY <1>2, <1>5, <1>6, PlacedStep DEF dbVars

-----------------------------------------------------------------------------
(***************************************************************************)
(* VXLANs, the end of the process, the restore.                            *)
(***************************************************************************)
LEMMA VxlanStep ==
  ASSUME IInv, NEW c \in VtepClient,
         \/ \E v \in Vni : CreateVxlan(c, v) \/ DeleteVxlan(c, v)
         \/ \E t \in Vtep, v \in Vni : CreateVtep(c, t, v)
         \/ \E t \in Vtep : DeleteVtep(c, t)
  PROVE  IInv'
<1>1. UNCHANGED <<logicalIntf, subIntf, cfgVars, call, boot>>
  BY DEF CreateVxlan, DeleteVxlan, CreateVtep, DeleteVtep
<1>2. IdType'
  <2>1. CASE UNCHANGED ifVars
    BY <2>1 DEF IInv, IdType, ifVars
  <2>2. CASE \E t \in Vtep : AllocateIfIndex(t, "Vtep")
    BY <2>2, Allocates DEF IInv, IfType
  <2> QED BY <2>1, <2>2 DEF CreateVxlan, DeleteVxlan, CreateVtep, DeleteVtep
<1>3. \A v \in Vni : vxlan[v] # None => vxlan[v] \subseteq Vtep
  BY DEF IInv, DbType
<1>4. vxlan' \in [Vni -> (SUBSET Vtep) \cup {None}]
  <2>1. vxlan \in [Vni -> (SUBSET Vtep) \cup {None}]
    BY DEF IInv, DbType
  <2>2. CASE \E v \in Vni : CreateVxlan(c, v) \/ DeleteVxlan(c, v)
    BY <2>1, <2>2 DEF CreateVxlan, DeleteVxlan
  <2>3. CASE \E t \in Vtep, v \in Vni : CreateVtep(c, t, v)
    BY <2>1, <2>3, <1>3 DEF CreateVtep
  <2>4. CASE \E t \in Vtep : DeleteVtep(c, t)
    <3>1. PICK t \in Vtep : DeleteVtep(c, t)
      BY <2>4
    <3>2. CASE vxlan' = vxlan
      BY <2>1, <3>2
    <3>3. CASE vxlan[vtepDb[t].vni] # None /\ vxlan' = VtepGone(vtepDb[t].vni, t)
      BY <2>1, <3>3, <1>3 DEF VtepGone
    <3> QED BY <3>1, <3>2, <3>3 DEF DeleteVtep
  <2> QED BY <2>2, <2>3, <2>4
<1>5. \A l \in Lo : l \in DOMAIN links => l \in DOMAIN links'
  <2>1. Lo \cap Vtep = {}
    BY NamesAssumption
  <2>2. CASE \E v \in Vni : CreateVxlan(c, v) \/ DeleteVxlan(c, v)
    BY <1>3, <2>1, <2>2 DEF CreateVxlan, DeleteVxlan
  <2>3. CASE \E t \in Vtep, v \in Vni : CreateVtep(c, t, v)
    BY <2>3 DEF CreateVtep, With
  <2>4. CASE \E t \in Vtep : DeleteVtep(c, t)
    BY <2>1, <2>4 DEF DeleteVtep, Without
  <2> QED BY <2>2, <2>3, <2>4
<1>6. DbType'
  BY <1>1, <1>4 DEF IInv, DbType, cfgVars
<1>7. CallType'
  BY <1>1 DEF IInv, CallType, Allowed, Booting
<1>8. LoInv'
  BY <1>1, <1>5, LoStays DEF IInv, cfgVars
<1> QED BY <1>2, <1>6, <1>7, <1>8 DEF IInv

LEMMA RestartStep ==
  ASSUME IInv, StartAgain
  PROVE  IInv'
<1>1. /\ nextIfId' = [t \in IfType |-> 0] /\ freeIfIndex' = [t \in IfType |-> << >>]
      /\ logicalIntf' = [l \in Lo |-> None] /\ subIntf' = << >>
      /\ vxlan' = [v \in Vni |-> None] /\ call' = [c \in Client |-> None]
      /\ boot' = loCfg \cup subCfg /\ UNCHANGED <<loCfg, subCfg>>
  BY DEF StartAgain, cfgVars
<1>2. IdType' /\ DbType'
  BY <1>1 DEF IInv, IdType, DbType
<1>3. \A c \in Client : call'[c] = None
  BY <1>1
<1>4. CallType'
  BY <1>1, <1>3 DEF CallType, Allowed
<1>5. LoInv'
  BY <1>1, <1>3, NamesAssumption DEF LoInv, Made
<1> QED BY <1>2, <1>4, <1>5 DEF IInv

LEMMA RestoreStep ==
  ASSUME IInv, OneLoClient,
         \/ \E l \in Lo : RestoreLogicalIntf(l)
         \/ \E sub \in subCfg : RestoreSubIPv4Intf(sub)
  PROVE  IInv'
<1>1. Turn(Boot)
  BY DEF Turn, Booting, RestoreLogicalIntf, RestoreSubIPv4Intf
<1>2. CASE \E l \in Lo : RestoreLogicalIntf(l)
  BY <1>1, <1>2, StartLogicalStep DEF RestoreLogicalIntf
<1>3. CASE \E sub \in subCfg : RestoreSubIPv4Intf(sub)
  <2>1. PICK sub \in subCfg : RestoreSubIPv4Intf(sub)
    BY <1>3
  <2>2. sub \in SubType /\ loCfg \subseteq Lo
    BY DEF IInv, DbType
  <2>3. boot' \subseteq boot /\ \A l \in loCfg : l \notin boot' => l \notin boot
    BY <2>1, <2>2 DEF RestoreSubIPv4Intf
  <2> QED BY <1>1, <2>1, <2>2, <2>3, StartSubStep DEF RestoreSubIPv4Intf
<1> QED BY <1>2, <1>3

LEMMA RestoreReturnsStep ==
  ASSUME IInv, OneLoClient, RestoreReturns
  PROVE  IInv'
<1>1. Boot \in Client /\ (At(Boot, "loCreated") \/ At(Boot, "subCreated"))
  BY DEF Client, RestoreReturns
<1>2. Turn(Boot)
  BY <1>1, TurnOfCaller DEF IInv, At
<1>3. /\ call' = [call EXCEPT ![Boot] = None] /\ UNCHANGED <<ifVars, links, dbVars, cfgVars, boot>>
      /\ None \notin NewLoCall
  BY NamesAssumption DEF RestoreReturns, Return
<1>4. IdType' /\ DbType'
  BY <1>3 DEF IInv, IdType, DbType, ifVars, dbVars, cfgVars
<1>5. CASE At(Boot, "loCreated")
  <2>1. call[Boot] \in NewLoCall /\ call[Boot].at = "loCreated"
    BY <1>1, <1>5, CallKinds DEF IInv, At
  <2>2. Kept(call[Boot].lo) /\ call[Boot] \notin OldLoCall
    <3>1. call[Boot] \notin OldLoCall
      BY <2>1, NewLoFields
    <3>2. Made(Boot)
      BY <1>1, <2>1 DEF IInv, LoInv
    <3> QED BY <2>1, <3>1, <3>2 DEF Made, Kept
  <2>3. ASSUME NEW k \in loCfg', k \notin boot'
        PROVE  Kept(k)'
    <3>1. Kept(k)
      BY <1>2, <1>3, <2>2, <2>3, WasKept DEF cfgVars
    <3> QED BY <3>1, <1>3 DEF Kept, dbVars
  <2> QED BY <1>2, <1>3, <1>4, <2>3, LoopbackMoves DEF dbVars
<1>6. CASE At(Boot, "subCreated")
  <2>1. call[Boot] \in NewSubCall
    BY <1>1, <1>6, CallKinds DEF IInv, NewSteps
  <2> QED BY <1>2, <1>3, <1>4, <2>1, SubMoves DEF dbVars, cfgVars
<1> QED BY <1>1, <1>5, <1>6

-----------------------------------------------------------------------------
(***************************************************************************)
(* The invariant and the theorems.                                         *)
(***************************************************************************)
LEMMA InitIInv ==
  ASSUME Init
  PROVE  IInv
<1>1. IdType /\ DbType
  BY DEF Init, NoIfs, IdType, DbType
<1>2. \A c \in Client : call[c] = None
  BY DEF Init
<1>3. CallType
  BY <1>2 DEF Init, CallType, Allowed
<1>4. LoInv
  BY <1>2, NamesAssumption DEF Init, LoInv, Made
<1> QED BY <1>1, <1>3, <1>4 DEF IInv

LEMMA NextIInv ==
  ASSUME OneLoClient, IInv, [Next]_vars
  PROVE  IInv'
<1>1. ASSUME NEW c \in LoClient, NEW l \in Lo, CreateLogicalIntf(c, l)
      PROVE  IInv'
  <2>1. c # Boot /\ Turn(c) /\ call[c] = None
    BY <1>1, BootAssumption DEF CreateLogicalIntf, Idle, Turn
  <2> QED BY <1>1, <2>1, StartLogicalStep DEF CreateLogicalIntf
<1>2. ASSUME NEW c \in SubClient, NEW sub \in SubCfg, CreateSubIPv4Intf(c, sub)
      PROVE  IInv'
  <2>1. c # Boot /\ Turn(c) /\ call[c] = None /\ sub \in SubType
    BY <1>2, BootAssumption, SubCfgAssumption DEF CreateSubIPv4Intf, Idle, Turn
  <2> QED BY <1>2, <2>1, StartSubStep DEF CreateSubIPv4Intf
<1>3. CASE UNCHANGED vars
  <2>1. UNCHANGED <<nextIfId, freeIfIndex, logicalIntf, subIntf, vxlan, loCfg, subCfg, call,
                    links, boot>>
    BY <1>3 DEF vars, ifVars, dbVars, cfgVars
  <2>2. IdType' /\ DbType' /\ CallType'
    BY <2>1 DEF IInv, IdType, DbType, CallType, Allowed, Booting
  <2>3. LoInv'
    BY <2>1, LoStays DEF IInv
  <2> QED BY <2>2, <2>3 DEF IInv
<1>4. CASE \/ \E c \in LoClient, l \in Lo : DeleteLogicalIntf(c, l)
           \/ \E c \in LoClient \cup {Boot} : AddLoopback(c) \/ StoreLoopback(c)
           \/ \E c \in LoClient : DropLoopback(c) \/ LoopbackReturns(c)
  BY <1>4, DeleteLogicalIntfStep, AddLoopbackStep, StoreLoopbackStep, DropLoopbackStep,
     LoopbackReturnsStep
<1>5. CASE \/ \E c \in Editor, sub \in subCfg :
                DeleteSubIPv4Intf(c, sub) \/ UpdateSubIPv4Intf(c, sub)
           \/ \E c \in SubClient \cup {Boot} :
                VerifySub(c) \/ AddSubLink(c) \/ NameSub(c) \/ StoreSub(c)
           \/ \E c \in Editor : \/ DelSubLink(c) \/ FreeSub(c) \/ RemoveSub(c) \/ SetSubLink(c)
                                \/ StoreEnable(c)
           \/ \E c \in SubClient : SubReturns(c)
  BY <1>5, FindSubStep, GoOnStep, AddSubLinkStep, StoreSubStep, LinkStep, EntryStep, SubReturnsStep
<1>6. CASE \/ \E c \in VtepClient, v \in Vni : CreateVxlan(c, v) \/ DeleteVxlan(c, v)
           \/ \E c \in VtepClient, t \in Vtep, v \in Vni : CreateVtep(c, t, v)
           \/ \E c \in VtepClient, t \in Vtep : DeleteVtep(c, t)
  BY <1>6, VxlanStep
<1>7. CASE Die \/ Deinit
  BY <1>7, RestartStep DEF Die, Deinit
<1>8. CASE \/ \E l \in Lo : RestoreLogicalIntf(l)
           \/ \E sub \in subCfg : RestoreSubIPv4Intf(sub)
           \/ RestoreReturns
  BY <1>8, RestoreStep, RestoreReturnsStep
<1> QED BY <1>1, <1>2, <1>3, <1>4, <1>5, <1>6, <1>7, <1>8 DEF Next

LEMMA Invariance == OneLoClient => (Spec => []IInv)
<1>1. Init => IInv
  BY InitIInv
<1>2. OneLoClient /\ IInv /\ [Next]_vars => IInv'
  BY NextIInv
<1>3. ASSUME OneLoClient
      PROVE  IInv /\ [Next]_vars => IInv'
  BY <1>2, <1>3
<1>4. ASSUME OneLoClient
      PROVE  Spec => []IInv
  BY <1>1, <1>3, <1>4, PTL DEF Spec
<1> QED BY <1>4

\* CreateLogicalIntfConfig, InitLogicalIntf, Deinit: through crashes at any step,
\* any number of them, and a restore that is itself cut short, a loopback that was
\* created and not deleted is there with its link.
THEOREM LoopbacksSurvive == OneLoClient => (Spec => []LoopbacksKept)
<1>1. IInv => LoopbacksKept
  <2> SUFFICES ASSUME IInv, boot = {}, \A c \in LoClient \cup {Boot} : call[c] = None,
                      NEW l \in loCfg
               PROVE  logicalIntf[l] # None /\ l \in DOMAIN links
    BY DEF LoopbacksKept
  <2>1. Kept(l) \/ Restoring(l) \/ Deleting(l)
    BY DEF IInv, LoInv
  <2> QED BY <2>1, NamesAssumption DEF Kept, Restoring, Deleting
<1>2. ASSUME OneLoClient
      PROVE  Spec => []LoopbacksKept
  <2>1. Spec => []IInv
    BY <1>2, Invariance
  <2> QED BY <1>1, <2>1, PTL
<1> QED BY <1>2

-----------------------------------------------------------------------------
(***************************************************************************)
(* ifIndexes.  The ids move between the lists of the free ones, the calls  *)
(* that carry them and the databases, and no id is at two places, whoever  *)
(* calls what, as long as one client deletes sub-interfaces.  A            *)
(* sub-interface that is leaving the list has no id any more.              *)
(***************************************************************************)
AnyCall == NewLoCall \cup OldLoCall \cup NewSubCall \cup OldSubCall

UType ==
  /\ IdType
  /\ logicalIntf \in [Lo -> IfId \cup {None}]
  /\ subIntf \in Seq(SubEntry)
  /\ vtepDb = [t \in Vtep |-> vtepDb[t]]
  /\ subCfg \subseteq SubType
  /\ call \in [Client -> AnyCall \cup {None}]

\* The ids that are somewhere, each with its place.
PendingSteps == {"verifySub", "addSub", "nameSub", "storeSub"}
Carries(x) == x # None /\ x.at \in {"addLoopback", "storeLoopback"} \cup PendingSteps

LoIds == {<<logicalIntf[l], "lo", l>> : l \in {k \in Lo : logicalIntf[k] # None}}
SubIds == {<<subIntf[e].ifIndex, "sub", e>> : e \in {d \in DOMAIN subIntf : ~Leaving(d)}}
VtepIds == {<<vtepDb[t].ifIndex, "vtep", t>> : t \in {u \in Vtep : vtepDb[u] # None}}
CallIds == {<<call[c].ifIndex, "call", c>> : c \in {d \in Client : Carries(call[d])}}
FreeIds == UNION {{<<freeIfIndex[t][k], "free", <<t, k>>>> : k \in DOMAIN freeIfIndex[t]} :
                    t \in IfType}

Taken == LoIds \cup SubIds \cup VtepIds \cup CallIds
Ids == Taken \cup FreeIds

Unique(S) == \A x, y \in S : x[1] = y[1] => x = y

\* The ids that no allocation has reached are nowhere.
Given(S) == \A x \in S : x[1] \in IfId /\ x[1][2] < nextIfId[x[1][1]]

UInv == UType /\ Unique(Ids) /\ Given(Ids)

\* An id moves from one place to another.
LEMMA MovesUnique ==
  ASSUME NEW S, NEW T, Unique(S), NEW x \in S, NEW y, y[1] = x[1], T \subseteq (S \ {x}) \cup {y}
  PROVE  Unique(T)
BY DEF Unique

\* An id that was nowhere appears.
LEMMA FreshUnique ==
  ASSUME NEW S, NEW T, Unique(S), NEW y, \A x \in S : x[1] # y[1], T \subseteq S \cup {y}
  PROVE  Unique(T)
BY DEF Unique

LEMMA IdsStay ==
  ASSUME UInv, UType', UNCHANGED nextIfId, Ids' \subseteq Ids
  PROVE  UInv'
BY DEF UInv, Unique, Given

LEMMA IdMoves ==
  ASSUME UInv, UType', UNCHANGED nextIfId, NEW x \in Ids, NEW y, y[1] = x[1],
         Ids' \subseteq (Ids \ {x}) \cup {y}
  PROVE  UInv'
<1>1. Unique(Ids)'
  <2>1. PICK S, T : S = Ids /\ T = Ids'
    OBVIOUS
  <2>2. Unique(T)
    BY <2>1, MovesUnique DEF UInv
  <2> QED BY <2>1, <2>2 DEF Unique
<1>2. Given(Ids)'
  BY DEF UInv, Given
<1> QED BY <1>1, <1>2 DEF UInv

\* Only free ids stand in the lists of the free ones.
LEMMA FreeApart ==
  ASSUME NEW x \in FreeIds
  PROVE  x[2] = "free" /\ x \notin Taken
BY DEF FreeIds, Taken, LoIds, SubIds, VtepIds, CallIds

LEMMA FreeElements ==
  ASSUME NEW x
  PROVE  x \in FreeIds <=> \E t \in IfType : \E k \in DOMAIN freeIfIndex[t] :
                             x = <<freeIfIndex[t][k], "free", <<t, k>>>>
BY DEF FreeIds

\* The last of the free ids, or one that was nowhere, is taken.
LEMMA IdTaken ==
  ASSUME UInv, UType', NEW name, NEW t \in IfType, AllocateIfIndex(name, t),
         NEW y, y[1] = NewIfIndex(t), Taken' \subseteq Taken \cup {y}
  PROVE  UInv'
<1>1. nextIfId \in [IfType -> Nat] /\ freeIfIndex \in [IfType -> Seq(IfId)]
  BY DEF UInv, UType, IdType
<1>2. CASE freeIfIndex[t] # << >>
  <2> DEFINE n == Len(freeIfIndex[t])
             x == <<freeIfIndex[t][n], "free", <<t, n>>>>
  <2>1. n \in Nat \ {0} /\ n \in DOMAIN freeIfIndex[t] /\ y[1] = x[1]
    BY <1>1, <1>2 DEF NewIfIndex
  <2>2. /\ freeIfIndex' = [freeIfIndex EXCEPT ![t] = SubSeq(@, 1, n - 1)]
        /\ UNCHANGED nextIfId
    BY <1>2 DEF AllocateIfIndex
  <2>3. /\ DOMAIN freeIfIndex'[t] = 1..n - 1
        /\ \A k \in 1..n - 1 : freeIfIndex'[t][k] = freeIfIndex[t][k]
        /\ \A u \in IfType \ {t} : freeIfIndex'[u] = freeIfIndex[u]
    <3>1. freeIfIndex'[t] = SubSeq(freeIfIndex[t], 1, n - 1)
      BY <1>1, <2>2
    <3> QED BY <1>1, <2>1, <2>2, <3>1
  <2>4. x \in FreeIds
    BY <2>1, FreeElements
  <2>5. ASSUME NEW z \in FreeIds'
        PROVE  z \in FreeIds \ {x}
    <3>0. PICK u \in IfType : \E k \in DOMAIN freeIfIndex'[u] :
            z = <<freeIfIndex'[u][k], "free", <<u, k>>>>
      BY DEF FreeIds
    <3>1. PICK k \in DOMAIN freeIfIndex'[u] : z = <<freeIfIndex'[u][k], "free", <<u, k>>>>
      BY <3>0
    <3>2. /\ k \in DOMAIN freeIfIndex[u] /\ z = <<freeIfIndex[u][k], "free", <<u, k>>>>
          /\ <<u, k>> # <<t, n>>
      <4>1. CASE u = t
        <5>1. k \in 1..n - 1 /\ z = <<freeIfIndex'[t][k], "free", <<t, k>>>>
          BY <2>3, <3>1, <4>1
        <5>2. k \in DOMAIN freeIfIndex[t] /\ k # n
          BY <1>1, <2>1, <5>1
        <5>3. freeIfIndex'[t][k] = freeIfIndex[t][k]
          BY <2>3, <5>1
        <5> QED BY <4>1, <5>1, <5>2, <5>3
      <4>2. CASE u # t
        BY <2>3, <3>1, <4>2
      <4> QED BY <4>1, <4>2
    <3>3. z # x
      BY <3>2
    <3> QED BY <3>2, <3>3, FreeElements
  <2>6. x \notin Taken /\ x \in Ids
    BY <2>4, FreeApart DEF Ids
  <2> HIDE DEF x
  <2>7. Ids' \subseteq (Ids \ {x}) \cup {y}
    BY <2>5, <2>6 DEF Ids
  <2> QED BY <2>1, <2>2, <2>6, <2>7, IdMoves
<1>3. CASE freeIfIndex[t] = << >>
  <2>1. /\ y[1] = <<t, nextIfId[t]>>
        /\ nextIfId' = [nextIfId EXCEPT ![t] = @ + 1] /\ UNCHANGED freeIfIndex
    BY <1>3 DEF AllocateIfIndex, NewIfIndex
  <2>2. Ids' \subseteq Ids \cup {y}
    BY <2>1 DEF Ids, FreeIds
  <2>3. \A x \in Ids : x[1] # y[1]
    BY <1>1, <2>1 DEF UInv, Given
  <2>4. Unique(Ids)'
    <3>1. PICK S, T : S = Ids /\ T = Ids'
      OBVIOUS
    <3>2. Unique(T)
      BY <2>2, <2>3, <3>1, FreshUnique DEF UInv
    <3> QED BY <3>1, <3>2 DEF Unique
  <2>5. \A x \in Ids : x[1] \in IfId /\ x[1][2] < nextIfId'[x[1][1]]
    <3> SUFFICES ASSUME NEW x \in Ids
                 PROVE  x[1] \in IfId /\ x[1][2] < nextIfId'[x[1][1]]
      OBVIOUS
    <3>1. x[1] \in IfId /\ x[1][2] < nextIfId[x[1][1]]
      BY DEF UInv, Given
    <3>2. x[1][1] \in IfType /\ x[1][2] \in Nat
      BY <3>1 DEF IfId
    <3> QED BY <1>1, <2>1, <3>1, <3>2
  <2>6. y[1] \in IfId /\ y[1][2] < nextIfId'[y[1][1]]
    BY <1>1, <2>1 DEF IfId
  <2>7. Given(Ids)'
    BY <2>2, <2>5, <2>6 DEF Given
  <2> QED BY <2>4, <2>7 DEF UInv
<1> QED BY <1>2, <1>3

\* A freed id is added to its list.
LEMMA FreesId ==
  ASSUME UType, NEW i \in IfId, FreeIfIndex(i)
  PROVE  /\ UNCHANGED nextIfId
         /\ \E y : y[1] = i /\ FreeIds' \subseteq FreeIds \cup {y}
<1> DEFINE t == i[1]
           n == Len(freeIfIndex[t]) + 1
           y == <<i, "free", <<t, n>>>>
<1>1. t \in IfType /\ freeIfIndex \in [IfType -> Seq(IfId)]
  BY DEF UType, IdType, IfId
<1>2. freeIfIndex' = [freeIfIndex EXCEPT ![t] = Append(@, i)] /\ UNCHANGED nextIfId
  BY DEF FreeIfIndex
<1>3. /\ DOMAIN freeIfIndex'[t] = DOMAIN freeIfIndex[t] \cup {n}
      /\ freeIfIndex'[t][n] = i
      /\ \A k \in DOMAIN freeIfIndex[t] : freeIfIndex'[t][k] = freeIfIndex[t][k]
      /\ \A u \in IfType \ {t} : freeIfIndex'[u] = freeIfIndex[u]
  <2>1. freeIfIndex'[t] = Append(freeIfIndex[t], i)
    BY <1>1, <1>2
  <2>2. freeIfIndex[t] \in Seq(IfId)
    BY <1>1
  <2> QED BY <1>1, <1>2, <2>1, <2>2
<1>4. ASSUME NEW z \in FreeIds', z # y
      PROVE  z \in FreeIds
  <2>0. PICK u \in IfType : \E k \in DOMAIN freeIfIndex'[u] :
          z = <<freeIfIndex'[u][k], "free", <<u, k>>>>
    BY DEF FreeIds
  <2>1. PICK k \in DOMAIN freeIfIndex'[u] : z = <<freeIfIndex'[u][k], "free", <<u, k>>>>
    BY <2>0
  <2>2. k \in DOMAIN freeIfIndex[u] /\ freeIfIndex'[u][k] = freeIfIndex[u][k]
    BY <1>3, <1>4, <2>1
  <2> QED BY <2>1, <2>2, FreeElements
<1>5. y[1] = i
  OBVIOUS
<1> HIDE DEF y
<1> QED BY <1>2, <1>4, <1>5

\* The id that a call carries is the call's.
LEMMA CallIdsMove ==
  ASSUME UType, NEW c \in Client, NEW y, call' = [call EXCEPT ![c] = y]
  PROVE  \A z \in CallIds' : \/ z \in CallIds /\ z[3] # c
                             \/ Carries(y) /\ z = <<y.ifIndex, "call", c>>
<1>1. call'[c] = y /\ \A d \in Client \ {c} : call'[d] = call[d]
  BY DEF UType
<1>2. ASSUME NEW d \in Client, Carries(call'[d]), d # c
      PROVE  <<call'[d].ifIndex, "call", d>> \in CallIds
  BY <1>1, <1>2 DEF CallIds
<1> QED BY <1>1, <1>2 DEF CallIds

\* What a call may be, by where it is.
LEMMA CallFields ==
  ASSUME UType, NEW c \in Client
  PROVE  /\ At(c, "addLoopback") \/ At(c, "storeLoopback") => call[c] \in NewLoCall
         /\ At(c, "dropLoopback") => call[c] \in OldLoCall
         /\ (\E s \in NewSteps : At(c, s)) => call[c] \in NewSubCall
         /\ (\E s \in OldSteps : At(c, s)) => call[c] \in OldSubCall
<1>1. call[c] = None \/ call[c] \in AnyCall
  BY DEF UType
<1>2. CASE call[c] = None
  BY <1>2 DEF At
<1>3. CASE call[c] \in NewLoCall
  BY <1>3, NewLoFields DEF At, NewSteps, OldSteps
<1>4. CASE call[c] \in OldLoCall
  BY <1>4, OldLoFields DEF At, NewSteps, OldSteps
<1>5. CASE call[c] \in NewSubCall
  BY <1>5, NewSubFields DEF At, NewSteps, OldSteps
<1>6. CASE call[c] \in OldSubCall
  <2>1. call[c].at \in OldSteps
    BY <1>6, OldSubFields
  <2> QED BY <1>6, <2>1 DEF At, NewSteps, OldSteps
<1> QED BY <1>1, <1>2, <1>3, <1>4, <1>5, <1>6 DEF AnyCall

LEMMA NoneCarried == ~Carries(None)
BY DEF Carries

\* A call that is not removing a sub-interface leaves those that are leaving.
LEMMA SubIdsKept ==
  ASSUME UType, NEW c \in Client, NEW y, call' = [call EXCEPT ![c] = y], ~At(c, "removeSub"),
         DOMAIN subIntf' = DOMAIN subIntf,
         \A e \in DOMAIN subIntf : subIntf'[e].ifIndex = subIntf[e].ifIndex
  PROVE  SubIds' \subseteq SubIds
<1>1. ASSUME NEW e, Leaving(e)
      PROVE  Leaving(e)'
  <2>1. PICK d \in Editor : At(d, "removeSub") /\ call[d].place = e
    BY <1>1 DEF Leaving
  <2>2. call'[d] = call[d]
    BY <2>1 DEF UType
  <2> QED BY <2>1, <2>2 DEF Leaving, At
<1> QED BY <1>1 DEF SubIds

\* A call goes on, ends or starts without an id: the databases are as they were.
LEMMA QuietCall ==
  ASSUME UInv, NEW c \in Client, NEW y \in AnyCall \cup {None}, call' = [call EXCEPT ![c] = y],
         Carries(y) => Carries(call[c]) /\ y.ifIndex = call[c].ifIndex,
         UNCHANGED <<nextIfId, freeIfIndex, logicalIntf, vtepDb>>,
         subCfg' \subseteq SubType, subIntf' \in Seq(SubEntry), SubIds' \subseteq SubIds
  PROVE  UInv'
<1>1. UType'
  BY DEF UInv, UType, IdType
<1>2. CallIds' \subseteq CallIds
  <2>1. Carries(y) => <<y.ifIndex, "call", c>> \in CallIds
    BY DEF CallIds
  <2> QED BY <2>1, CallIdsMove DEF UInv
<1>3. Ids' \subseteq Ids
  BY <1>2 DEF Ids, Taken, LoIds, VtepIds, FreeIds
<1> QED BY <1>1, <1>3, IdsStay

\* A call has taken an id, or it has and fails at once.
LEMMA CallTakes ==
  ASSUME UInv, NEW c \in Client, NEW name, NEW t \in IfType, AllocateIfIndex(name, t),
         NEW y \in AnyCall \cup {None}, y # None => y.ifIndex = NewIfIndex(t),
         call[c] = None, call' = [call EXCEPT ![c] = y],
         UNCHANGED <<logicalIntf, subIntf, vtepDb, subCfg>>
  PROVE  UInv'
<1> DEFINE z == <<NewIfIndex(t), "call", c>>
<1>1. UType'
  BY Allocates DEF UInv, UType
<1>2. CallIds' \subseteq CallIds \cup {z}
  BY CallIdsMove, NoneCarried DEF UInv
<1>3. SubIds' \subseteq SubIds
  BY SubIdsKept DEF At, UInv
<1>4. Taken' \subseteq Taken \cup {z} /\ z[1] = NewIfIndex(t)
  BY <1>2, <1>3 DEF Taken, LoIds, VtepIds
<1> HIDE DEF z
<1> QED BY <1>1, <1>4, IdTaken

\* The id of a call goes to the place z of a database.
LEMMA CallGives ==
  ASSUME UInv, UType', NEW c \in Client, Carries(call[c]),
         NEW y, ~Carries(y), call' = [call EXCEPT ![c] = y],
         UNCHANGED <<nextIfId, freeIfIndex, vtepDb>>,
         NEW z, z[1] = call[c].ifIndex,
         LoIds' \cup SubIds' \subseteq LoIds \cup SubIds \cup {z}
  PROVE  UInv'
<1> DEFINE x == <<call[c].ifIndex, "call", c>>
<1>1. x \in CallIds /\ x \notin LoIds \cup SubIds \cup VtepIds \cup FreeIds
  BY DEF CallIds, LoIds, SubIds, VtepIds, FreeIds
<1>2. CallIds' \subseteq CallIds \ {x}
  BY CallIdsMove DEF UInv
<1>3. VtepIds' = VtepIds /\ FreeIds' = FreeIds
  BY DEF VtepIds, FreeIds
<1>4. z[1] = x[1]
  OBVIOUS
<1> HIDE DEF x
<1>5. Ids' \subseteq (Ids \ {x}) \cup {z} /\ x \in Ids
  BY <1>1, <1>2, <1>3 DEF Ids, Taken
<1> QED BY <1>4, <1>5, IdMoves

LEMMA StartLogicalIds ==
  ASSUME UInv, NEW c \in Client, NEW l \in Lo, call[c] = None, StartLogical(c, l)
  PROVE  UInv'
<1> DEFINE y == [at |-> "addLoopback", lo |-> l, ifIndex |-> NewIfIndex("Loopback")]
<1>1. y \in AnyCall /\ y.ifIndex = NewIfIndex("Loopback")
  <2>1. NewIfIndex("Loopback") \in IfId
    BY Allocates DEF UInv, UType, StartLogical, IfType
  <2> QED BY <2>1 DEF NewLoCall, AnyCall
<1>2. call' = [call EXCEPT ![c] = y] /\ UNCHANGED <<logicalIntf, subIntf, vtepDb, subCfg>>
  BY DEF StartLogical, dbVars, cfgVars
<1> HIDE DEF y
<1> QED BY <1>1, <1>2, CallTakes DEF StartLogical, IfType

LEMMA StartSubIds ==
  ASSUME UInv, NEW c \in Client, NEW sub \in SubType, call[c] = None, StartSub(c, sub)
  PROVE  UInv'
<1> DEFINE t == PoolOf(sub.kind)
           y == [at |-> "verifySub", sub |-> sub, ifIndex |-> NewIfIndex(t)]
<1>1. t \in IfType
  BY DEF PoolOf, IfType
<1>2. y \in AnyCall /\ y.ifIndex = NewIfIndex(t)
  <2>1. NewIfIndex(t) \in IfId
    BY <1>1, Allocates DEF UInv, UType, StartSub
  <2> QED BY <2>1 DEF NewSubCall, AnyCall
<1>3. call' = [call EXCEPT ![c] = y] /\ UNCHANGED <<logicalIntf, subIntf, vtepDb, subCfg>>
  BY DEF StartSub, dbVars, cfgVars
<1> HIDE DEF y
<1> QED BY <1>1, <1>2, <1>3, CallTakes DEF StartSub

LEMMA LoopbackIds ==
  ASSUME UInv, NEW c \in Client,
         \/ AddLoopback(c) \/ StoreLoopback(c) \/ DropLoopback(c) \/ LoopbackReturns(c)
         \/ \E l \in Lo : DeleteLogicalIntf(c, l)
  PROVE  UInv'
<1>1. subIntf \in Seq(SubEntry) /\ subCfg \subseteq SubType
  BY DEF UInv, UType
<1>2. CASE AddLoopback(c)
  <2>1. At(c, "addLoopback") /\ call[c] \in NewLoCall
    BY <1>2, CallFields DEF UInv, AddLoopback
  <2>2. Carries(call[c])
    BY <2>1 DEF At, Carries
  <2>3. PICK y \in {[call[c] EXCEPT !.at = "storeLoopback"], None} : call' = [call EXCEPT ![c] = y]
    BY <1>2 DEF AddLoopback, Goto, Return
  <2>4. y \in AnyCall \cup {None} /\ (y # None => y.ifIndex = call[c].ifIndex)
    BY <2>1, <2>3 DEF NewLoCall, AnyCall
  <2>5. UNCHANGED <<nextIfId, freeIfIndex, logicalIntf, vtepDb, subIntf, subCfg>>
    BY <1>2 DEF AddLoopback, ifVars, dbVars, cfgVars
  <2>6. SubIds' \subseteq SubIds
    BY <2>1, <2>3, <2>5, SubIdsKept DEF At, UInv
  <2> QED BY <1>1, <2>2, <2>3, <2>4, <2>5, <2>6, QuietCall DEF Carries
<1>3. CASE StoreLoopback(c)
  <2> DEFINE y == [call[c] EXCEPT !.at = "loCreated"]
             l == call[c].lo
             z == <<call[c].ifIndex, "lo", l>>
  <2>1. At(c, "storeLoopback") /\ call[c] \in NewLoCall
    BY <1>3, CallFields DEF UInv, StoreLoopback
  <2>2. Carries(call[c]) /\ y \in AnyCall /\ y.at = "loCreated" /\ l \in Lo /\ call[c].ifIndex \in IfId
    BY <2>1, NewLoFields DEF At, Carries, AnyCall
  <2>3. /\ call' = [call EXCEPT ![c] = y]
        /\ logicalIntf' = [logicalIntf EXCEPT ![l] = call[c].ifIndex]
        /\ UNCHANGED <<nextIfId, freeIfIndex, subIntf, vtepDb, subCfg>>
    BY <1>3 DEF StoreLoopback, Goto, ifVars, cfgVars
  <2>4. logicalIntf \in [Lo -> IfId \cup {None}]
    BY DEF UInv, UType
  <2>5. ~Carries(y)
    BY <2>2 DEF Carries, PendingSteps
  <2> HIDE DEF y
  <2>6. UType'
    BY <2>2, <2>3 DEF UInv, UType, IdType
  <2>7. LoIds' \cup SubIds' \subseteq LoIds \cup SubIds \cup {z}
    <3>1. LoIds' \subseteq LoIds \cup {z}
      BY <2>2, <2>3, <2>4 DEF LoIds
    <3>2. SubIds' \subseteq SubIds
      BY <2>1, <2>3, SubIdsKept DEF At, UInv
    <3> QED BY <3>1, <3>2
  <2>8. z[1] = call[c].ifIndex
    OBVIOUS
  <2> HIDE DEF z
  <2> QED BY <2>2, <2>3, <2>5, <2>6, <2>7, <2>8, CallGives
<1>4. CASE DropLoopback(c)
  <2> DEFINE y == [call[c] EXCEPT !.at = "loDeleted"]
             l == call[c].lo
  <2>1. At(c, "dropLoopback") /\ call[c] \in OldLoCall
    BY <1>4, CallFields DEF UInv, DropLoopback
  <2>2. y \in AnyCall /\ y.at = "loDeleted" /\ l \in Lo
    BY <2>1, OldLoFields DEF AnyCall
  <2>3. call' = [call EXCEPT ![c] = y] /\ UNCHANGED <<subIntf, vtepDb, subCfg>>
    BY <1>4 DEF DropLoopback, Goto, cfgVars
  <2>4. ~Carries(y)
    BY <2>2 DEF Carries, PendingSteps
  <2> HIDE DEF y
  <2>5. CASE logicalIntf[l] = None
    <3>1. UNCHANGED <<nextIfId, freeIfIndex, logicalIntf>>
      BY <1>4, <2>5 DEF DropLoopback, ifVars
    <3>2. SubIds' \subseteq SubIds
      BY <2>1, <2>3, SubIdsKept DEF At, UInv
    <3> QED BY <1>1, <2>2, <2>3, <2>4, <3>1, <3>2, QuietCall
  <2>6. CASE logicalIntf[l] # None
    <3> DEFINE i == logicalIntf[l]
               x == <<i, "lo", l>>
    <3>1. FreeIfIndex(i) /\ logicalIntf' = [logicalIntf EXCEPT ![l] = None]
      BY <1>4, <2>6 DEF DropLoopback
    <3>2. logicalIntf \in [Lo -> IfId \cup {None}] /\ i \in IfId
      BY <2>2, <2>6 DEF UInv, UType
    <3>3. UType'
      <4>1. IdType'
        BY <3>1, <3>2, Frees DEF UInv, UType
      <4> QED BY <2>2, <2>3, <3>1, <3>2, <4>1 DEF UInv, UType
    <3>4. PICK z : z[1] = i /\ FreeIds' \subseteq FreeIds \cup {z} /\ UNCHANGED nextIfId
      BY <3>1, <3>2, FreesId DEF UInv
    <3>5. x \in LoIds /\ LoIds' \subseteq LoIds \ {x}
      BY <2>2, <2>6, <3>1, <3>2 DEF LoIds
    <3>6. x \notin SubIds \cup VtepIds \cup CallIds \cup FreeIds /\ x[1] = z[1]
      BY <3>4 DEF SubIds, VtepIds, CallIds, FreeIds
    <3>7. CallIds' \subseteq CallIds /\ SubIds' \subseteq SubIds /\ VtepIds' = VtepIds
      BY <2>1, <2>3, <2>4, CallIdsMove, SubIdsKept DEF UInv, At, VtepIds
    <3> HIDE DEF x
    <3>8. Ids' \subseteq (Ids \ {x}) \cup {z} /\ x \in Ids
      BY <3>4, <3>5, <3>6, <3>7 DEF Ids, Taken
    <3> QED BY <3>3, <3>4, <3>6, <3>8, IdMoves
  <2> QED BY <2>5, <2>6
<1>5. CASE LoopbackReturns(c)
  <2>1. UNCHANGED <<nextIfId, freeIfIndex, logicalIntf, subIntf, vtepDb, subCfg>>
    BY <1>5 DEF LoopbackReturns, ifVars, dbVars
  <2>2. SubIds' \subseteq SubIds
    BY <1>5, <2>1, SubIdsKept DEF LoopbackReturns, Return, At, UInv
  <2> QED BY <1>1, <1>5, <2>1, <2>2, NoneCarried, QuietCall DEF LoopbackReturns, Return
<1>6. CASE \E l \in Lo : DeleteLogicalIntf(c, l)
  <2>1. PICK l \in Lo : DeleteLogicalIntf(c, l)
    BY <1>6
  <2> DEFINE y == [at |-> "dropLoopback", lo |-> l]
  <2>2. y \in AnyCall /\ ~Carries(y)
    BY DEF OldLoCall, AnyCall, Carries, PendingSteps
  <2>3. /\ call' = [call EXCEPT ![c] = y]
        /\ UNCHANGED <<nextIfId, freeIfIndex, logicalIntf, subIntf, vtepDb, subCfg>>
    BY <2>1 DEF DeleteLogicalIntf, ifVars, dbVars, cfgVars
  <2>4. SubIds' \subseteq SubIds
    BY <2>1, <2>3, SubIdsKept DEF DeleteLogicalIntf, Idle, At, UInv
  <2> HIDE DEF y
  <2> QED BY <1>1, <2>2, <2>3, <2>4, QuietCall
<1> QED BY <1>2, <1>3, <1>4, <1>5, <1>6

LEMMA AddSubLinkIds ==
  ASSUME UInv, NEW c \in Client, AddSubLink(c)
  PROVE  UInv'
<1> DEFINE named(n) == [at |-> "nameSub", sub |-> call[c].sub, ifIndex |-> call[c].ifIndex,
                        name |-> n]
           name == LinkName(call[c].sub, call[c].ifIndex)
<1>1. At(c, "addSub") /\ call[c] \in NewSubCall /\ call[c].at = "addSub"
  BY CallFields DEF UInv, AddSubLink, At, NewSteps
<1>2. call[c].sub \in SubType /\ call[c].ifIndex \in IfId /\ Carries(call[c])
  BY <1>1, NewSubFields DEF Carries, At, PendingSteps
<1>3. name \in IfName /\ NoName \in IfName
  BY <1>2, SubNames DEF IfName
<1>4. \A n \in IfName : named(n) \in AnyCall /\ named(n).ifIndex = call[c].ifIndex
  BY <1>2 DEF NewSubCall, AnyCall
<1>5. PICK y : call' = [call EXCEPT ![c] = y] /\ y \in {None, named(NoName), named(name)}
  BY DEF AddSubLink, GotNamed, Return
<1> HIDE DEF name, named
<1>6. y \in AnyCall \cup {None} /\ (Carries(y) => y.ifIndex = call[c].ifIndex)
  BY <1>3, <1>4, <1>5, NoneCarried
<1>7. UNCHANGED <<nextIfId, freeIfIndex, logicalIntf, subIntf, vtepDb, subCfg>>
  BY DEF AddSubLink, ifVars, dbVars, cfgVars
<1>8. SubIds' \subseteq SubIds /\ subCfg' \subseteq SubType /\ subIntf' \in Seq(SubEntry)
  BY <1>1, <1>5, <1>7, SubIdsKept DEF At, UInv, UType
<1> QED BY <1>2, <1>5, <1>6, <1>7, <1>8, QuietCall

LEMMA GoOnIds ==
  ASSUME UInv, NEW c \in Client, VerifySub(c) \/ NameSub(c)
  PROVE  UInv'
<1>1. (At(c, "verifySub") \/ At(c, "nameSub")) /\ call[c] \in NewSubCall
  BY CallFields DEF UInv, VerifySub, NameSub, NewSteps
<1>2. Carries(call[c]) /\ ~At(c, "removeSub")
  BY <1>1 DEF Carries, At, PendingSteps
<1>3. PICK y : /\ call' = [call EXCEPT ![c] = y] /\ y \in NewSubCall \cup {None}
               /\ Carries(y) => y.ifIndex = call[c].ifIndex
  <2>1. CASE VerifySub(c)
    <3>1. [call[c] EXCEPT !.at = "addSub"] \in NewSubCall
      BY <1>1, <2>1, NewSubMoves DEF VerifySub, At
    <3>2. [call[c] EXCEPT !.at = "addSub"].ifIndex = call[c].ifIndex
      BY <1>1, <2>1 DEF VerifySub, At, NewSubCall
    <3> QED BY <2>1, <3>1, <3>2, NoneCarried DEF VerifySub, Goto, Return
  <2>2. CASE NameSub(c)
    <3>1. [call[c] EXCEPT !.at = "storeSub"] \in NewSubCall
      BY <1>1, <2>2, NewSubMoves DEF NameSub, At
    <3>2. [call[c] EXCEPT !.at = "storeSub"].ifIndex = call[c].ifIndex
      BY <1>1, <2>2 DEF NameSub, At, NewSubCall
    <3> QED BY <2>2, <3>1, <3>2 DEF NameSub, Goto
  <2> QED BY <2>1, <2>2
<1>4. UNCHANGED <<nextIfId, freeIfIndex, logicalIntf, subIntf, vtepDb, subCfg>>
  BY DEF VerifySub, NameSub, UpdateIfNameForIfIndex, ifVars, dbVars, cfgVars
<1>5. SubIds' \subseteq SubIds /\ subCfg' \subseteq SubType /\ subIntf' \in Seq(SubEntry)
  BY <1>2, <1>3, <1>4, SubIdsKept DEF UInv, UType
<1>6. y \in AnyCall \cup {None}
  BY <1>3 DEF AnyCall
<1> QED BY <1>2, <1>3, <1>4, <1>5, <1>6, QuietCall

LEMMA StoreSubIds ==
  ASSUME UInv, NEW c \in Client, StoreSub(c)
  PROVE  UInv'
<1> DEFINE y == [at |-> "subCreated", sub |-> call[c].sub]
           x == [ip |-> call[c].sub.ip, ifIndex |-> call[c].ifIndex, name |-> call[c].name,
                 enable |-> call[c].sub.enable]
           n == Len(subIntf) + 1
           z == <<call[c].ifIndex, "sub", n>>
<1>1. At(c, "storeSub") /\ call[c] \in NewSubCall /\ call[c].at = "storeSub"
  BY CallFields DEF UInv, StoreSub, At, NewSteps
<1>2. /\ call[c].sub \in SubType /\ call[c].ifIndex \in IfId /\ call[c].name \in IfName
      /\ Carries(call[c])
  BY <1>1, NewSubFields DEF Carries, At, PendingSteps
<1>3. x \in SubEntry /\ x.ifIndex = call[c].ifIndex
  BY <1>2 DEF SubEntry, SubType
<1>4. y \in AnyCall /\ ~Carries(y)
  BY <1>2 DEF NewSubCall, AnyCall, Carries, PendingSteps
<1>5. /\ call' = [call EXCEPT ![c] = y] /\ subIntf' = Append(subIntf, x)
      /\ UNCHANGED <<nextIfId, freeIfIndex, logicalIntf, vtepDb, subCfg>>
  BY DEF StoreSub, ifVars, cfgVars
<1> HIDE DEF x, y
<1>6. subIntf \in Seq(SubEntry)
  BY DEF UInv, UType
<1>7. /\ subIntf' \in Seq(SubEntry)
      /\ DOMAIN subIntf' = DOMAIN subIntf \cup {n} /\ subIntf'[n] = x
      /\ \A e \in DOMAIN subIntf : subIntf'[e] = subIntf[e]
  BY <1>3, <1>5, <1>6
<1>8. UType'
  BY <1>4, <1>5, <1>7 DEF UInv, UType, IdType
<1>9. SubIds' \subseteq SubIds \cup {z}
  <2>1. ASSUME NEW e, Leaving(e)
        PROVE  Leaving(e)'
    <3>1. PICK d \in Editor : At(d, "removeSub") /\ call[d].place = e
      BY <2>1 DEF Leaving
    <3>2. call'[d] = call[d]
      BY <1>1, <1>5, <3>1 DEF UInv, UType, At
    <3> QED BY <3>1, <3>2 DEF Leaving, At
  <2> QED BY <1>3, <1>7, <2>1 DEF SubIds
<1>10. LoIds' \cup SubIds' \subseteq LoIds \cup SubIds \cup {z} /\ z[1] = call[c].ifIndex
  BY <1>5, <1>9 DEF LoIds
<1> HIDE DEF z
<1> QED BY <1>2, <1>4, <1>5, <1>8, <1>10, CallGives

\* With one editor that is not removing anything no sub-interface is leaving.
LEMMA NoneLeaves ==
  ASSUME OneEditor, NEW c \in Editor, ~At(c, "removeSub")
  PROVE  \A e : ~Leaving(e)
BY DEF OneEditor, Leaving

\* The entry that leaves gives its id back.
LEMMA FreeSubIds ==
  ASSUME UInv, OneEditor, NEW c \in Editor, FreeSub(c), InList(c)
  PROVE  UInv'
<1>0. PICK e : e = call[c].place
  OBVIOUS
<1> DEFINE i == subIntf[e].ifIndex
           x == <<i, "sub", e>>
           y == [call[c] EXCEPT !.at = "removeSub"]
<1>1. c \in Client /\ At(c, "freeSub") /\ call[c] \in OldSubCall
  BY EditorAssumption, CallFields DEF UInv, FreeSub, OldSteps, Client
<1>2. /\ y \in AnyCall /\ y.at = "removeSub" /\ y.place = e /\ ~Carries(y)
      /\ y # None
  <2>1. y \in OldSubCall /\ y.at = "removeSub" /\ y.place = e
    <3>1. "removeSub" \in OldSteps
      BY DEF OldSteps
    <3> QED BY <1>0, <1>1, <3>1, OldSubFields
  <2> QED BY <2>1, NamesAssumption DEF AnyCall, Carries, PendingSteps
<1>3. /\ call' = [call EXCEPT ![c] = y] /\ FreeIfIndex(i)
      /\ UNCHANGED <<logicalIntf, subIntf, vtepDb, subCfg>>
  BY <1>0 DEF FreeSub, Goto, dbVars, cfgVars
<1>4. subIntf \in Seq(SubEntry) /\ e \in DOMAIN subIntf
  BY <1>0 DEF UInv, UType, InList
<1>5. i \in IfId
  <2>1. subIntf[e] \in SubEntry
    BY <1>4
  <2> QED BY <2>1 DEF SubEntry
<1> HIDE DEF y, i
<1>6. UType'
  <2>1. IdType'
    BY <1>3, <1>5, Frees DEF UInv, UType
  <2> QED BY <1>2, <1>3, <2>1 DEF UInv, UType
<1>7. PICK f : f[1] = i /\ FreeIds' \subseteq FreeIds \cup {f} /\ UNCHANGED nextIfId
  BY <1>3, <1>5, FreesId DEF UInv
<1>8. x \in SubIds
  BY <1>1, <1>4, NoneLeaves DEF SubIds, At, i
<1>9. SubIds' \subseteq SubIds \ {x}
  <2>1. Leaving(e)'
    <3>1. call'[c] = y
      BY <1>1, <1>3 DEF UInv, UType
    <3> QED BY <1>2, <3>1 DEF Leaving, At
  <2>2. SubIds' \subseteq SubIds
    BY <1>1, <1>3, SubIdsKept DEF At, UInv
  <2>3. ASSUME NEW z \in SubIds'
        PROVE  z # x
    <3>1. PICK d : ~Leaving(d)' /\ z = <<subIntf'[d].ifIndex, "sub", d>>
      BY DEF SubIds
    <3>2. d # e
      BY <2>1, <3>1
    <3> QED BY <3>1, <3>2
  <2> QED BY <2>2, <2>3
<1>10. x \notin LoIds \cup VtepIds \cup CallIds \cup FreeIds /\ x[1] = f[1]
  BY <1>7 DEF LoIds, VtepIds, CallIds, FreeIds
<1>11. CallIds' \subseteq CallIds /\ LoIds' = LoIds /\ VtepIds' = VtepIds
  BY <1>1, <1>2, <1>3, CallIdsMove DEF UInv, LoIds, VtepIds
<1> HIDE DEF x
<1>12. Ids' \subseteq (Ids \ {x}) \cup {f} /\ x \in Ids
  BY <1>7, <1>8, <1>9, <1>10, <1>11 DEF Ids, Taken
<1> QED BY <1>6, <1>7, <1>10, <1>12, IdMoves

\* The entries behind the one that is removed move up.
LEMMA RemoveSubIds ==
  ASSUME UInv, OneEditor, NEW c \in Editor, RemoveSub(c)
  PROVE  UInv'
<1> DEFINE e == call[c].place
           n == Len(subIntf)
           y == [call[c] EXCEPT !.at = "subDeleted"]
           old(d) == IF d < e THEN d ELSE d + 1
           was(z) == IF z \in SubIds' THEN <<z[1], "sub", old(z[3])>> ELSE z
<1>1. c \in Client /\ At(c, "removeSub") /\ call[c] \in OldSubCall
  BY EditorAssumption, CallFields DEF UInv, RemoveSub, OldSteps, Client
<1>2. y \in AnyCall /\ ~Carries(y)
  <2>1. y \in OldSubCall /\ y.at = "subDeleted"
    <3>1. "subDeleted" \in OldSteps
      BY DEF OldSteps
    <3> QED BY <1>1, <3>1, OldSubFields
  <2> QED BY <2>1 DEF AnyCall, Carries, PendingSteps
<1>3. /\ call' = [call EXCEPT ![c] = y] /\ subIntf' = RemoveAt(subIntf, e)
      /\ UNCHANGED <<nextIfId, freeIfIndex, logicalIntf, vtepDb, subCfg>>
  BY DEF RemoveSub, Goto, ifVars, cfgVars
<1>4. subIntf \in Seq(SubEntry) /\ n \in Nat /\ DOMAIN subIntf = 1..n /\ e \in 1..n
  BY DEF UInv, UType, RemoveSub, InList
<1>5. /\ subIntf' \in Seq(SubEntry) /\ DOMAIN subIntf' = 1..n - 1
      /\ \A d \in 1..n - 1 : subIntf'[d] = subIntf[old(d)]
  BY <1>3, <1>4, RemoveAtEffect
<1>6. \A d : Leaving(d) => d = e
  BY DEF OneEditor, Leaving
<1> HIDE DEF y
<1>7. UType'
  BY <1>2, <1>3, <1>5 DEF UInv, UType, IdType
<1>8. ASSUME NEW z \in SubIds'
      PROVE  z[3] \in 1..n - 1 /\ z[2] = "sub" /\ was(z) \in Ids /\ was(z)[1] = z[1]
  <2>1. PICK d \in 1..n - 1 : z = <<subIntf[old(d)].ifIndex, "sub", d>>
    BY <1>5 DEF SubIds
  <2>2. old(d) \in 1..n /\ old(d) # e
    BY <1>4
  <2>3. was(z) = <<subIntf[old(d)].ifIndex, "sub", old(d)>>
    BY <2>1
  <2>4. was(z) \in SubIds
    BY <1>4, <1>6, <2>2, <2>3 DEF SubIds
  <2> QED BY <2>1, <2>3, <2>4 DEF Ids, Taken
<1>9. ASSUME NEW z \in Ids', z \notin SubIds'
      PROVE  z \in Ids /\ z[2] # "sub"
  <2>1. CallIds' \subseteq CallIds
    BY <1>1, <1>2, <1>3, CallIdsMove DEF UInv
  <2>2. LoIds' = LoIds /\ VtepIds' = VtepIds /\ FreeIds' = FreeIds
    BY <1>3 DEF LoIds, VtepIds, FreeIds
  <2>3. z \in LoIds \cup VtepIds \cup CallIds \cup FreeIds
    BY <1>9, <2>1, <2>2 DEF Ids, Taken
  <2>4. z[2] # "sub"
    BY <2>3 DEF LoIds, VtepIds, CallIds, FreeIds
  <2> QED BY <2>3, <2>4 DEF Ids, Taken
<1>10. ASSUME NEW z \in Ids'
       PROVE  was(z) \in Ids /\ was(z)[1] = z[1]
  BY <1>8, <1>9
<1>11. ASSUME NEW z \in Ids', NEW w \in Ids', was(z) = was(w)
       PROVE  z = w
  <2>1. CASE z \in SubIds' /\ w \in SubIds'
    <3>1. PICK d \in 1..n - 1 : z = <<subIntf'[d].ifIndex, "sub", d>>
      BY <1>5, <2>1 DEF SubIds
    <3>2. PICK k \in 1..n - 1 : w = <<subIntf'[k].ifIndex, "sub", k>>
      BY <1>5, <2>1 DEF SubIds
    <3>3. was(z) = <<z[1], "sub", old(d)>> /\ was(w) = <<w[1], "sub", old(k)>>
      BY <2>1, <3>1, <3>2
    <3>4. old(d) = old(k)
      BY <1>11, <3>3
    <3>5. d = k
      BY <1>4, <3>4
    <3> QED BY <3>1, <3>2, <3>5
  <2>2. CASE z \in SubIds' /\ w \notin SubIds'
    BY <1>9, <1>11, <2>2
  <2>3. CASE z \notin SubIds' /\ w \in SubIds'
    BY <1>9, <1>11, <2>3
  <2>4. CASE z \notin SubIds' /\ w \notin SubIds'
    BY <1>11, <2>4
  <2> QED BY <2>1, <2>2, <2>3, <2>4
<1> HIDE DEF was
<1>12. Unique(Ids)'
  <2>1. ASSUME NEW z \in Ids', NEW w \in Ids', z[1] = w[1]
        PROVE  z = w
    <3>1. was(z) = was(w)
      BY <1>10, <2>1 DEF UInv, Unique
    <3> QED BY <1>11, <2>1, <3>1
  <2> QED BY <2>1 DEF Unique
<1>13. Given(Ids)'
  BY <1>3, <1>10 DEF UInv, Given
<1> QED BY <1>7, <1>12, <1>13 DEF UInv

LEMMA SubIdsStay ==
  ASSUME UInv, NEW c \in Client,
         \/ \E sub \in subCfg : DeleteSubIPv4Intf(c, sub) \/ UpdateSubIPv4Intf(c, sub)
         \/ DelSubLink(c) \/ SetSubLink(c) \/ StoreEnable(c) \/ SubReturns(c)
         \/ FreeSub(c) /\ ~InList(c)
  PROVE  UInv'
<1>1. subIntf \in Seq(SubEntry) /\ subCfg \subseteq SubType
  BY DEF UInv, UType
<1>2. UNCHANGED <<nextIfId, freeIfIndex, logicalIntf, vtepDb>>
  BY DEF DeleteSubIPv4Intf, UpdateSubIPv4Intf, DelSubLink, SetSubLink, StoreEnable, SubReturns,
         FreeSub, ifVars, dbVars
<1>3. \A x \in OldSubCall : x \in AnyCall \cup {None} /\ ~Carries(x)
  BY OldSubFields DEF AnyCall, Carries, PendingSteps, OldSteps
<1>4. PICK y \in OldSubCall \cup {None} : call' = [call EXCEPT ![c] = y]
  <2>1. CASE \E sub \in subCfg : DeleteSubIPv4Intf(c, sub) \/ UpdateSubIPv4Intf(c, sub)
    <3>1. PICK sub \in subCfg : DeleteSubIPv4Intf(c, sub) \/ UpdateSubIPv4Intf(c, sub)
      BY <2>1
    <3>2. sub \in SubType /\ sub.ip \in Ip
      BY <1>1 DEF SubType
    <3>3. PlaceOf(sub.ip) \in Nat
      BY <1>1, <3>1, <3>2, PlaceIsNat DEF DeleteSubIPv4Intf, UpdateSubIPv4Intf
    <3> QED BY <3>1, <3>2, <3>3 DEF DeleteSubIPv4Intf, UpdateSubIPv4Intf, OldSubCall
  <2>2. CASE DelSubLink(c) \/ SetSubLink(c) \/ StoreEnable(c) \/ (FreeSub(c) /\ ~InList(c))
    <3>1. At(c, "delSub") \/ At(c, "setSub") \/ At(c, "storeEnable") \/ At(c, "freeSub")
      BY <2>2 DEF DelSubLink, SetSubLink, StoreEnable, FreeSub
    <3>2. call[c] \in OldSubCall
      BY <3>1, CallFields DEF UInv, OldSteps
    <3>3. Return(c) \/ \E s \in OldSteps : Goto(c, s)
      BY <2>2 DEF DelSubLink, SetSubLink, StoreEnable, FreeSub, OldSteps
    <3> QED BY <3>2, <3>3, OldCallMoves
  <2>3. CASE SubReturns(c)
    BY <2>3 DEF SubReturns, Return
  <2> QED BY <2>1, <2>2, <2>3
<1>5. subCfg' \subseteq SubType
  <2>1. CASE SubReturns(c)
    <3>1. call[c] \in NewSubCall \cup OldSubCall
      BY <2>1, CallFields DEF UInv, SubReturns, NewSteps, OldSteps
    <3>2. call[c].sub \in SubType
      BY <3>1, NewSubFields, OldSubFields
    <3>3. [call[c].sub EXCEPT !.enable = ~@] \in SubType
      BY <3>2 DEF SubType
    <3> QED BY <1>1, <2>1, <3>2, <3>3 DEF SubReturns
  <2>2. CASE UNCHANGED subCfg
    BY <1>1, <2>2
  <2> QED BY <2>1, <2>2 DEF DeleteSubIPv4Intf, UpdateSubIPv4Intf, DelSubLink, SetSubLink,
                            StoreEnable, FreeSub, cfgVars
<1>6. /\ subIntf' \in Seq(SubEntry) /\ DOMAIN subIntf' = DOMAIN subIntf
      /\ \A e \in DOMAIN subIntf : subIntf'[e].ifIndex = subIntf[e].ifIndex
  <2>1. CASE StoreEnable(c) /\ InList(c)
    <3>1. /\ subIntf' = [subIntf EXCEPT ![call[c].place].enable = ~call[c].sub.enable]
          /\ call[c].place \in DOMAIN subIntf
      BY <2>1 DEF StoreEnable, InList, NewEnable
    <3>2. [subIntf[call[c].place] EXCEPT !.enable = ~call[c].sub.enable] \in SubEntry
      <4>1. subIntf[call[c].place] \in SubEntry
        BY <1>1, <3>1
      <4> QED BY <4>1 DEF SubEntry
    <3>3. subIntf' \in Seq(SubEntry) /\ DOMAIN subIntf' = DOMAIN subIntf
      BY <1>1, <3>1, <3>2
    <3>4. \A e \in DOMAIN subIntf : subIntf'[e].ifIndex = subIntf[e].ifIndex
      <4>1. \A e \in DOMAIN subIntf : subIntf[e] \in SubEntry
        BY <1>1
      <4> QED BY <1>1, <3>1, <4>1 DEF SubEntry
    <3> QED BY <3>3, <3>4
  <2>2. CASE UNCHANGED subIntf
    BY <1>1, <2>2
  <2> QED BY <2>1, <2>2 DEF DeleteSubIPv4Intf, UpdateSubIPv4Intf, DelSubLink, SetSubLink,
                            StoreEnable, SubReturns, FreeSub, dbVars
<1>7. SubIds' \subseteq SubIds
  <2>1. ~At(c, "removeSub")
    BY DEF DeleteSubIPv4Intf, UpdateSubIPv4Intf, DelSubLink, SetSubLink, StoreEnable, SubReturns,
           FreeSub, At, Idle
  <2> QED BY <1>4, <1>6, <2>1, SubIdsKept DEF UInv
<1> QED BY <1>2, <1>3, <1>4, <1>5, <1>6, <1>7, NoneCarried, QuietCall

LEMMA VxlanIds ==
  ASSUME UInv, NEW c \in Client,
         \/ \E v \in Vni : CreateVxlan(c, v) \/ DeleteVxlan(c, v)
         \/ \E t \in Vtep, v \in Vni : CreateVtep(c, t, v)
         \/ \E t \in Vtep : DeleteVtep(c, t)
  PROVE  UInv'
<1>1. UNCHANGED <<logicalIntf, subIntf, subCfg, call>>
  BY DEF CreateVxlan, DeleteVxlan, CreateVtep, DeleteVtep, cfgVars
<1>2. LoIds' = LoIds /\ SubIds' = SubIds /\ CallIds' = CallIds
  BY <1>1 DEF LoIds, SubIds, CallIds, Leaving, At
<1>3. vtepDb = [u \in Vtep |-> vtepDb[u]]
  BY DEF UInv, UType
<1>4. CASE \E t \in Vtep, v \in Vni : CreateVtep(c, t, v)
  <2>1. PICK t \in Vtep, v \in Vni : CreateVtep(c, t, v)
    BY <1>4
  <2> DEFINE i == NewIfIndex("Vtep")
             z == <<i, "vtep", t>>
  <2>2. /\ AllocateIfIndex(t, "Vtep") /\ "Vtep" \in IfType
        /\ vtepDb' = [vtepDb EXCEPT ![t] = [vni |-> v, ifIndex |-> i]]
    BY <2>1 DEF CreateVtep, IfType
  <2>3. UType'
    <3>1. IdType'
      BY <2>2, Allocates DEF UInv, UType
    <3>2. (vtepDb = [u \in Vtep |-> vtepDb[u]])'
      BY <1>3, <2>2
    <3> QED BY <1>1, <3>1, <3>2 DEF UInv, UType
  <2>4. VtepIds' \subseteq VtepIds \cup {z}
    <3>1. vtepDb'[t].ifIndex = i /\ \A u \in Vtep \ {t} : vtepDb'[u] = vtepDb[u]
      BY <1>3, <2>2
    <3> QED BY <3>1 DEF VtepIds
  <2>5. Taken' \subseteq Taken \cup {z} /\ z[1] = i
    BY <1>2, <2>4 DEF Taken
  <2> HIDE DEF z
  <2> QED BY <2>2, <2>3, <2>5, IdTaken
<1>5. CASE UNCHANGED <<nextIfId, freeIfIndex>> /\
           (UNCHANGED vtepDb \/ \E t \in Vtep : vtepDb' = [vtepDb EXCEPT ![t] = None])
  <2>1. UType'
    BY <1>1, <1>3, <1>5 DEF UInv, UType, IdType
  <2>2. VtepIds' \subseteq VtepIds
    BY <1>3, <1>5 DEF VtepIds
  <2>3. Ids' \subseteq Ids
    BY <1>2, <1>5, <2>2 DEF Ids, Taken, FreeIds
  <2> QED BY <1>5, <2>1, <2>3, IdsStay
<1> QED BY <1>4, <1>5 DEF CreateVxlan, DeleteVxlan, DeleteVtep, ifVars

LEMMA RestartIds ==
  ASSUME UInv, StartAgain
  PROVE  UInv'
<1>1. /\ nextIfId' = [t \in IfType |-> 0] /\ freeIfIndex' = [t \in IfType |-> << >>]
      /\ logicalIntf' = [l \in Lo |-> None] /\ subIntf' = << >>
      /\ vtepDb' = [t \in Vtep |-> None] /\ call' = [c \in Client |-> None]
      /\ UNCHANGED subCfg
  BY DEF StartAgain, cfgVars
<1>2. UType'
  BY <1>1 DEF UInv, UType, IdType
<1>3. Ids' = {}
  BY <1>1 DEF Ids, Taken, LoIds, SubIds, VtepIds, CallIds, FreeIds, Carries
<1> QED BY <1>2, <1>3 DEF UInv, Unique, Given

LEMMA NextUInv ==
  ASSUME UInv, OneEditor, [Next]_vars
  PROVE  UInv'
<1>1. subCfg \subseteq SubType /\ SubCfg \subseteq SubType
  BY SubCfgAssumption DEF UInv, UType
<1>2. CASE \/ \E c \in LoClient, l \in Lo : CreateLogicalIntf(c, l) \/ DeleteLogicalIntf(c, l)
           \/ \E c \in LoClient \cup {Boot} : AddLoopback(c) \/ StoreLoopback(c)
           \/ \E c \in LoClient : DropLoopback(c) \/ LoopbackReturns(c)
           \/ \E l \in Lo : RestoreLogicalIntf(l)
  BY <1>2, LoopbackIds, StartLogicalIds
     DEF CreateLogicalIntf, RestoreLogicalIntf, Client, Idle
<1>3. CASE \/ \E c \in SubClient, sub \in SubCfg : CreateSubIPv4Intf(c, sub)
           \/ \E sub \in subCfg : RestoreSubIPv4Intf(sub)
  BY <1>1, <1>3, StartSubIds DEF CreateSubIPv4Intf, RestoreSubIPv4Intf, Client, Idle
<1>4. CASE \/ \E c \in Editor, sub \in subCfg :
                DeleteSubIPv4Intf(c, sub) \/ UpdateSubIPv4Intf(c, sub)
           \/ \E c \in Editor : \/ DelSubLink(c) \/ FreeSub(c) \/ RemoveSub(c) \/ SetSubLink(c)
                                \/ StoreEnable(c)
           \/ \E c \in SubClient : SubReturns(c)
  BY <1>4, SubIdsStay, FreeSubIds, RemoveSubIds, EditorAssumption DEF Client
<1>5. CASE \E c \in SubClient \cup {Boot} :
             VerifySub(c) \/ AddSubLink(c) \/ NameSub(c) \/ StoreSub(c)
  BY <1>5, GoOnIds, AddSubLinkIds, StoreSubIds DEF Client
<1>6. CASE \/ \E c \in VtepClient, v \in Vni : CreateVxlan(c, v) \/ DeleteVxlan(c, v)
           \/ \E c \in VtepClient, t \in Vtep, v \in Vni : CreateVtep(c, t, v)
           \/ \E c \in VtepClient, t \in Vtep : DeleteVtep(c, t)
  BY <1>6, VxlanIds DEF Client
<1>7. CASE Die \/ Deinit
  BY <1>7, RestartIds DEF Die, Deinit
<1>8. CASE RestoreReturns
  <2>1. /\ Boot \in Client /\ call' = [call EXCEPT ![Boot] = None]
        /\ UNCHANGED <<nextIfId, freeIfIndex, logicalIntf, subIntf, vtepDb, subCfg>>
    BY <1>8 DEF RestoreReturns, Return, Client, ifVars, dbVars, cfgVars
  <2>2. subIntf \in Seq(SubEntry) /\ SubIds' \subseteq SubIds
    BY <1>8, <2>1, SubIdsKept DEF UInv, UType, RestoreReturns, At
  <2> QED BY <1>1, <2>1, <2>2, NoneCarried, QuietCall
<1>9. CASE UNCHANGED vars
  <2>1. UNCHANGED <<nextIfId, freeIfIndex, logicalIntf, subIntf, vtepDb, subCfg, call>>
    BY <1>9 DEF vars, ifVars, dbVars, cfgVars
  <2>2. UType'
    BY <2>1 DEF UInv, UType, IdType
  <2>3. Ids' = Ids
    BY <2>1 DEF Ids, Taken, LoIds, SubIds, VtepIds, CallIds, FreeIds, Leaving, At
  <2> QED BY <2>1, <2>2, <2>3, IdsStay
<1> QED BY <1>2, <1>3, <1>4, <1>5, <1>6, <1>7, <1>8, <1>9 DEF Next

LEMMA InitUInv ==
  ASSUME Init
  PROVE  UInv
<1>1. UType
  BY DEF Init, NoIfs, UType, IdType
<1>2. Ids = {}
  BY DEF Init, NoIfs, Ids, Taken, LoIds, SubIds, VtepIds, CallIds, FreeIds, Carries
<1> QED BY <1>1, <1>2 DEF UInv, Unique, Given

\* AllocateIfIndex and FreeIfIndex (ifMgr.go) beside every call that uses them,
\* with any number of clients, one of which deletes and updates sub-interfaces,
\* and the process dying at any step: two interfaces never share an ifIndex, and
\* none has one that is free, but for a sub-interface that is leaving the list.
THEOREM IfIndexesAreUnique == OneEditor => (Spec => []IfIndexUnique)
<1>1. Init => UInv
  BY InitUInv
<1>2. ASSUME OneEditor, UInv, [Next]_vars
      PROVE  UInv'
  BY <1>2, NextUInv
<1>3. UInv => IfIndexUnique
  <2> SUFFICES ASSUME UInv PROVE IfIndexUnique
    OBVIOUS
  <2>1. Unique(Ids)
    BY DEF UInv
  <2> DEFINE Db == LoIds \cup SubIds \cup VtepIds
  <2>2. ASSUME NEW x \in Interfaces
        PROVE  \E p \in Db :
                 /\ p[1] = x[1]
                 /\ \/ p[2] = "lo" /\ p[3] \in Lo /\ x = <<logicalIntf[p[3]], p[3], 0>>
                    \/ p[2] = "sub" /\ x = <<subIntf[p[3]].ifIndex, subIntf[p[3]].name, p[3]>>
                    \/ p[2] = "vtep" /\ x = <<vtepDb[p[3]].ifIndex, p[3], 0>>
    <3>1. CASE \E l \in Lo : logicalIntf[l] # None /\ x = <<logicalIntf[l], l, 0>>
      <4>1. PICK l \in Lo : logicalIntf[l] # None /\ x = <<logicalIntf[l], l, 0>>
        BY <3>1
      <4>2. <<logicalIntf[l], "lo", l>> \in Db
        BY <4>1 DEF LoIds
      <4> QED BY <4>1, <4>2
    <3>2. CASE \E e \in DOMAIN subIntf : ~Leaving(e) /\ x = <<subIntf[e].ifIndex, subIntf[e].name, e>>
      <4>1. PICK e \in DOMAIN subIntf : ~Leaving(e) /\ x = <<subIntf[e].ifIndex, subIntf[e].name, e>>
        BY <3>2
      <4>2. <<subIntf[e].ifIndex, "sub", e>> \in Db
        BY <4>1 DEF SubIds
      <4> QED BY <4>1, <4>2
    <3>3. CASE \E t \in Vtep : vtepDb[t] # None /\ x = <<vtepDb[t].ifIndex, t, 0>>
      <4>1. PICK t \in Vtep : vtepDb[t] # None /\ x = <<vtepDb[t].ifIndex, t, 0>>
        BY <3>3
      <4>2. <<vtepDb[t].ifIndex, "vtep", t>> \in Db
        BY <4>1 DEF VtepIds
      <4> QED BY <4>1, <4>2
    <3> QED BY <3>1, <3>2, <3>3 DEF Interfaces, LoTunnels
  <2>3. \A p \in Db : p \in Ids /\ p \notin FreeIds
    BY FreeApart DEF Ids, Taken
  <2> HIDE DEF Db
  <2>4. ASSUME NEW x \in Interfaces, NEW y \in Interfaces, x[1] = y[1]
        PROVE  x = y
    <3>1. PICK p \in Db :
            /\ p[1] = x[1]
            /\ \/ p[2] = "lo" /\ p[3] \in Lo /\ x = <<logicalIntf[p[3]], p[3], 0>>
               \/ p[2] = "sub" /\ x = <<subIntf[p[3]].ifIndex, subIntf[p[3]].name, p[3]>>
               \/ p[2] = "vtep" /\ x = <<vtepDb[p[3]].ifIndex, p[3], 0>>
      BY <2>2
    <3>2. PICK q \in Db :
            /\ q[1] = y[1]
            /\ \/ q[2] = "lo" /\ q[3] \in Lo /\ y = <<logicalIntf[q[3]], q[3], 0>>
               \/ q[2] = "sub" /\ y = <<subIntf[q[3]].ifIndex, subIntf[q[3]].name, q[3]>>
               \/ q[2] = "vtep" /\ y = <<vtepDb[q[3]].ifIndex, q[3], 0>>
      BY <2>2
    <3>3. p = q
      BY <2>1, <2>3, <2>4, <3>1, <3>2 DEF Unique
    <3> QED BY <3>1, <3>2, <3>3
  <2>5. ASSUME NEW t \in IfType
        PROVE  /\ IsInjective(freeIfIndex[t])
               /\ \A k \in DOMAIN freeIfIndex[t], x \in Interfaces : freeIfIndex[t][k] # x[1]
    <3>1. ASSUME NEW j \in DOMAIN freeIfIndex[t], NEW k \in DOMAIN freeIfIndex[t],
                 freeIfIndex[t][j] = freeIfIndex[t][k]
          PROVE  j = k
      <4>1. /\ <<freeIfIndex[t][j], "free", <<t, j>>>> \in Ids
            /\ <<freeIfIndex[t][k], "free", <<t, k>>>> \in Ids
        BY FreeElements DEF Ids
      <4> QED BY <2>1, <3>1, <4>1 DEF Unique
    <3>2. ASSUME NEW k \in DOMAIN freeIfIndex[t], NEW x \in Interfaces
          PROVE  freeIfIndex[t][k] # x[1]
      <4>1. /\ <<freeIfIndex[t][k], "free", <<t, k>>>> \in FreeIds
            /\ <<freeIfIndex[t][k], "free", <<t, k>>>> \in Ids
        BY FreeElements DEF Ids
      <4>2. PICK p \in Db : p[1] = x[1]
        BY <2>2
      <4> QED BY <2>1, <2>3, <4>1, <4>2 DEF Unique
    <3> QED BY <3>1, <3>2 DEF IsInjective
  <2> QED BY <2>4, <2>5 DEF IfIndexUnique
<1>4. ASSUME OneEditor
      PROVE  Spec => []IfIndexUnique
  <2>1. UInv /\ [Next]_vars => UInv'
    BY <1>2, <1>4
  <2> QED BY <1>1, <1>3, <2>1, PTL DEF Spec
<1> QED BY <1>4

-----------------------------------------------------------------------------
(***************************************************************************)
(* Names.  The maps of the interface manager follow the databases and the  *)
(* calls that have taken an ifIndex.                                       *)
(***************************************************************************)
Named(i, n) == i \in DOMAIN ifNameOf /\ ifNameOf[i] = n
Found(n, i) == n \in DOMAIN ifIndexOf /\ ifIndexOf[n] = i

\* The name under which a call has its ifIndex.
CallName(x) ==
  IF x.at \in {"addLoopback", "storeLoopback"} THEN x.lo
  ELSE IF x.at = "storeSub" THEN x.name
  ELSE TmpName(x.sub)

LoHeld == {<<logicalIntf[l], l>> : l \in {k \in Lo : logicalIntf[k] # None}}
SubHeld == {<<subIntf[e].ifIndex, subIntf[e].name>> : e \in {d \in DOMAIN subIntf : ~Leaving(d)}}
VtepHeld == {<<vtepDb[t].ifIndex, t>> : t \in {u \in Vtep : vtepDb[u] # None}}
CallHeld == {<<call[c].ifIndex, CallName(call[c])>> : c \in {d \in Client : Carries(call[d])}}
Held == LoHeld \cup SubHeld \cup VtepHeld \cup CallHeld

\* The names that only one interface ever has.
Own == Lo \cup Vtep

NamesInv ==
  /\ \A h \in Held : Named(h[1], h[2]) /\ (h[2] \in Own => Found(h[2], h[1]))
  /\ \A n \in DOMAIN ifIndexOf : Named(ifIndexOf[n], n)
  /\ \A i \in DOMAIN ifNameOf :
       /\ i \in IfId /\ i[2] < nextIfId[i[1]]
       /\ \A f \in FreeIds : f[1] # i

\* A loopback is created only where there is none.
Naming(c) == At(c, "addLoopback") \/ At(c, "storeLoopback")

FreshInv ==
  /\ \A l \in Lo : logicalIntf[l] # None =>
       /\ l \notin boot
       /\ l \in loCfg \/ \E c \in Client : At(c, "loCreated") /\ call[c].lo = l
  /\ \A c \in Client : Naming(c) \/ At(c, "loDeleted") => logicalIntf[call[c].lo] = None
  /\ \A c \in Client : call[c] \in NewLoCall => call[c].lo \notin boot
  /\ boot \cap Lo \subseteq loCfg
  /\ call[Boot] \in NewLoCall => call[Boot].lo \in loCfg

VInv == IInv /\ UInv /\ FreshInv /\ NamesInv

-----------------------------------------------------------------------------
\* Steps of one client beside which no other has a call of the kind.
SubSteps == NewSteps \cup OldSteps
LoSteps == {"addLoopback", "storeLoopback", "loCreated", "dropLoopback", "loDeleted"}

LEMMA StepKinds ==
  ASSUME CallType, NEW c \in Client
  PROVE  \A s \in LoSteps : At(c, s) => /\ call[c] \in NewLoCall \cup OldLoCall
                                        /\ c \in LoClient \cup {Boot}
BY CallKinds DEF LoSteps

LEMMA OnlyMyLo ==
  ASSUME IInv, OneLoClient, NEW c \in LoClient \cup {Boot}, Turn(c), NEW y,
         call' = [call EXCEPT ![c] = y]
  PROVE  /\ c \in Client /\ call'[c] = y
         /\ \A d \in Client \ {c} : call'[d] = call[d]
         /\ \A d \in Client \ {c}, s \in LoSteps : ~At(d, s) /\ ~At(d, s)'
         /\ \A d \in Client \ {c} : call[d] \notin NewLoCall
<1>1. c \in Client /\ CallType
  BY DEF Client, IInv
<1>2. call'[c] = y /\ \A d \in Client \ {c} : call'[d] = call[d]
  BY <1>1 DEF CallType
<1>3. ASSUME NEW d \in Client \ {c}, NEW s \in LoSteps, At(d, s)
      PROVE  FALSE
  BY <1>1, <1>3, StepKinds, AloneLo
<1>4. ASSUME NEW d \in Client \ {c}, call[d] \in NewLoCall
      PROVE  FALSE
  BY <1>1, <1>4, AloneLo
<1> QED BY <1>1, <1>2, <1>3, <1>4 DEF At

\* A call that is not one of loopbacks.
LEMMA OtherCalls ==
  ASSUME NEW y \in NewSubCall \cup OldSubCall
  PROVE  y \notin NewLoCall /\ y.at \in SubSteps /\ y.at \notin LoSteps
<1>1. y.at \in SubSteps
  BY NewSubFields, OldSubFields DEF SubSteps
<1>2. \A s \in SubSteps : s \notin LoSteps
  BY DEF SubSteps, LoSteps, NewSteps, OldSteps
<1> QED BY <1>1, <1>2, OtherKinds

-----------------------------------------------------------------------------
(***************************************************************************)
(* Who has which name.                                                     *)
(***************************************************************************)
\* An id that was free or nowhere is no interface's.
LEMMA NewIsNotTaken ==
  ASSUME UInv, NEW t \in IfType, NEW x \in Taken
  PROVE  x[1] # NewIfIndex(t)
<1>1. x \in Ids /\ freeIfIndex \in [IfType -> Seq(IfId)] /\ nextIfId \in [IfType -> Nat]
  BY DEF Ids, UInv, UType, IdType
<1>2. CASE freeIfIndex[t] # << >>
  <2> DEFINE n == Len(freeIfIndex[t])
             f == <<freeIfIndex[t][n], "free", <<t, n>>>>
  <2>1. n \in DOMAIN freeIfIndex[t]
    <3>1. freeIfIndex[t] \in Seq(IfId)
      BY <1>1
    <3> QED BY <1>2, <3>1
  <2>2. f \in FreeIds
    BY <2>1, FreeElements
  <2>3. f \in Ids /\ f # x
    BY <2>2, FreeApart DEF Ids
  <2> QED BY <1>1, <1>2, <2>3 DEF UInv, Unique, NewIfIndex
<1>3. CASE freeIfIndex[t] = << >>
  BY <1>1, <1>3 DEF UInv, Given, NewIfIndex
<1> QED BY <1>2, <1>3

\* Whose name it is.
LEMMA HeldKinds ==
  ASSUME NEW h \in Held
  PROVE  \E x \in Taken :
           /\ x[1] = h[1]
           /\ \/ x[2] = "lo" /\ x[3] = h[2] /\ h[2] \in Lo /\ logicalIntf[h[2]] # None
              \/ x[2] = "sub" /\ x[3] \in DOMAIN subIntf /\ h[2] = subIntf[x[3]].name
              \/ x[2] = "vtep" /\ x[3] = h[2] /\ h[2] \in Vtep /\ vtepDb[h[2]] # None
              \/ /\ x[2] = "call" /\ x[3] \in Client /\ Carries(call[x[3]])
                 /\ h[2] = CallName(call[x[3]])
<1>1. CASE \E l \in Lo : logicalIntf[l] # None /\ h = <<logicalIntf[l], l>>
  <2>1. PICK l \in Lo : logicalIntf[l] # None /\ h = <<logicalIntf[l], l>>
    BY <1>1
  <2>2. <<logicalIntf[l], "lo", l>> \in Taken
    BY <2>1 DEF Taken, LoIds
  <2> QED BY <2>1, <2>2
<1>2. CASE \E e \in DOMAIN subIntf : ~Leaving(e) /\ h = <<subIntf[e].ifIndex, subIntf[e].name>>
  <2>1. PICK e \in DOMAIN subIntf : ~Leaving(e) /\ h = <<subIntf[e].ifIndex, subIntf[e].name>>
    BY <1>2
  <2>2. <<subIntf[e].ifIndex, "sub", e>> \in Taken
    BY <2>1 DEF Taken, SubIds
  <2> QED BY <2>1, <2>2
<1>3. CASE \E t \in Vtep : vtepDb[t] # None /\ h = <<vtepDb[t].ifIndex, t>>
  <2>1. PICK t \in Vtep : vtepDb[t] # None /\ h = <<vtepDb[t].ifIndex, t>>
    BY <1>3
  <2>2. <<vtepDb[t].ifIndex, "vtep", t>> \in Taken
    BY <2>1 DEF Taken, VtepIds
  <2> QED BY <2>1, <2>2
<1>4. CASE \E c \in Client : Carries(call[c]) /\ h = <<call[c].ifIndex, CallName(call[c])>>
  <2>1. PICK c \in Client : Carries(call[c]) /\ h = <<call[c].ifIndex, CallName(call[c])>>
    BY <1>4
  <2>2. <<call[c].ifIndex, "call", c>> \in Taken
    BY <2>1 DEF Taken, CallIds
  <2> QED BY <2>1, <2>2
<1> QED BY <1>1, <1>2, <1>3, <1>4 DEF Held, LoHeld, SubHeld, VtepHeld, CallHeld

\* The interfaces that a call carries are loopbacks or have a name of nobody's own.
LEMMA CallNames ==
  ASSUME IInv, NEW c \in Client, Carries(call[c])
  PROVE  \/ Naming(c) /\ call[c] \in NewLoCall /\ CallName(call[c]) = call[c].lo /\ call[c].lo \in Lo
         \/ ~Naming(c) /\ call[c] \in NewSubCall /\ CallName(call[c]) \notin Own
<1>1. CASE Naming(c)
  <2>1. call[c] \in NewLoCall
    BY <1>1, CallKinds DEF IInv, Naming
  <2>2. call[c].lo \in Lo /\ CallName(call[c]) = call[c].lo
    BY <1>1, <2>1, NewLoFields DEF CallName, Naming, At
  <2> QED BY <1>1, <2>1, <2>2
<1>2. CASE ~Naming(c)
  <2>1. call[c] \in NewSubCall /\ call[c].at \in PendingSteps
    <3>1. call[c] # None /\ call[c].at \in PendingSteps
      BY <1>2 DEF Naming, At, Carries
    <3>2. \E s \in NewSteps : At(c, s)
      BY <3>1 DEF At, PendingSteps, NewSteps
    <3> QED BY <3>1, <3>2, CallKinds DEF IInv
  <2>2. call[c].sub \in SubType /\ (call[c].at = "storeSub" => call[c].name \in IfName)
    BY <2>1, NewSubFields
  <2>3. \A l \in Lo \cup Vtep : l \notin IfName
    BY NamesAssumption
  <2>4. TmpName(call[c].sub) \notin Own
    BY <2>2, NamesAssumption DEF Own
  <2> QED BY <1>2, <2>1, <2>2, <2>3, <2>4 DEF CallName, PendingSteps, Own
<1> QED BY <1>1, <1>2

\* A loopback's name is that of its entry or of its call.
LEMMA OwnName ==
  ASSUME IInv, NEW h \in Held, h[2] \in Own
  PROVE  \/ h[2] \in Lo /\ h = <<logicalIntf[h[2]], h[2]>> /\ logicalIntf[h[2]] # None
         \/ h[2] \in Vtep /\ h = <<vtepDb[h[2]].ifIndex, h[2]>> /\ vtepDb[h[2]] # None
         \/ \E c \in Client : Naming(c) /\ call[c].lo = h[2] /\ h[2] \in Lo
<1>1. h \notin SubHeld
  <2>1. \A g \in SubHeld : g[2] \in IfName
    BY ListTypes DEF SubHeld
  <2> QED BY <2>1, NamesAssumption DEF Own
<1>2. CASE h \in CallHeld
  BY <1>2, CallNames DEF CallHeld
<1>3. CASE h \in LoHeld \cup VtepHeld
  BY <1>3 DEF LoHeld, VtepHeld
<1> QED BY <1>1, <1>2, <1>3 DEF Held

\* The calls of the others, beside what the call of c has become.
LEMMA CallHeldMoves ==
  ASSUME UType, NEW c \in Client, NEW y, call' = [call EXCEPT ![c] = y]
  PROVE  \A h \in CallHeld' :
           \/ \E d \in Client \ {c} : Carries(call[d]) /\ h = <<call[d].ifIndex, CallName(call[d])>>
           \/ Carries(y) /\ h = <<y.ifIndex, CallName(y)>>
<1>1. call'[c] = y /\ \A d \in Client \ {c} : call'[d] = call[d]
  BY DEF UType
<1>2. ASSUME NEW h \in CallHeld'
      PROVE  \E d \in Client : Carries(call'[d]) /\ h = <<call'[d].ifIndex, CallName(call'[d])>>
  BY DEF CallHeld, Carries, CallName
<1> QED BY <1>1, <1>2

LEMMA SubHeldKept ==
  ASSUME UType, NEW c \in Client, NEW y, call' = [call EXCEPT ![c] = y], ~At(c, "removeSub"),
         DOMAIN subIntf' = DOMAIN subIntf,
         \A e \in DOMAIN subIntf : /\ subIntf'[e].ifIndex = subIntf[e].ifIndex
                                   /\ subIntf'[e].name = subIntf[e].name
  PROVE  SubHeld' \subseteq SubHeld
<1>1. ASSUME NEW e, Leaving(e)
      PROVE  Leaving(e)'
  <2>1. PICK d \in Editor : At(d, "removeSub") /\ call[d].place = e
    BY <1>1 DEF Leaving
  <2>2. call'[d] = call[d]
    BY <2>1 DEF UType
  <2> QED BY <2>1, <2>2 DEF Leaving, At
<1> QED BY <1>1 DEF SubHeld

\* The others are as they were, and the call of c has what it had or less.
LEMMA HeldStays ==
  ASSUME UType, NEW c \in Client, NEW y, call' = [call EXCEPT ![c] = y], ~At(c, "removeSub"),
         Carries(y) => /\ Carries(call[c]) /\ y.ifIndex = call[c].ifIndex
                       /\ CallName(y) = CallName(call[c]),
         UNCHANGED <<logicalIntf, vtepDb>>,
         DOMAIN subIntf' = DOMAIN subIntf,
         \A e \in DOMAIN subIntf : /\ subIntf'[e].ifIndex = subIntf[e].ifIndex
                                   /\ subIntf'[e].name = subIntf[e].name
  PROVE  Held' \subseteq Held
<1>1. SubHeld' \subseteq SubHeld
  BY SubHeldKept
<1>2. CallHeld' \subseteq CallHeld
  BY CallHeldMoves DEF CallHeld
<1> QED BY <1>1, <1>2 DEF Held, LoHeld, VtepHeld

-----------------------------------------------------------------------------
(***************************************************************************)
(* The maps.                                                               *)
(***************************************************************************)
LEMMA FreeShrinks ==
  ASSUME UType, NEW name, NEW t \in IfType, AllocateIfIndex(name, t)
  PROVE  FreeIds' \subseteq FreeIds
<1>1. nextIfId \in [IfType -> Nat] /\ freeIfIndex \in [IfType -> Seq(IfId)]
  BY DEF UType, IdType
<1>2. CASE freeIfIndex[t] # << >>
  <2>1. PICK n : n = Len(freeIfIndex[t])
    OBVIOUS
  <2>2. freeIfIndex' = [freeIfIndex EXCEPT ![t] = SubSeq(@, 1, n - 1)] /\ n \in Nat \ {0}
    BY <1>1, <1>2, <2>1 DEF AllocateIfIndex
  <2>3. freeIfIndex'[t] = SubSeq(freeIfIndex[t], 1, n - 1)
    BY <1>1, <2>2
  <2>4. DOMAIN freeIfIndex[t] = 1..n
    BY <1>1, <2>1
  <2>5. /\ DOMAIN freeIfIndex'[t] = 1..n - 1
        /\ \A k \in 1..n - 1 : k \in DOMAIN freeIfIndex[t] /\ freeIfIndex'[t][k] = freeIfIndex[t][k]
    BY <1>1, <2>2, <2>3, <2>4
  <2>6. \A u \in IfType \ {t} : freeIfIndex'[u] = freeIfIndex[u]
    BY <1>1, <2>2
  <2>7. ASSUME NEW u \in IfType, NEW k \in DOMAIN freeIfIndex'[u]
        PROVE  k \in DOMAIN freeIfIndex[u] /\ freeIfIndex'[u][k] = freeIfIndex[u][k]
    <3>1. CASE u = t
      BY <2>5, <3>1
    <3>2. CASE u # t
      BY <2>6, <3>2
    <3> QED BY <3>1, <3>2
  <2>8. ASSUME NEW z \in FreeIds'
        PROVE  z \in FreeIds
    <3>1. PICK u \in IfType : \E k \in DOMAIN freeIfIndex'[u] :
            z = <<freeIfIndex'[u][k], "free", <<u, k>>>>
      BY DEF FreeIds
    <3>2. PICK k \in DOMAIN freeIfIndex'[u] : z = <<freeIfIndex'[u][k], "free", <<u, k>>>>
      BY <3>1
    <3> QED BY <2>7, <3>2, FreeElements
  <2> QED BY <2>8
<1>3. CASE freeIfIndex[t] = << >>
  BY <1>3 DEF AllocateIfIndex, FreeIds
<1> QED BY <1>2, <1>3

LEMMA NamesAllocated ==
  ASSUME UInv, UInv', NamesInv, NEW t \in IfType, NEW name, AllocateIfIndex(name, t),
         NEW y, y \in Taken', y[1] = NewIfIndex(t),
         Held' \subseteq Held \cup {<<NewIfIndex(t), name>>},
         name \in Own => \A h \in Held : h[2] # name
  PROVE  NamesInv'
<1>1. PICK i : i = NewIfIndex(t)
  OBVIOUS
<1>2. ifNameOf' = With(ifNameOf, i, name) /\ ifIndexOf' = With(ifIndexOf, name, i)
  BY <1>1 DEF AllocateIfIndex
<1>3. FreeIds' \subseteq FreeIds
  BY FreeShrinks DEF UInv
<1>4. i \notin DOMAIN ifNameOf
  <2>1. freeIfIndex \in [IfType -> Seq(IfId)] /\ nextIfId \in [IfType -> Nat]
    BY DEF UInv, UType, IdType
  <2>2. CASE freeIfIndex[t] # << >>
    <3>1. Len(freeIfIndex[t]) \in DOMAIN freeIfIndex[t]
      <4>1. freeIfIndex[t] \in Seq(IfId)
        BY <2>1
      <4> QED BY <2>2, <4>1
    <3>2. \E f \in FreeIds : f[1] = i
      <4>1. <<freeIfIndex[t][Len(freeIfIndex[t])], "free", <<t, Len(freeIfIndex[t])>>>> \in FreeIds
        BY <3>1, FreeElements
      <4> QED BY <1>1, <2>2, <4>1 DEF NewIfIndex
    <3> QED BY <3>2 DEF NamesInv
  <2>3. CASE freeIfIndex[t] = << >>
    BY <1>1, <2>1, <2>3 DEF NewIfIndex, NamesInv
  <2> QED BY <2>2, <2>3
<1>5. ASSUME NEW h \in Held
      PROVE  Named(h[1], h[2])' /\ (h[2] \in Own => Found(h[2], h[1])')
  <2>1. h[1] # i
    BY <1>1, HeldKinds, NewIsNotTaken
  <2>2. h[2] \in Own => h[2] # name
    OBVIOUS
  <2> QED BY <1>2, <2>1, <2>2 DEF NamesInv, Named, Found, With
<1>6. Named(i, name)' /\ Found(name, i)'
  BY <1>2 DEF Named, Found, With
<1>7. ASSUME NEW n \in DOMAIN ifIndexOf'
      PROVE  Named(ifIndexOf[n], n)'
  BY <1>2, <1>4, <1>6 DEF NamesInv, Named, With
<1>8. ASSUME NEW j \in DOMAIN ifNameOf'
      PROVE  j \in IfId /\ j[2] < nextIfId'[j[1]] /\ \A f \in FreeIds' : f[1] # j
  <2>1. CASE j = i
    <3>1. y \in Ids' /\ y \notin FreeIds'
      BY DEF Ids, Taken, FreeIds, LoIds, SubIds, VtepIds, CallIds
    <3>2. y[1] \in IfId /\ y[1][2] < nextIfId'[y[1][1]]
      BY <3>1 DEF UInv, Given
    <3>3. \A f \in FreeIds' : f[1] # y[1]
      BY <3>1 DEF UInv, Unique, Ids
    <3> QED BY <1>1, <2>1, <3>2, <3>3
  <2>2. CASE j # i
    <3>1. j \in DOMAIN ifNameOf
      BY <1>2, <2>2 DEF With
    <3>2. j \in IfId /\ j[2] < nextIfId[j[1]] /\ \A f \in FreeIds : f[1] # j
      BY <3>1 DEF NamesInv
    <3>3. nextIfId[j[1]] <= nextIfId'[j[1]] /\ nextIfId[j[1]] \in Nat /\ nextIfId'[j[1]] \in Nat
      <4>1. j[1] \in IfType /\ nextIfId \in [IfType -> Nat]
        BY <3>2 DEF UInv, UType, IdType, IfId
      <4>2. UNCHANGED nextIfId \/ nextIfId' = [nextIfId EXCEPT ![t] = @ + 1]
        BY DEF AllocateIfIndex
      <4> QED BY <4>1, <4>2
    <3>4. j[2] \in Nat
      BY <3>2 DEF IfId
    <3> QED BY <1>3, <3>2, <3>3, <3>4
  <2> QED BY <2>1, <2>2
<1> QED BY <1>1, <1>5, <1>6, <1>7, <1>8 DEF NamesInv

LEMMA NamesFreed ==
  ASSUME UInv, NamesInv, NEW g \in Held, FreeIfIndex(g[1]),
         Held' \subseteq {h \in Held : h[1] # g[1]}
  PROVE  NamesInv'
<1>1. /\ ifIndexOf' = Without(ifIndexOf, g[2])
      /\ ifNameOf' = Without(ifNameOf, g[1])
  BY DEF FreeIfIndex, NamesInv, Named
<1>2. g[1] \in IfId
  <2>1. PICK x \in Taken : x[1] = g[1]
    BY HeldKinds
  <2> QED BY <2>1 DEF UInv, Given, Ids
<1>3. PICK y : y[1] = g[1] /\ FreeIds' \subseteq FreeIds \cup {y} /\ UNCHANGED nextIfId
  BY <1>2, FreesId DEF UInv
<1>4. ASSUME NEW h \in Held, h[1] # g[1]
      PROVE  Named(h[1], h[2])' /\ (h[2] \in Own => Found(h[2], h[1])')
  <2>1. /\ Named(h[1], h[2]) /\ Named(g[1], g[2])
        /\ h[2] \in Own => Found(h[2], h[1])
        /\ g[2] \in Own => Found(g[2], g[1])
    BY DEF NamesInv
  <2>2. h[2] \in Own => h[2] # g[2]
    BY <1>4, <2>1 DEF Found
  <2> QED BY <1>1, <1>4, <2>1, <2>2 DEF Named, Found, Without
<1>5. ASSUME NEW n \in DOMAIN ifIndexOf'
      PROVE  Named(ifIndexOf[n], n)'
  <2>1. n \in DOMAIN ifIndexOf /\ n # g[2] /\ ifIndexOf'[n] = ifIndexOf[n]
    BY <1>1 DEF Without
  <2>2. Named(ifIndexOf[n], n) /\ Named(g[1], g[2])
    BY <2>1 DEF NamesInv
  <2>3. ifIndexOf[n] # g[1]
    BY <2>1, <2>2 DEF Named
  <2> QED BY <1>1, <2>1, <2>2, <2>3 DEF Named, Without
<1>6. ASSUME NEW j \in DOMAIN ifNameOf'
      PROVE  j \in IfId /\ j[2] < nextIfId'[j[1]] /\ \A f \in FreeIds' : f[1] # j
  <2>1. j \in DOMAIN ifNameOf /\ j # g[1]
    BY <1>1 DEF Without
  <2> QED BY <1>3, <2>1 DEF NamesInv
<1> QED BY <1>4, <1>5, <1>6 DEF NamesInv

LEMMA NamesUpdated ==
  ASSUME NamesInv, NEW i, NEW old, NEW new, UpdateIfNameForIfIndex(i, old, new),
         <<i, old>> \in Held, old \notin Own, new \notin Own,
         Held' \subseteq {h \in Held : h[1] # i} \cup {<<i, new>>}
  PROVE  NamesInv'
<1>1. /\ ifNameOf' = With(ifNameOf, i, new)
      /\ ifIndexOf' = With(Without(ifIndexOf, old), new, i)
      /\ UNCHANGED <<nextIfId, freeIfIndex>>
  BY DEF UpdateIfNameForIfIndex
<1>2. Named(i, old)
  BY DEF NamesInv
<1>3. ASSUME NEW h \in Held, h[1] # i
      PROVE  Named(h[1], h[2])' /\ (h[2] \in Own => Found(h[2], h[1])')
  BY <1>1, <1>3 DEF NamesInv, Named, Found, With, Without
<1>4. Named(i, new)'
  BY <1>1 DEF Named, With
<1>5. ASSUME NEW n \in DOMAIN ifIndexOf'
      PROVE  Named(ifIndexOf[n], n)'
  <2>1. CASE n = new
    BY <1>1, <1>4, <2>1 DEF With
  <2>2. CASE n # new
    <3>1. n \in DOMAIN ifIndexOf /\ n # old /\ ifIndexOf'[n] = ifIndexOf[n]
      BY <1>1, <2>2 DEF With, Without
    <3>2. Named(ifIndexOf[n], n)
      BY <3>1 DEF NamesInv
    <3>3. ifIndexOf[n] # i
      BY <1>2, <3>1, <3>2 DEF Named
    <3> QED BY <1>1, <3>1, <3>2, <3>3 DEF Named, With
  <2> QED BY <2>1, <2>2
<1>6. DOMAIN ifNameOf' = DOMAIN ifNameOf
  BY <1>1, <1>2 DEF With, Named
<1>7. FreeIds' = FreeIds
  BY <1>1 DEF FreeIds
<1>8. \A j \in DOMAIN ifNameOf' : j \in IfId /\ j[2] < nextIfId'[j[1]] /\ \A f \in FreeIds' : f[1] # j
  BY <1>1, <1>6, <1>7 DEF NamesInv
<1> QED BY <1>3, <1>4, <1>5, <1>8 DEF NamesInv

LEMMA NamesStay ==
  ASSUME NamesInv, UNCHANGED ifVars, Held' \subseteq Held
  PROVE  NamesInv'
<1>1. UNCHANGED <<ifNameOf, ifIndexOf, nextIfId, freeIfIndex>> /\ FreeIds' = FreeIds
  BY DEF ifVars, FreeIds
<1> QED BY <1>1 DEF NamesInv, Named, Found

\* A call goes on or ends, and the interfaces are what they were.
LEMMA QuietNames ==
  ASSUME UInv, NamesInv, NEW c \in Client, NEW y, call' = [call EXCEPT ![c] = y],
         ~At(c, "removeSub"),
         Carries(y) => /\ Carries(call[c]) /\ y.ifIndex = call[c].ifIndex
                       /\ CallName(y) = CallName(call[c]),
         UNCHANGED <<ifVars, logicalIntf, subIntf, vtepDb>>
  PROVE  NamesInv'
<1>1. Held' \subseteq Held
  BY HeldStays DEF UInv
<1> QED BY <1>1, NamesStay

-----------------------------------------------------------------------------
(***************************************************************************)
(* Loopbacks: their calls go one by one.                                   *)
(***************************************************************************)
LoCall == NewLoCall \cup OldLoCall \cup {None}

LEMMA WasFresh ==
  ASSUME IInv, FreshInv, OneLoClient, NEW c \in LoClient \cup {Boot}, Turn(c), NEW l \in Lo,
         logicalIntf[l] # None
  PROVE  l \notin boot /\ (l \in loCfg \/ (At(c, "loCreated") /\ call[c].lo = l))
<1>1. PICK d \in Client : l \in loCfg \/ (At(d, "loCreated") /\ call[d].lo = l)
  BY DEF FreshInv, Client
<1>2. At(d, "loCreated") => d = c
  BY StepKinds, AloneLo DEF IInv, LoSteps
<1> QED BY <1>1, <1>2 DEF FreshInv

LEMMA FreshMoves ==
  ASSUME IInv, OneLoClient, NEW c \in LoClient \cup {Boot}, Turn(c), NEW y \in LoCall,
         call' = [call EXCEPT ![c] = y],
         \A l \in Lo : logicalIntf'[l] # None =>
           l \notin boot' /\ (l \in loCfg' \/ (y # None /\ y.at = "loCreated" /\ y.lo = l)),
         y # None /\ y.at \in {"addLoopback", "storeLoopback", "loDeleted"} =>
           logicalIntf'[y.lo] = None,
         y \in NewLoCall => y.lo \notin boot' /\ (c = Boot => y.lo \in loCfg'),
         boot' \cap Lo \subseteq loCfg'
  PROVE  FreshInv'
<1>1. /\ c \in Client /\ call'[c] = y
      /\ \A d \in Client \ {c} : call'[d] = call[d]
      /\ \A d \in Client \ {c}, s \in LoSteps : ~At(d, s)'
      /\ \A d \in Client \ {c} : call[d] \notin NewLoCall
  BY OnlyMyLo
<1>2. {"addLoopback", "storeLoopback", "loCreated", "loDeleted"} \subseteq LoSteps
  BY DEF LoSteps
<1>3. ASSUME NEW d \in Client, Naming(d)' \/ At(d, "loDeleted")'
      PROVE  logicalIntf'[call'[d].lo] = None
  <2>1. d = c
    BY <1>1, <1>2, <1>3 DEF Naming
  <2> QED BY <1>1, <1>3, <2>1 DEF Naming, At
<1>4. ASSUME NEW d \in Client, call'[d] \in NewLoCall
      PROVE  call'[d].lo \notin boot'
  BY <1>1, <1>4
<1>5. call'[Boot] \in NewLoCall => call'[Boot].lo \in loCfg'
  BY <1>1 DEF Client
<1>6. ASSUME NEW l \in Lo, logicalIntf'[l] # None
      PROVE  /\ l \notin boot'
             /\ l \in loCfg' \/ \E d \in Client : At(d, "loCreated")' /\ call'[d].lo = l
  BY <1>1, <1>6 DEF At
<1> QED BY <1>3, <1>4, <1>5, <1>6 DEF FreshInv

\* An interface with a loopback's name is that loopback, or it is being made.
LEMMA LoopbackName ==
  ASSUME IInv, OneLoClient, NEW c \in LoClient \cup {Boot}, Turn(c), ~Naming(c),
         NEW h \in Held, h[2] \in Lo
  PROVE  h = <<logicalIntf[h[2]], h[2]>> /\ logicalIntf[h[2]] # None
<1>1. \A d \in Client : Naming(d) => d = c
  <2> SUFFICES ASSUME NEW d \in Client, Naming(d) PROVE d = c
    OBVIOUS
  <2>1. call[d] \in NewLoCall
    BY CallKinds DEF IInv, Naming
  <2> QED BY <2>1, AloneLo DEF IInv
<1>2. h[2] \notin Vtep
  BY NamesAssumption
<1> QED BY <1>1, <1>2, OwnName DEF Own

LEMMA StartLogicalNames ==
  ASSUME VInv, UInv', OneLoClient, NEW c \in LoClient \cup {Boot}, Turn(c), NEW l \in Lo,
         call[c] = None, StartLogical(c, l),
         \/ c # Boot /\ l \notin loCfg /\ boot' = boot
         \/ c = Boot /\ l \in boot /\ boot' = boot \ {l}
  PROVE  FreshInv' /\ NamesInv'
<1> DEFINE i == NewIfIndex("Loopback")
           y == [at |-> "addLoopback", lo |-> l, ifIndex |-> i]
<1>0. IInv /\ UInv /\ FreshInv /\ NamesInv /\ c \in Client
  BY DEF VInv, Client
<1>1. i \in IfId /\ AllocateIfIndex(l, "Loopback") /\ "Loopback" \in IfType
  BY <1>0, Allocates DEF IInv, StartLogical, IfType
<1>2. y \in NewLoCall /\ y.at = "addLoopback" /\ y.lo = l /\ y.ifIndex = i
  BY <1>1 DEF NewLoCall
<1>3. /\ call' = [call EXCEPT ![c] = y]
      /\ UNCHANGED <<links, logicalIntf, subIntf, vtepDb, vxlan, loCfg, subCfg>>
  BY DEF StartLogical, dbVars, cfgVars
<1> HIDE DEF y, i
<1>4. y \in LoCall /\ call[c] \in LoCall
  BY <1>2 DEF LoCall
<1>5. logicalIntf[l] = None
  BY <1>0, WasFresh DEF At
<1>6. FreshInv'
  <2>1. \A k \in Lo : logicalIntf'[k] # None => k \notin boot' /\ k \in loCfg'
    BY <1>0, <1>3, WasFresh DEF At
  <2>2. y.lo \notin boot' /\ (c = Boot => y.lo \in loCfg') /\ boot' \cap Lo \subseteq loCfg'
    <3>1. l \notin boot'
      <4>1. c # Boot => boot = {}
        BY DEF Turn, Booting
      <4> QED BY <4>1
    <3> QED BY <1>0, <1>2, <1>3, <3>1 DEF FreshInv
  <2> QED BY <1>0, <1>2, <1>3, <1>4, <1>5, <2>1, <2>2, FreshMoves
<1>7. Held' \subseteq Held \cup {<<i, l>>}
  <2>1. y # None => CallName(y) = l
    BY <1>2 DEF CallName
  <2>2. CallHeld' \subseteq CallHeld \cup {<<i, l>>}
    BY <1>0, <1>2, <1>3, <2>1, CallHeldMoves DEF UInv, CallHeld, Carries
  <2>3. SubHeld' \subseteq SubHeld
    BY <1>0, <1>3, SubHeldKept DEF UInv, At
  <2> QED BY <1>3, <2>2, <2>3 DEF Held, LoHeld, VtepHeld
<1>8. \A h \in Held : h[2] # l
  BY <1>0, <1>5, LoopbackName DEF Naming, At
<1>9. <<i, "call", c>> \in Taken'
  <2>1. call'[c] = y /\ y # None
    BY <1>0, <1>2, <1>3, NamesAssumption DEF UInv, UType
  <2>2. Carries(call[c])' /\ (call[c].ifIndex)' = i
    BY <1>2, <2>1 DEF Carries
  <2> QED BY <1>0, <2>2 DEF Taken, CallIds
<1>10. NamesInv'
  <2>1. PICK z : z = <<i, "call", c>>
    OBVIOUS
  <2>2. z \in Taken' /\ z[1] = NewIfIndex("Loopback")
    BY <1>9, <2>1 DEF i
  <2>3. Held' \subseteq Held \cup {<<NewIfIndex("Loopback"), l>>}
    BY <1>7 DEF i
  <2> QED BY <1>0, <1>1, <1>8, <2>2, <2>3, NamesAllocated
<1> QED BY <1>6, <1>10

\* The call of a loopback that does not start.
LEMMA LoopbackKinds ==
  ASSUME IInv, NEW c \in Client,
         \/ AddLoopback(c) \/ StoreLoopback(c) \/ DropLoopback(c) \/ LoopbackReturns(c)
         \/ c = Boot /\ RestoreReturns /\ At(c, "loCreated")
  PROVE  call[c] \in LoCall /\ call[c] # None /\ Turn(c) /\ call[c].lo \in Lo
<1>1. At(c, "addLoopback") \/ At(c, "storeLoopback") \/ At(c, "dropLoopback")
        \/ At(c, "loCreated") \/ At(c, "loDeleted")
  BY DEF AddLoopback, StoreLoopback, DropLoopback, LoopbackReturns
<1>2. call[c] \in NewLoCall \cup OldLoCall
  BY <1>1, CallKinds DEF IInv
<1> QED BY <1>1, <1>2, NewLoFields, OldLoFields, TurnOfCaller DEF IInv, At, LoCall

LEMMA AddLoopbackNames ==
  ASSUME VInv, OneLoClient, NEW c \in LoClient \cup {Boot}, AddLoopback(c)
  PROVE  FreshInv' /\ NamesInv'
<1>0. IInv /\ UInv /\ FreshInv /\ NamesInv /\ c \in Client
  BY DEF VInv, Client
<1>1. /\ At(c, "addLoopback") /\ call[c] \in NewLoCall /\ call[c] \in LoCall /\ Turn(c)
      /\ call[c].lo \in Lo /\ Naming(c)
  BY <1>0, LoopbackKinds, CallKinds DEF IInv, AddLoopback, Naming
<1>2. PICK y \in NewLoCall \cup {None} :
        /\ call' = [call EXCEPT ![c] = y]
        /\ y # None => /\ y.at = "storeLoopback" /\ y.lo = call[c].lo
                       /\ y.ifIndex = call[c].ifIndex
  <2> DEFINE z == [call[c] EXCEPT !.at = "storeLoopback"]
  <2>1. z \in NewLoCall /\ z.at = "storeLoopback" /\ z.lo = call[c].lo
        /\ z.ifIndex = call[c].ifIndex
    BY <1>1 DEF NewLoCall
  <2>2. call' = [call EXCEPT ![c] = z] \/ call' = [call EXCEPT ![c] = None]
    BY DEF AddLoopback, Goto, Return
  <2> HIDE DEF z
  <2> QED BY <2>1, <2>2
<1>3. UNCHANGED <<ifVars, dbVars, cfgVars, boot>>
  BY DEF AddLoopback
<1>4. y \in LoCall
  BY <1>2 DEF LoCall
<1>5. FreshInv'
  <2>1. \A l \in Lo : logicalIntf'[l] # None => l \notin boot' /\ l \in loCfg'
    BY <1>0, <1>1, <1>3, WasFresh DEF At, dbVars, cfgVars
  <2>2. y # None => logicalIntf'[y.lo] = None
    BY <1>0, <1>1, <1>2, <1>3 DEF FreshInv, dbVars
  <2>3. y \in NewLoCall => y.lo \notin boot' /\ (c = Boot => y.lo \in loCfg')
    BY <1>0, <1>1, <1>2, <1>3, NamesAssumption DEF FreshInv, cfgVars
  <2>4. boot' \cap Lo \subseteq loCfg'
    BY <1>0, <1>3 DEF FreshInv, cfgVars
  <2> QED BY <1>0, <1>1, <1>2, <1>4, <2>1, <2>2, <2>3, <2>4, FreshMoves
<1>6. NamesInv'
  <2>1. ~At(c, "removeSub")
    BY <1>1 DEF At
  <2>2. Carries(y) => /\ Carries(call[c]) /\ y.ifIndex = call[c].ifIndex
                      /\ CallName(y) = CallName(call[c])
    BY <1>1, <1>2, NoneCarried DEF Carries, CallName, At
  <2> QED BY <1>0, <1>2, <1>3, <2>1, <2>2, QuietNames DEF dbVars
<1> QED BY <1>5, <1>6

LEMMA StoreLoopbackNames ==
  ASSUME VInv, OneLoClient, NEW c \in LoClient \cup {Boot}, StoreLoopback(c)
  PROVE  FreshInv' /\ NamesInv'
<1> DEFINE y == [call[c] EXCEPT !.at = "loCreated"]
           l == call[c].lo
<1>0. IInv /\ UInv /\ FreshInv /\ NamesInv /\ c \in Client
  BY DEF VInv, Client
<1>1. /\ At(c, "storeLoopback") /\ call[c] \in NewLoCall /\ call[c] \in LoCall /\ Turn(c)
      /\ l \in Lo /\ Naming(c)
  BY <1>0, LoopbackKinds, CallKinds DEF IInv, StoreLoopback, Naming
<1>2. y \in NewLoCall /\ y.at = "loCreated" /\ y.lo = l
  BY <1>1, NewLoFields
<1>3. /\ call' = [call EXCEPT ![c] = y]
      /\ logicalIntf' = [logicalIntf EXCEPT ![l] = call[c].ifIndex]
      /\ UNCHANGED <<ifVars, links, subIntf, vtepDb, cfgVars, boot>>
  BY DEF StoreLoopback, Goto
<1>4. logicalIntf \in [Lo -> IfId \cup {None}] /\ y \in LoCall
  BY <1>0, <1>2 DEF UInv, UType, LoCall
<1> HIDE DEF y
<1>5. FreshInv'
  <2>1. l \notin boot /\ (c = Boot => l \in loCfg)
    BY <1>0, <1>1 DEF FreshInv
  <2>2. \A k \in Lo \ {l} : logicalIntf'[k] # None => k \notin boot' /\ k \in loCfg'
    BY <1>0, <1>1, <1>3, <1>4, WasFresh DEF At, cfgVars
  <2>3. boot' \cap Lo \subseteq loCfg' /\ boot' = boot /\ loCfg' = loCfg
    BY <1>0, <1>3 DEF FreshInv, cfgVars
  <2>4. \A k \in Lo : logicalIntf'[k] # None =>
           k \notin boot' /\ (k \in loCfg' \/ (y # None /\ y.at = "loCreated" /\ y.lo = k))
    BY <1>2, <2>1, <2>2, <2>3, NamesAssumption
  <2> QED BY <1>0, <1>1, <1>2, <1>3, <1>4, <2>1, <2>3, <2>4, FreshMoves
<1>6. NamesInv'
  <2>1. ~Carries(y)
    BY <1>2 DEF Carries, PendingSteps
  <2>2. Carries(call[c]) /\ CallName(call[c]) = l /\ ~At(c, "removeSub")
    BY <1>1 DEF Carries, CallName, At
  <2>3. <<call[c].ifIndex, l>> \in CallHeld
    BY <1>0, <2>2 DEF CallHeld
  <2>4. LoHeld' \subseteq LoHeld \cup CallHeld
    BY <1>3, <1>4, <2>3 DEF LoHeld
  <2>5. CallHeld' \subseteq CallHeld
    BY <1>0, <1>3, <2>1, CallHeldMoves DEF UInv, CallHeld
  <2>6. SubHeld' \subseteq SubHeld
    BY <1>0, <1>3, <2>2, SubHeldKept DEF UInv
  <2>7. Held' \subseteq Held
    BY <1>3, <2>4, <2>5, <2>6 DEF Held, VtepHeld
  <2> QED BY <1>0, <1>3, <2>7, NamesStay
<1> QED BY <1>5, <1>6

LEMMA DeleteLogicalIntfNames ==
  ASSUME VInv, OneLoClient, NEW c \in LoClient, NEW l \in Lo, DeleteLogicalIntf(c, l)
  PROVE  FreshInv' /\ NamesInv'
<1> DEFINE y == [at |-> "dropLoopback", lo |-> l]
<1>0. IInv /\ UInv /\ FreshInv /\ NamesInv /\ c \in Client
  BY DEF VInv, Client
<1>1. Turn(c) /\ call[c] = None /\ call[c] \in LoCall
  BY BootAssumption DEF DeleteLogicalIntf, Idle, Turn, LoCall
<1>2. y \in LoCall /\ y \notin NewLoCall /\ y.at = "dropLoopback"
  BY DEF OldLoCall, NewLoCall, LoCall
<1>3. /\ call' = [call EXCEPT ![c] = y] /\ links' = Without(links, l)
      /\ UNCHANGED <<ifVars, dbVars, cfgVars, boot>>
  BY DEF DeleteLogicalIntf
<1> HIDE DEF y
<1>4. FreshInv'
  <2>1. \A k \in Lo : logicalIntf'[k] # None => k \notin boot' /\ k \in loCfg'
    BY <1>0, <1>1, <1>3, WasFresh DEF At, dbVars, cfgVars
  <2>2. boot' \cap Lo \subseteq loCfg'
    BY <1>0, <1>3 DEF FreshInv, cfgVars
  <2> QED BY <1>0, <1>1, <1>2, <1>3, <2>1, <2>2, FreshMoves
<1>5. NamesInv'
  <2>1. ~Carries(y)
    BY <1>2 DEF Carries, PendingSteps
  <2> QED BY <1>0, <1>1, <1>3, <2>1, QuietNames DEF dbVars, At
<1> QED BY <1>4, <1>5

LEMMA DropLoopbackNames ==
  ASSUME VInv, OneLoClient, NEW c \in LoClient, DropLoopback(c)
  PROVE  FreshInv' /\ NamesInv'
<1> DEFINE y == [call[c] EXCEPT !.at = "loDeleted"]
           l == call[c].lo
<1>0. IInv /\ UInv /\ FreshInv /\ NamesInv /\ c \in Client
  BY DEF VInv, Client
<1>1. /\ At(c, "dropLoopback") /\ call[c] \in OldLoCall /\ call[c] \in LoCall /\ Turn(c)
      /\ l \in Lo /\ ~Naming(c)
  BY <1>0, LoopbackKinds, CallKinds DEF IInv, DropLoopback, Naming, At
<1>2. y \in LoCall /\ y \notin NewLoCall /\ y.at = "loDeleted" /\ y.lo = l
  <2>1. y \in OldLoCall /\ y.at = "loDeleted" /\ y.lo = l
    BY <1>1, OldLoFields
  <2>2. \A x \in NewLoCall : x.at # "loDeleted"
    BY NewLoFields
  <2> QED BY <2>1, <2>2 DEF LoCall
<1>3. call' = [call EXCEPT ![c] = y] /\ UNCHANGED <<links, subIntf, vtepDb, cfgVars, boot>>
  BY DEF DropLoopback, Goto
<1>4. logicalIntf \in [Lo -> IfId \cup {None}]
  BY <1>0 DEF UInv, UType
<1>5. logicalIntf' = [logicalIntf EXCEPT ![l] = None]
  <2>1. CASE logicalIntf[l] = None
    BY <1>1, <1>4, <2>1 DEF DropLoopback
  <2>2. CASE logicalIntf[l] # None
    BY <2>2 DEF DropLoopback
  <2> QED BY <2>1, <2>2
<1> HIDE DEF y
<1>6. FreshInv'
  <2>1. \A k \in Lo : logicalIntf'[k] # None => k \notin boot' /\ k \in loCfg'
    BY <1>0, <1>1, <1>3, <1>4, <1>5, WasFresh DEF At, cfgVars
  <2>2. boot' \cap Lo \subseteq loCfg' /\ logicalIntf'[l] = None
    BY <1>0, <1>1, <1>3, <1>4, <1>5 DEF FreshInv, cfgVars
  <2> QED BY <1>0, <1>1, <1>2, <1>3, <2>1, <2>2, FreshMoves
<1>7. ~Carries(y) /\ ~At(c, "removeSub") /\ ~Naming(c)
  BY <1>1, <1>2 DEF Carries, At, Naming, PendingSteps
<1>8. CASE logicalIntf[l] = None
  <2>1. UNCHANGED ifVars
    BY <1>8 DEF DropLoopback
  <2>2. logicalIntf' = logicalIntf
    BY <1>1, <1>4, <1>5, <1>8
  <2>3. NamesInv'
    BY <1>0, <1>3, <1>7, <2>1, <2>2, QuietNames
  <2> QED BY <1>6, <2>3
<1>9. CASE logicalIntf[l] # None
  <2>1. PICK g : g = <<logicalIntf[l], l>>
    OBVIOUS
  <2>2. FreeIfIndex(g[1]) /\ g \in Held /\ g \in LoHeld
    BY <1>1, <1>9, <2>1 DEF DropLoopback, Held, LoHeld
  <2>3. ASSUME NEW h \in Held'
        PROVE  h \in Held /\ h # g
    <3>1. LoHeld' \subseteq LoHeld \ {g}
      BY <1>1, <1>4, <1>5, <2>1 DEF LoHeld
    <3>2. CallHeld' \subseteq CallHeld
      BY <1>0, <1>3, <1>7, CallHeldMoves DEF UInv, CallHeld
    <3>3. SubHeld' \subseteq SubHeld /\ VtepHeld' = VtepHeld
      BY <1>0, <1>3, <1>7, SubHeldKept DEF UInv, VtepHeld
    <3>4. \A x \in SubHeld \cup VtepHeld : x[2] # l
      BY <1>0, <1>1, ListTypes, LoopbackLinks, NamesAssumption DEF SubHeld, VtepHeld
    <3>5. ASSUME NEW x \in CallHeld, x[2] = l
          PROVE  FALSE
      <4>1. PICK d \in Client : Carries(call[d]) /\ x = <<call[d].ifIndex, CallName(call[d])>>
        BY DEF CallHeld
      <4>2. CallName(call[d]) = l /\ l \in Own
        BY <1>1, <3>5, <4>1 DEF Own
      <4>3. Naming(d) /\ call[d] \in NewLoCall
        BY <1>0, <4>1, <4>2, CallNames
      <4>4. d # c
        BY <1>7, <4>3
      <4> QED BY <1>0, <1>1, <4>3, <4>4, AloneLo DEF IInv
    <3> QED BY <2>1, <3>1, <3>2, <3>3, <3>4, <3>5 DEF Held
  <2>4. ASSUME NEW h \in Held, h[1] = g[1]
        PROVE  h = g
    <3>1. PICK x \in Taken :
            /\ x[1] = h[1]
            /\ \/ x[2] = "lo" /\ x[3] = h[2] /\ h[2] \in Lo
               \/ x[2] # "lo"
      BY HeldKinds
    <3>2. <<logicalIntf[l], "lo", l>> \in Taken
      BY <1>1, <1>9 DEF Taken, LoIds
    <3>3. x = <<logicalIntf[l], "lo", l>>
      BY <1>0, <2>1, <2>4, <3>1, <3>2 DEF UInv, Unique, Ids
    <3>4. h[2] = l /\ h[2] \in Own
      BY <1>1, <3>1, <3>3 DEF Own
    <3>5. l \notin Vtep
      BY <1>1, NamesAssumption
    <3> QED BY <1>0, <1>1, <1>7, <2>1, <3>4, <3>5, LoopbackName
  <2>5. Held' \subseteq {h \in Held : h[1] # g[1]}
    BY <2>3, <2>4
  <2>6. NamesInv'
    BY <1>0, <2>2, <2>5, NamesFreed
  <2> QED BY <1>6, <2>6
<1> QED BY <1>8, <1>9

LEMMA LoopbackReturnsNames ==
  ASSUME VInv, OneLoClient, NEW c \in LoClient, LoopbackReturns(c)
  PROVE  FreshInv' /\ NamesInv'
<1> DEFINE l == call[c].lo
<1>0. IInv /\ UInv /\ FreshInv /\ NamesInv /\ c \in Client
  BY DEF VInv, Client
<1>1. call[c] \in LoCall /\ call[c] # None /\ Turn(c) /\ l \in Lo /\ None \in LoCall /\ c # Boot
  BY <1>0, LoopbackKinds, BootAssumption DEF LoCall
<1>2. call' = [call EXCEPT ![c] = None] /\ UNCHANGED <<ifVars, links, dbVars, boot>>
  BY DEF LoopbackReturns, Return
<1>3. boot = {} /\ None \notin NewLoCall
  BY <1>1, NamesAssumption DEF Turn, Booting
<1>4. FreshInv'
  <2>1. ASSUME NEW k \in Lo, logicalIntf'[k] # None
        PROVE  k \notin boot' /\ k \in loCfg'
    <3>1. k \in loCfg \/ (At(c, "loCreated") /\ l = k)
      BY <1>0, <1>1, <1>2, <2>1, WasFresh DEF dbVars
    <3>2. At(c, "loDeleted") => k # l
      BY <1>0, <1>2, <2>1 DEF FreshInv, dbVars
    <3> QED BY <1>2, <1>3, <3>1, <3>2 DEF LoopbackReturns, At
  <2>2. boot' \cap Lo \subseteq loCfg'
    BY <1>2, <1>3
  <2> QED BY <1>0, <1>1, <1>2, <1>3, <2>1, <2>2, FreshMoves
<1>5. NamesInv'
  <2>1. ~At(c, "removeSub") /\ ~Carries(None)
    BY NoneCarried DEF LoopbackReturns, At
  <2> QED BY <1>0, <1>2, <2>1, QuietNames DEF dbVars
<1> QED BY <1>4, <1>5

-----------------------------------------------------------------------------
(***************************************************************************)
(* Sub-interfaces.                                                         *)
(***************************************************************************)
SubCall == NewSubCall \cup OldSubCall \cup {None}

LEMMA SubCallFields ==
  ASSUME NEW y \in SubCall
  PROVE  y \notin NewLoCall /\ (y # None => y.at \in SubSteps /\ y.at \notin LoSteps)
BY OtherCalls, NamesAssumption DEF SubCall

\* The loopbacks and their names stay.
LEMMA SubFresh ==
  ASSUME IInv, FreshInv, NEW c \in Client, NEW y \in SubCall, call[c] \in SubCall,
         call' = [call EXCEPT ![c] = y], UNCHANGED <<logicalIntf, loCfg>>, boot' \subseteq boot
  PROVE  FreshInv'
<1>1. call'[c] = y /\ \A d \in Client \ {c} : call'[d] = call[d]
  BY DEF IInv, CallType
<1>2. ASSUME NEW d \in Client, NEW s \in LoSteps
      PROVE  /\ At(d, s)' <=> At(d, s)
             /\ At(d, s) => call'[d] = call[d]
  BY <1>1, SubCallFields DEF At
<1>3. {"addLoopback", "storeLoopback", "loCreated", "loDeleted"} \subseteq LoSteps
  BY DEF LoSteps
<1>4. ASSUME NEW d \in Client
      PROVE  /\ Naming(d)' <=> Naming(d)
             /\ Naming(d) => call'[d] = call[d]
  BY <1>2, <1>3 DEF Naming
<1>5. ASSUME NEW d \in Client, call'[d] \in NewLoCall
      PROVE  call'[d] = call[d]
  BY <1>1, <1>5, SubCallFields
<1>6. Boot \in Client
  BY DEF Client
<1>7. \A l \in Lo : logicalIntf'[l] # None =>
        /\ l \notin boot'
        /\ l \in loCfg' \/ \E d \in Client : At(d, "loCreated")' /\ call'[d].lo = l
  BY <1>2, <1>3 DEF FreshInv
<1>8. \A d \in Client : Naming(d)' \/ At(d, "loDeleted")' => logicalIntf'[call'[d].lo] = None
  BY <1>2, <1>3, <1>4 DEF FreshInv
<1> QED BY <1>5, <1>6, <1>7, <1>8 DEF FreshInv

LEMMA HeldTaken ==
  ASSUME NEW h
  PROVE  /\ h \in LoHeld \cup VtepHeld =>
              \E x \in Taken : x[1] = h[1] /\ x[2] \notin {"sub", "call"}
         /\ h \in SubHeld => \E x \in Taken : x[1] = h[1] /\ x[2] = "sub"
         /\ h \in CallHeld => \E x \in Taken : x[1] = h[1] /\ x[2] = "call"
<1>1. ASSUME h \in LoHeld
      PROVE  \E x \in Taken : x[1] = h[1] /\ x[2] = "lo"
  <2>1. PICK l \in Lo : logicalIntf[l] # None /\ h = <<logicalIntf[l], l>>
    BY <1>1 DEF LoHeld
  <2>2. <<logicalIntf[l], "lo", l>> \in Taken
    BY <2>1 DEF Taken, LoIds
  <2> QED BY <2>1, <2>2
<1>2. ASSUME h \in VtepHeld
      PROVE  \E x \in Taken : x[1] = h[1] /\ x[2] = "vtep"
  <2>1. PICK t \in Vtep : vtepDb[t] # None /\ h = <<vtepDb[t].ifIndex, t>>
    BY <1>2 DEF VtepHeld
  <2>2. <<vtepDb[t].ifIndex, "vtep", t>> \in Taken
    BY <2>1 DEF Taken, VtepIds
  <2> QED BY <2>1, <2>2
<1>3. ASSUME h \in SubHeld
      PROVE  \E x \in Taken : x[1] = h[1] /\ x[2] = "sub"
  <2>1. PICK e \in DOMAIN subIntf : ~Leaving(e) /\ h = <<subIntf[e].ifIndex, subIntf[e].name>>
    BY <1>3 DEF SubHeld
  <2>2. <<subIntf[e].ifIndex, "sub", e>> \in Taken
    BY <2>1 DEF Taken, SubIds
  <2> QED BY <2>1, <2>2
<1>4. ASSUME h \in CallHeld
      PROVE  \E x \in Taken : x[1] = h[1] /\ x[2] = "call"
  <2>1. PICK d \in Client : Carries(call[d]) /\ h = <<call[d].ifIndex, CallName(call[d])>>
    BY <1>4 DEF CallHeld
  <2>2. <<call[d].ifIndex, "call", d>> \in Taken
    BY <2>1 DEF Taken, CallIds
  <2> QED BY <2>1, <2>2
<1> QED BY <1>1, <1>2, <1>3, <1>4

LEMMA StartSubNames ==
  ASSUME VInv, UInv', NEW c \in SubClient \cup {Boot}, NEW sub \in SubType,
         call[c] = None, StartSub(c, sub), boot' \subseteq boot
  PROVE  FreshInv' /\ NamesInv'
<1>a. PICK t, i : t = PoolOf(sub.kind) /\ i = NewIfIndex(t)
  OBVIOUS
<1> DEFINE y == [at |-> "verifySub", sub |-> sub, ifIndex |-> i]
<1>0. IInv /\ UInv /\ FreshInv /\ NamesInv /\ c \in Client
  BY DEF VInv, Client
<1>1. t \in IfType /\ AllocateIfIndex(TmpName(sub), t)
  BY <1>a DEF PoolOf, IfType, StartSub
<1>2. i \in IfId
  BY <1>0, <1>1, <1>a, Allocates DEF IInv
<1>3. y \in NewSubCall /\ y # None
  <2>1. y \in NewSubCall
    BY <1>2 DEF NewSubCall
  <2> QED BY <2>1, NamesAssumption
<1>4. Carries(y) /\ y.ifIndex = i /\ CallName(y) = TmpName(sub)
  BY <1>3 DEF Carries, PendingSteps, CallName
<1>5. /\ call' = [call EXCEPT ![c] = y]
      /\ UNCHANGED <<logicalIntf, subIntf, vtepDb, loCfg>>
  BY <1>a DEF StartSub, dbVars, cfgVars
<1> HIDE DEF y
<1>6. FreshInv'
  <2>1. y \in SubCall /\ call[c] \in SubCall
    BY <1>3 DEF SubCall
  <2> QED BY <1>0, <1>5, <2>1, SubFresh
<1>7. Held' \subseteq Held \cup {<<i, TmpName(sub)>>}
  <2>1. CallHeld' \subseteq CallHeld \cup {<<i, TmpName(sub)>>}
    BY <1>0, <1>4, <1>5, CallHeldMoves DEF UInv, CallHeld
  <2>2. SubHeld' \subseteq SubHeld
    BY <1>0, <1>5, SubHeldKept DEF UInv, At
  <2> QED BY <1>5, <2>1, <2>2 DEF Held, LoHeld, VtepHeld
<1>8. TmpName(sub) \notin Own
  BY NamesAssumption DEF Own
<1>9. <<i, "call", c>> \in Taken'
  <2>1. call'[c] = y
    BY <1>0, <1>5 DEF UInv, UType
  <2>2. Carries(call[c])' /\ (call[c].ifIndex)' = i
    BY <1>4, <2>1 DEF Carries
  <2> QED BY <1>0, <2>2 DEF Taken, CallIds
<1>10. NamesInv'
  <2>1. PICK z : z = <<i, "call", c>>
    OBVIOUS
  <2>2. z \in Taken' /\ z[1] = NewIfIndex(t)
    BY <1>9, <1>a, <2>1
  <2>3. Held' \subseteq Held \cup {<<NewIfIndex(t), TmpName(sub)>>}
    BY <1>7, <1>a
  <2> QED BY <1>0, <1>1, <1>8, <2>2, <2>3, NamesAllocated
<1> QED BY <1>6, <1>10

\* The look at the list, and the link.
LEMMA GoOnNames ==
  ASSUME VInv, NEW c \in SubClient \cup {Boot}, VerifySub(c) \/ AddSubLink(c)
  PROVE  FreshInv' /\ NamesInv'
<1>0. IInv /\ UInv /\ FreshInv /\ NamesInv /\ c \in Client
  BY DEF VInv, Client
<1>1. At(c, "verifySub") \/ At(c, "addSub")
  BY DEF VerifySub, AddSubLink
<1>2. call[c] \in NewSubCall /\ call[c] \in SubCall
  BY <1>0, <1>1, CallKinds DEF IInv, NewSteps, SubCall
<1>3. Carries(call[c]) /\ CallName(call[c]) = TmpName(call[c].sub) /\ ~At(c, "removeSub")
  BY <1>1 DEF Carries, At, PendingSteps, CallName
<1>4. call[c].sub \in SubType /\ call[c].ifIndex \in IfId
  BY <1>1, <1>2, NewSubFields DEF At
<1>5. PICK y : /\ call' = [call EXCEPT ![c] = y] /\ y \in NewSubCall \cup {None}
               /\ Carries(y) => /\ y.ifIndex = call[c].ifIndex
                                /\ CallName(y) = TmpName(call[c].sub)
  <2>1. CASE VerifySub(c)
    <3> DEFINE z == [call[c] EXCEPT !.at = "addSub"]
    <3>1. call[c].at = "verifySub"
      BY <2>1 DEF VerifySub, At
    <3>2. z \in NewSubCall
      BY <1>2, <3>1, NewSubMoves
    <3>3. z.ifIndex = call[c].ifIndex /\ z.sub = call[c].sub /\ z.at = "addSub"
      BY <1>2, <3>1 DEF NewSubCall
    <3>4. CallName(z) = TmpName(call[c].sub)
      BY <3>3 DEF CallName
    <3>5. call' = [call EXCEPT ![c] = z] \/ call' = [call EXCEPT ![c] = None]
      BY <2>1 DEF VerifySub, Goto, Return
    <3> HIDE DEF z
    <3> QED BY <3>2, <3>3, <3>4, <3>5, NoneCarried
  <2>2. CASE AddSubLink(c)
    <3> DEFINE named(n) == [at |-> "nameSub", sub |-> call[c].sub,
                            ifIndex |-> call[c].ifIndex, name |-> n]
    <3>1. \A n \in IfName : /\ named(n) \in NewSubCall
                            /\ named(n).ifIndex = call[c].ifIndex
                            /\ CallName(named(n)) = TmpName(call[c].sub)
      BY <1>4 DEF NewSubCall, CallName
    <3>2. LinkName(call[c].sub, call[c].ifIndex) \in IfName /\ NoName \in IfName
      BY <1>4, SubNames DEF IfName
    <3>3. PICK z : /\ call' = [call EXCEPT ![c] = z]
                   /\ z \in {None, named(NoName),
                             named(LinkName(call[c].sub, call[c].ifIndex))}
      BY <2>2 DEF AddSubLink, GotNamed, Return
    <3> HIDE DEF named
    <3> QED BY <3>1, <3>2, <3>3, NoneCarried
  <2> QED BY <2>1, <2>2
<1>6. UNCHANGED <<ifVars, logicalIntf, subIntf, vtepDb, loCfg, boot>>
  BY DEF VerifySub, AddSubLink, dbVars, cfgVars
<1>7. FreshInv'
  <2>1. y \in SubCall
    BY <1>5 DEF SubCall
  <2> QED BY <1>0, <1>2, <1>5, <1>6, <2>1, SubFresh
<1>8. NamesInv'
  BY <1>0, <1>3, <1>5, <1>6, QuietNames
<1> QED BY <1>7, <1>8

\* The temporary name gives way to that of the link.
LEMMA NameSubNames ==
  ASSUME VInv, NEW c \in SubClient \cup {Boot}, NameSub(c)
  PROVE  FreshInv' /\ NamesInv'
<1>a. PICK sub, i, name : sub = call[c].sub /\ i = call[c].ifIndex /\ name = call[c].name
  OBVIOUS
<1>b. PICK y : y = [call[c] EXCEPT !.at = "storeSub"]
  OBVIOUS
<1>0. IInv /\ UInv /\ FreshInv /\ NamesInv /\ c \in Client
  BY DEF VInv, Client
<1>1. At(c, "nameSub") /\ call[c].at = "nameSub"
  BY DEF NameSub, At
<1>2. call[c] \in NewSubCall
  BY <1>0, <1>1, CallKinds DEF IInv, NewSteps
<1>3. sub \in SubType /\ i \in IfId /\ name \in IfName
  BY <1>1, <1>2, <1>a, NewSubFields
<1>4. y \in NewSubCall /\ y.at = "storeSub" /\ y.ifIndex = i /\ y.name = name
  <2>1. y \in NewSubCall
    BY <1>1, <1>2, <1>b, NewSubMoves
  <2> QED BY <1>1, <1>2, <1>a, <1>b, <2>1 DEF NewSubCall
<1>5. Carries(call[c]) /\ CallName(call[c]) = TmpName(sub) /\ ~At(c, "removeSub")
  BY <1>1, <1>a DEF Carries, At, PendingSteps, CallName
<1>6. CallName(y) = name
  BY <1>4 DEF CallName
<1>7. /\ call' = [call EXCEPT ![c] = y] /\ UpdateIfNameForIfIndex(i, TmpName(sub), name)
      /\ UNCHANGED <<logicalIntf, subIntf, vtepDb, loCfg, boot>>
  BY <1>a, <1>b DEF NameSub, Goto, dbVars, cfgVars
<1>8. FreshInv'
  <2>1. y \in SubCall /\ call[c] \in SubCall
    BY <1>2, <1>4 DEF SubCall
  <2> QED BY <1>0, <1>7, <2>1, SubFresh
<1>9. TmpName(sub) \notin Own /\ name \notin Own
  BY <1>3, NamesAssumption DEF Own
<1>10. <<i, TmpName(sub)>> \in CallHeld
  BY <1>0, <1>5, <1>a DEF CallHeld
<1>11. ASSUME NEW h \in Held', h # <<i, name>>
       PROVE  h \in Held /\ h[1] # i
  <2>1. <<i, "call", c>> \in Taken
    BY <1>0, <1>5, <1>a DEF Taken, CallIds
  <2>2. CASE h \in CallHeld'
    <3>1. PICK d \in Client \ {c} : Carries(call[d]) /\ h = <<call[d].ifIndex, CallName(call[d])>>
      <4>1. ~(Carries(y) /\ h = <<y.ifIndex, CallName(y)>>)
        BY <1>4, <1>6, <1>11
      <4>2. UType /\ call' = [call EXCEPT ![c] = y]
        BY <1>0, <1>7 DEF UInv
      <4> QED BY <1>0, <2>2, <4>1, <4>2, CallHeldMoves
    <3>2. <<call[d].ifIndex, "call", d>> \in Taken
      BY <3>1 DEF Taken, CallIds
    <3>3. h[1] # i
      BY <1>0, <2>1, <3>1, <3>2 DEF UInv, Unique, Ids
    <3> QED BY <3>1, <3>3 DEF Held, CallHeld
  <2>3. CASE h \notin CallHeld'
    <3>1. SubHeld' \subseteq SubHeld
      BY <1>0, <1>5, <1>7, SubHeldKept DEF UInv
    <3>2. h \in LoHeld \cup SubHeld \cup VtepHeld /\ h \in Held
      BY <1>7, <1>11, <2>3, <3>1 DEF Held, LoHeld, VtepHeld
    <3>3. \E x \in Taken : x[1] = h[1] /\ x[2] # "call"
      BY <3>2, HeldTaken
    <3> QED BY <1>0, <2>1, <3>2, <3>3 DEF UInv, Unique, Ids
  <2> QED BY <2>2, <2>3
<1>12. NamesInv'
  <2>1. Held' \subseteq {h \in Held : h[1] # i} \cup {<<i, name>>}
    BY <1>11
  <2>2. <<i, TmpName(sub)>> \in Held
    BY <1>10 DEF Held
  <2> QED BY <1>0, <1>7, <1>9, <2>1, <2>2, NamesUpdated
<1> QED BY <1>8, <1>12

LEMMA StoreSubNames ==
  ASSUME VInv, NEW c \in SubClient \cup {Boot}, StoreSub(c)
  PROVE  FreshInv' /\ NamesInv'
<1>a. PICK sub, i, name, n :
        sub = call[c].sub /\ i = call[c].ifIndex /\ name = call[c].name /\ n = Len(subIntf) + 1
  OBVIOUS
<1> DEFINE y == [at |-> "subCreated", sub |-> sub]
           x == [ip |-> sub.ip, ifIndex |-> i, name |-> name, enable |-> sub.enable]
<1>0. IInv /\ UInv /\ FreshInv /\ NamesInv /\ c \in Client
  BY DEF VInv, Client
<1>1. At(c, "storeSub") /\ call[c].at = "storeSub"
  BY DEF StoreSub, At
<1>2. call[c] \in NewSubCall
  BY <1>0, <1>1, CallKinds DEF IInv, NewSteps
<1>3. sub \in SubType /\ i \in IfId /\ name \in IfName
  BY <1>1, <1>2, <1>a, NewSubFields
<1>4. y \in NewSubCall /\ ~Carries(y)
  BY <1>3 DEF NewSubCall, Carries, PendingSteps
<1>5. x \in SubEntry /\ x.ifIndex = i /\ x.name = name
  BY <1>3 DEF SubEntry, SubType
<1>6. Carries(call[c]) /\ CallName(call[c]) = name /\ ~At(c, "removeSub")
  BY <1>1, <1>a DEF Carries, At, PendingSteps, CallName
<1>7. /\ call' = [call EXCEPT ![c] = y] /\ subIntf' = Append(subIntf, x)
      /\ UNCHANGED <<ifVars, logicalIntf, vtepDb, loCfg, boot>>
  BY <1>a DEF StoreSub, cfgVars
<1> HIDE DEF x, y
<1>8. /\ DOMAIN subIntf' = DOMAIN subIntf \cup {n} /\ subIntf'[n] = x
      /\ \A e \in DOMAIN subIntf : subIntf'[e] = subIntf[e]
  <2>1. subIntf \in Seq(SubEntry)
    BY <1>0 DEF UInv, UType
  <2> QED BY <1>5, <1>7, <1>a, <2>1
<1>9. FreshInv'
  <2>1. y \in SubCall /\ call[c] \in SubCall
    BY <1>2, <1>4 DEF SubCall
  <2> QED BY <1>0, <1>7, <2>1, SubFresh
<1>10. SubHeld' \subseteq SubHeld \cup {<<i, name>>}
  <2>1. ASSUME NEW e, Leaving(e)
        PROVE  Leaving(e)'
    <3>1. PICK d \in Editor : At(d, "removeSub") /\ call[d].place = e
      BY <2>1 DEF Leaving
    <3>2. call'[d] = call[d]
      BY <1>0, <1>6, <1>7, <3>1 DEF UInv, UType
    <3> QED BY <3>1, <3>2 DEF Leaving, At
  <2> QED BY <1>5, <1>8, <2>1 DEF SubHeld
<1>11. <<i, name>> \in CallHeld /\ CallHeld' \subseteq CallHeld
  BY <1>0, <1>4, <1>6, <1>7, <1>a, CallHeldMoves DEF CallHeld, UInv
<1>12. Held' \subseteq Held
  BY <1>7, <1>10, <1>11 DEF Held, LoHeld, VtepHeld
<1>13. NamesInv'
  BY <1>0, <1>7, <1>12, NamesStay
<1> QED BY <1>9, <1>13

\* The calls of an editor that do not change the list, and what is returned.
LEMMA PlacedNames ==
  ASSUME VInv, NEW c \in Client, call[c] \in SubCall, NEW y \in OldSubCall \cup {None},
         call' = [call EXCEPT ![c] = y], ~At(c, "removeSub"),
         UNCHANGED <<ifVars, logicalIntf, vtepDb, loCfg, boot>>,
         DOMAIN subIntf' = DOMAIN subIntf,
         \A e \in DOMAIN subIntf : /\ subIntf'[e].ifIndex = subIntf[e].ifIndex
                                   /\ subIntf'[e].name = subIntf[e].name
  PROVE  FreshInv' /\ NamesInv'
<1>0. IInv /\ UInv /\ FreshInv /\ NamesInv
  BY DEF VInv
<1>1. y \in SubCall
  BY DEF SubCall
<1>2. ~Carries(y)
  BY OldSubFields, NoneCarried DEF Carries, PendingSteps, OldSteps
<1>3. FreshInv'
  BY <1>0, <1>1, SubFresh
<1>4. Held' \subseteq Held
  BY <1>0, <1>2, HeldStays DEF UInv
<1> QED BY <1>0, <1>3, <1>4, NamesStay

LEMMA EditNames ==
  ASSUME VInv, NEW c \in SubClient,
         \/ c \in Editor /\ \E sub \in subCfg : DeleteSubIPv4Intf(c, sub) \/ UpdateSubIPv4Intf(c, sub)
         \/ c \in Editor /\ (DelSubLink(c) \/ SetSubLink(c) \/ StoreEnable(c))
         \/ c \in Editor /\ FreeSub(c) /\ ~InList(c)
         \/ SubReturns(c)
  PROVE  FreshInv' /\ NamesInv'
<1>0. IInv /\ UInv /\ c \in Client
  BY DEF VInv, Client
<1>1. ~At(c, "removeSub")
  BY DEF DeleteSubIPv4Intf, UpdateSubIPv4Intf, DelSubLink, SetSubLink, StoreEnable, SubReturns,
         FreeSub, At, Idle
<1>2. UNCHANGED <<ifVars, logicalIntf, vtepDb, boot, loCfg>>
  BY DEF DeleteSubIPv4Intf, UpdateSubIPv4Intf, DelSubLink, SetSubLink, StoreEnable, SubReturns,
         FreeSub, dbVars, cfgVars
<1>3. /\ call[c] \in SubCall
      /\ \E y \in OldSubCall \cup {None} : call' = [call EXCEPT ![c] = y]
  <2>1. CASE \E sub \in subCfg : DeleteSubIPv4Intf(c, sub) \/ UpdateSubIPv4Intf(c, sub)
    <3>1. PICK sub \in subCfg : DeleteSubIPv4Intf(c, sub) \/ UpdateSubIPv4Intf(c, sub)
      BY <2>1
    <3>2. sub \in SubType /\ sub.ip \in Ip
      BY <1>0 DEF IInv, DbType, SubType
    <3>3. PlaceOf(sub.ip) \in Nat
      BY <1>0, <3>1, <3>2, PlaceIsNat DEF DeleteSubIPv4Intf, UpdateSubIPv4Intf, IInv, DbType
    <3>4. \E y \in OldSubCall : call' = [call EXCEPT ![c] = y]
      BY <3>1, <3>2, <3>3 DEF DeleteSubIPv4Intf, UpdateSubIPv4Intf, OldSubCall
    <3> QED BY <3>1, <3>4 DEF DeleteSubIPv4Intf, UpdateSubIPv4Intf, Idle, SubCall
  <2>2. CASE DelSubLink(c) \/ SetSubLink(c) \/ StoreEnable(c) \/ (FreeSub(c) /\ ~InList(c))
    <3>1. \E s \in OldSteps : At(c, s)
      BY <2>2 DEF DelSubLink, SetSubLink, StoreEnable, FreeSub, OldSteps
    <3>2. call[c] \in OldSubCall
      BY <1>0, <3>1, CallKinds DEF IInv
    <3>3. Return(c) \/ \E s \in OldSteps : Goto(c, s)
      BY <2>2 DEF DelSubLink, SetSubLink, StoreEnable, FreeSub, OldSteps
    <3> QED BY <3>2, <3>3, OldCallMoves DEF SubCall
  <2>3. CASE SubReturns(c)
    <3>1. (\E s \in OldSteps : At(c, s)) \/ (\E s \in NewSteps : At(c, s))
      BY <2>3 DEF SubReturns, OldSteps, NewSteps
    <3> QED BY <1>0, <2>3, <3>1, CallKinds DEF IInv, SubReturns, Return, SubCall
  <2> QED BY <2>1, <2>2, <2>3
<1>4. /\ DOMAIN subIntf' = DOMAIN subIntf
      /\ \A e \in DOMAIN subIntf : /\ subIntf'[e].ifIndex = subIntf[e].ifIndex
                                   /\ subIntf'[e].name = subIntf[e].name
  <2>1. CASE StoreEnable(c)
    <3>1. /\ subIntf' = [subIntf EXCEPT ![call[c].place].enable = ~call[c].sub.enable]
          /\ call[c].place \in DOMAIN subIntf
      BY <2>1 DEF StoreEnable, InList, NewEnable
    <3>2. subIntf \in Seq(SubEntry) /\ \A e \in DOMAIN subIntf : subIntf[e] \in SubEntry
      BY <1>0 DEF UInv, UType
    <3> QED BY <3>1, <3>2 DEF SubEntry
  <2>2. CASE UNCHANGED subIntf
    BY <2>2
  <2> QED BY <2>1, <2>2 DEF DeleteSubIPv4Intf, UpdateSubIPv4Intf, DelSubLink, SetSubLink,
                            SubReturns, FreeSub, dbVars
<1> QED BY <1>0, <1>1, <1>2, <1>3, <1>4, PlacedNames

\* What leaves the list gives up its name with its id.
LEMMA FreeSubNames ==
  ASSUME VInv, OneEditor, NEW c \in Editor, FreeSub(c), InList(c)
  PROVE  FreshInv' /\ NamesInv'
<1>a. PICK e, i, g : /\ e = call[c].place /\ i = subIntf[e].ifIndex
                     /\ g = <<i, subIntf[e].name>>
  OBVIOUS
<1>0. IInv /\ UInv /\ FreshInv /\ NamesInv /\ c \in Client
  BY EditorAssumption DEF VInv, Client
<1>1. At(c, "freeSub") /\ call[c] \in OldSubCall
  BY <1>0, CallKinds DEF FreeSub, OldSteps, IInv
<1>2. PICK y : /\ call' = [call EXCEPT ![c] = y] /\ y \in OldSubCall
               /\ y.at = "removeSub" /\ y.place = e
  <2>1. "removeSub" \in OldSteps
    BY DEF OldSteps
  <2>2. call' = [call EXCEPT ![c] = [call[c] EXCEPT !.at = "removeSub"]]
    BY DEF FreeSub, Goto
  <2> QED BY <1>1, <1>a, <2>1, <2>2, OldSubFields
<1>3. e \in DOMAIN subIntf /\ FreeIfIndex(i)
      /\ UNCHANGED <<logicalIntf, subIntf, vtepDb, loCfg, boot>>
  BY <1>a DEF FreeSub, InList, dbVars, cfgVars
<1>4. y # None /\ ~Carries(y)
  BY <1>2, NamesAssumption DEF Carries, PendingSteps
<1>5. FreshInv'
  BY <1>0, <1>1, <1>2, <1>3, SubFresh DEF SubCall
<1>6. <<i, "sub", e>> \in Taken /\ g \in Held
  <2>1. ~Leaving(e)
    BY <1>1, NoneLeaves DEF At
  <2> QED BY <1>3, <1>a, <2>1 DEF Taken, SubIds, Held, SubHeld
<1>7. Leaving(e)'
  <2>1. call'[c] = y
    BY <1>0, <1>2 DEF UInv, UType
  <2> QED BY <1>2, <1>4, <2>1 DEF Leaving, At
<1>8. ASSUME NEW h \in Held'
      PROVE  h \in Held /\ \E x \in Taken : x[1] = h[1] /\ x # <<i, "sub", e>>
  <2>1. CASE h \in SubHeld'
    <3>1. PICK d \in DOMAIN subIntf : ~Leaving(d)' /\ h = <<subIntf[d].ifIndex, subIntf[d].name>>
      BY <1>3, <2>1 DEF SubHeld
    <3>2. d # e
      BY <1>7, <3>1
    <3>3. ~Leaving(d)
      BY <1>1, NoneLeaves DEF At
    <3>4. <<subIntf[d].ifIndex, "sub", d>> \in Taken /\ h \in Held
      BY <3>1, <3>3 DEF Taken, SubIds, Held, SubHeld
    <3> QED BY <3>1, <3>2, <3>4
  <2>2. CASE h \notin SubHeld'
    <3>1. CallHeld' \subseteq CallHeld
      BY <1>0, <1>2, <1>4, CallHeldMoves DEF UInv, CallHeld
    <3>2. h \in LoHeld \cup VtepHeld \cup CallHeld /\ h \in Held
      BY <1>3, <1>8, <2>2, <3>1 DEF Held, LoHeld, VtepHeld
    <3>3. \E x \in Taken : x[1] = h[1] /\ x[2] # "sub"
      BY <3>2, HeldTaken
    <3> QED BY <3>2, <3>3
  <2> QED BY <2>1, <2>2
<1>9. Held' \subseteq {h \in Held : h[1] # g[1]}
  BY <1>0, <1>6, <1>8, <1>a DEF UInv, Unique, Ids
<1>10. NamesInv'
  BY <1>0, <1>3, <1>6, <1>9, <1>a, NamesFreed
<1> QED BY <1>5, <1>10

\* Those behind it on the list move up.
LEMMA RemoveSubNames ==
  ASSUME VInv, OneEditor, NEW c \in Editor, RemoveSub(c)
  PROVE  FreshInv' /\ NamesInv'
<1>a. PICK e, n : e = call[c].place /\ n = Len(subIntf)
  OBVIOUS
<1> DEFINE old(d) == IF d < e THEN d ELSE d + 1
<1>0. IInv /\ UInv /\ FreshInv /\ NamesInv /\ c \in Client
  BY EditorAssumption DEF VInv, Client
<1>1. At(c, "removeSub") /\ call[c] \in OldSubCall
  BY <1>0, CallKinds DEF RemoveSub, OldSteps, IInv
<1>2. PICK y : call' = [call EXCEPT ![c] = y] /\ y \in OldSubCall /\ y.at = "subDeleted"
  <2>1. "subDeleted" \in OldSteps
    BY DEF OldSteps
  <2>2. call' = [call EXCEPT ![c] = [call[c] EXCEPT !.at = "subDeleted"]]
    BY DEF RemoveSub, Goto
  <2> QED BY <1>1, <2>1, <2>2, OldSubFields
<1>3. /\ subIntf' = RemoveAt(subIntf, e)
      /\ UNCHANGED <<ifVars, logicalIntf, vtepDb, loCfg, boot>>
  BY <1>a DEF RemoveSub, cfgVars
<1>4. subIntf \in Seq(SubEntry) /\ n \in Nat /\ DOMAIN subIntf = 1..n /\ e \in 1..n
  BY <1>0, <1>a DEF UInv, UType, RemoveSub, InList
<1>5. /\ DOMAIN subIntf' = 1..n - 1
      /\ \A d \in 1..n - 1 : subIntf'[d] = subIntf[old(d)]
  BY <1>3, <1>4, <1>a, RemoveAtEffect
<1>6. \A d \in 1..n - 1 : old(d) \in DOMAIN subIntf /\ old(d) # e
  BY <1>4
<1> HIDE DEF old
<1>7. \A d : Leaving(d) => d = e
  BY <1>a DEF OneEditor, Leaving
<1>8. FreshInv'
  BY <1>0, <1>1, <1>2, <1>3, SubFresh DEF SubCall
<1>9. SubHeld' \subseteq SubHeld
  <2>1. ASSUME NEW h \in SubHeld'
        PROVE  h \in SubHeld
    <3>1. PICK d \in 1..n - 1 : h = <<subIntf'[d].ifIndex, subIntf'[d].name>>
      BY <1>5 DEF SubHeld
    <3> QED BY <1>5, <1>6, <1>7, <3>1 DEF SubHeld
  <2> QED BY <2>1
<1>10. CallHeld' \subseteq CallHeld
  <2>1. ~Carries(y)
    BY <1>2 DEF Carries, PendingSteps
  <2> QED BY <1>0, <1>2, <2>1, CallHeldMoves DEF UInv, CallHeld
<1>11. Held' \subseteq Held
  BY <1>3, <1>9, <1>10 DEF Held, LoHeld, VtepHeld
<1> QED BY <1>0, <1>3, <1>8, <1>11, NamesStay

-----------------------------------------------------------------------------
(***************************************************************************)
(* VXLANs, the end of the process, the restore.                            *)
(***************************************************************************)
LEMMA VxlanNames ==
  ASSUME VInv, UInv', NEW c \in VtepClient,
         \/ \E v \in Vni : CreateVxlan(c, v) \/ DeleteVxlan(c, v)
         \/ \E t \in Vtep, v \in Vni : CreateVtep(c, t, v)
         \/ \E t \in Vtep : DeleteVtep(c, t)
  PROVE  FreshInv' /\ NamesInv'
<1>0. IInv /\ UInv /\ FreshInv /\ NamesInv /\ c \in Client
  BY DEF VInv, Client
<1>1. UNCHANGED <<logicalIntf, subIntf, loCfg, call, boot>>
  BY DEF CreateVxlan, DeleteVxlan, CreateVtep, DeleteVtep, cfgVars
<1>2. FreshInv'
  BY <1>0, <1>1 DEF FreshInv, Naming, At
<1>3. LoHeld' = LoHeld /\ SubHeld' = SubHeld /\ CallHeld' = CallHeld
  BY <1>1 DEF LoHeld, SubHeld, CallHeld, Leaving, At
<1>4. vtepDb = [u \in Vtep |-> vtepDb[u]]
  BY <1>0 DEF UInv, UType
<1>5. NamesInv'
  <2>1. CASE \E t \in Vtep, v \in Vni : CreateVtep(c, t, v)
    <3>1. PICK t \in Vtep, v \in Vni : CreateVtep(c, t, v)
      BY <2>1
    <3>2. PICK i : i = NewIfIndex("Vtep")
      OBVIOUS
    <3>3. /\ AllocateIfIndex(t, "Vtep") /\ "Vtep" \in IfType /\ vtepDb[t] = None
          /\ vtepDb' = [vtepDb EXCEPT ![t] = [vni |-> v, ifIndex |-> i]]
      BY <3>1, <3>2 DEF CreateVtep, IfType
    <3>4. vtepDb'[t].ifIndex = i /\ \A u \in Vtep \ {t} : vtepDb'[u] = vtepDb[u]
      BY <1>4, <3>3
    <3>5. VtepHeld' \subseteq VtepHeld \cup {<<i, t>>}
      BY <3>4 DEF VtepHeld
    <3>6. ASSUME NEW h \in Held
          PROVE  h[2] # t
      <4>1. t \notin Lo /\ t \in Own
        BY NamesAssumption DEF Own
      <4> QED BY <1>0, <3>3, <4>1, OwnName
    <3>7. Held' \subseteq Held \cup {<<NewIfIndex("Vtep"), t>>}
      BY <1>3, <3>2, <3>5 DEF Held
    <3>8. <<i, "vtep", t>> \in Taken'
      <4>1. i \in IfId
        BY <1>0, <3>2, <3>3, Allocates DEF IInv
      <4>2. vtepDb'[t] = [vni |-> v, ifIndex |-> i]
        BY <1>4, <3>3
      <4>3. vtepDb'[t] # None
        BY <4>1, <4>2, NamesAssumption
      <4> QED BY <3>4, <4>3 DEF Taken, VtepIds
    <3>9. PICK z : z = <<i, "vtep", t>>
      OBVIOUS
    <3>10. z \in Taken' /\ z[1] = NewIfIndex("Vtep")
      BY <3>2, <3>8, <3>9
    <3> QED BY <1>0, <3>3, <3>6, <3>7, <3>10, NamesAllocated
  <2>2. CASE UNCHANGED ifVars /\
             (UNCHANGED vtepDb \/ \E t \in Vtep : vtepDb' = [vtepDb EXCEPT ![t] = None])
    <3>1. VtepHeld' \subseteq VtepHeld
      BY <1>4, <2>2 DEF VtepHeld
    <3>2. Held' \subseteq Held
      BY <1>3, <3>1 DEF Held
    <3> QED BY <1>0, <2>2, <3>2, NamesStay
  <2> QED BY <2>1, <2>2 DEF CreateVxlan, DeleteVxlan, DeleteVtep
<1> QED BY <1>2, <1>5

LEMMA RestartNames ==
  ASSUME VInv, StartAgain
  PROVE  FreshInv' /\ NamesInv'
<1>1. /\ \A l \in Lo : logicalIntf'[l] = None
      /\ \A t \in Vtep : vtepDb'[t] = None
      /\ \A c \in Client : call'[c] = None
      /\ subIntf' = << >> /\ boot' = loCfg \cup subCfg /\ loCfg' = loCfg
  BY DEF StartAgain, cfgVars
<1>2. subCfg \cap Lo = {} /\ None \notin NewLoCall /\ Boot \in Client
  BY NamesAssumption DEF VInv, IInv, DbType, Client
<1>3. FreshInv'
  <2>1. \A c \in Client : ~(Naming(c)' \/ At(c, "loDeleted")')
    BY <1>1 DEF Naming, At
  <2> QED BY <1>1, <1>2, <2>1 DEF FreshInv
<1>4. NamesInv'
  <2>1. Held' = {}
    BY <1>1 DEF Held, LoHeld, SubHeld, VtepHeld, CallHeld, Carries
  <2>2. ifNameOf' = << >> /\ ifIndexOf' = << >>
    BY DEF StartAgain
  <2> QED BY <2>1, <2>2 DEF NamesInv
<1> QED BY <1>3, <1>4

LEMMA RestoreReturnsNames ==
  ASSUME VInv, OneLoClient, RestoreReturns
  PROVE  FreshInv' /\ NamesInv'
<1>0. IInv /\ UInv /\ FreshInv /\ NamesInv /\ Boot \in Client
  BY DEF VInv, Client
<1>1. /\ call' = [call EXCEPT ![Boot] = None]
      /\ UNCHANGED <<ifVars, links, dbVars, cfgVars, boot>>
  BY DEF RestoreReturns, Return
<1>2. NamesInv'
  BY <1>0, <1>1, NoneCarried, QuietNames DEF RestoreReturns, At, dbVars
<1>3. None \in LoCall /\ None \in SubCall /\ None \notin NewLoCall
  BY NamesAssumption DEF LoCall, SubCall
<1>4. CASE At(Boot, "loCreated")
  <2>1. call[Boot] \in LoCall /\ call[Boot] # None /\ Turn(Boot) /\ call[Boot] \in NewLoCall
    BY <1>0, <1>4, LoopbackKinds, CallKinds DEF IInv
  <2>2. \A l \in Lo : logicalIntf'[l] # None => l \notin boot' /\ l \in loCfg'
    BY <1>0, <1>1, <2>1, WasFresh DEF FreshInv, dbVars, cfgVars
  <2>3. boot' \cap Lo \subseteq loCfg'
    BY <1>0, <1>1 DEF FreshInv, cfgVars
  <2>4. FreshInv'
    BY <1>0, <1>1, <1>3, <2>1, <2>2, <2>3, FreshMoves
  <2> QED BY <1>2, <2>4
<1>5. CASE At(Boot, "subCreated")
  <2>1. call[Boot] \in SubCall
    BY <1>0, <1>5, CallKinds DEF IInv, NewSteps, SubCall
  <2>2. FreshInv'
    BY <1>0, <1>1, <1>3, <2>1, SubFresh DEF dbVars, cfgVars
  <2> QED BY <1>2, <2>2
<1> QED BY <1>4, <1>5 DEF RestoreReturns

LEMMA StaysNames ==
  ASSUME VInv, UNCHANGED vars
  PROVE  FreshInv' /\ NamesInv'
<1>0. IInv /\ UInv /\ FreshInv /\ NamesInv
  BY DEF VInv
<1>1. UNCHANGED <<ifNameOf, ifIndexOf, nextIfId, freeIfIndex, links, logicalIntf, subIntf, vtepDb,
                  subCfg, loCfg, call, boot>>
  BY DEF vars, ifVars, dbVars, cfgVars
<1>2. FreshInv'
  BY <1>0, <1>1 DEF FreshInv, Naming, At
<1>3. Held' = Held
  BY <1>1 DEF Held, LoHeld, SubHeld, VtepHeld, CallHeld, Leaving, At
<1>4. NamesInv'
  BY <1>0, <1>1, <1>3, NamesStay DEF ifVars
<1> QED BY <1>2, <1>4

-----------------------------------------------------------------------------
(***************************************************************************)
(* The invariant and the theorems.                                         *)
(***************************************************************************)
LEMMA InitVInv ==
  ASSUME Init
  PROVE  VInv
<1>1. \A c \in Client : call[c] = None
  BY DEF Init
<1>2. FreshInv
  <2>1. Boot \in Client /\ None \notin NewLoCall
    BY NamesAssumption DEF Client
  <2> QED BY <1>1, <2>1 DEF Init, FreshInv, Naming, At
<1>3. NamesInv
  <2>1. Held = {}
    BY <1>1 DEF Init, Held, LoHeld, SubHeld, VtepHeld, CallHeld, Carries
  <2> QED BY <2>1 DEF Init, NoIfs, NamesInv
<1> QED BY <1>2, <1>3, InitIInv, InitUInv DEF VInv

LEMMA NextVInv ==
  ASSUME OneLoClient, OneEditor, VInv, [Next]_vars
  PROVE  VInv'
<1>0. IInv' /\ UInv'
  BY NextIInv, NextUInv DEF VInv
<1> SUFFICES FreshInv' /\ NamesInv'
  BY <1>0 DEF VInv
<1>1. ASSUME NEW c \in LoClient, NEW l \in Lo, CreateLogicalIntf(c, l)
      PROVE  FreshInv' /\ NamesInv'
  <2>1. c # Boot /\ Turn(c) /\ call[c] = None
    BY <1>1, BootAssumption DEF CreateLogicalIntf, Idle, Turn
  <2>2. StartLogical(c, l) /\ l \notin loCfg /\ boot' = boot
    BY <1>1 DEF CreateLogicalIntf
  <2> QED BY <1>0, <2>1, <2>2, StartLogicalNames
<1>2. ASSUME NEW c \in SubClient, NEW sub \in SubCfg, CreateSubIPv4Intf(c, sub)
      PROVE  FreshInv' /\ NamesInv'
  <2>1. Turn(c) /\ call[c] = None /\ sub \in SubType
    BY <1>2, BootAssumption, SubCfgAssumption DEF CreateSubIPv4Intf, Idle, Turn
  <2>2. StartSub(c, sub) /\ boot' = boot
    BY <1>2 DEF CreateSubIPv4Intf
  <2> QED BY <1>0, <2>1, <2>2, StartSubNames
<1>3. CASE \/ \E c \in LoClient, l \in Lo : DeleteLogicalIntf(c, l)
           \/ \E c \in LoClient \cup {Boot} : AddLoopback(c) \/ StoreLoopback(c)
           \/ \E c \in LoClient : DropLoopback(c) \/ LoopbackReturns(c)
  BY <1>3, DeleteLogicalIntfNames, AddLoopbackNames, StoreLoopbackNames, DropLoopbackNames,
     LoopbackReturnsNames
<1>4. CASE \/ \E c \in Editor, sub \in subCfg :
                DeleteSubIPv4Intf(c, sub) \/ UpdateSubIPv4Intf(c, sub)
           \/ \E c \in SubClient \cup {Boot} :
                VerifySub(c) \/ AddSubLink(c) \/ NameSub(c) \/ StoreSub(c)
           \/ \E c \in Editor : \/ DelSubLink(c) \/ FreeSub(c) \/ RemoveSub(c) \/ SetSubLink(c)
                                \/ StoreEnable(c)
           \/ \E c \in SubClient : SubReturns(c)
  BY <1>4, GoOnNames, NameSubNames, StoreSubNames, EditNames, FreeSubNames, RemoveSubNames,
     EditorAssumption
<1>5. CASE \/ \E c \in VtepClient, v \in Vni : CreateVxlan(c, v) \/ DeleteVxlan(c, v)
           \/ \E c \in VtepClient, t \in Vtep, v \in Vni : CreateVtep(c, t, v)
           \/ \E c \in VtepClient, t \in Vtep : DeleteVtep(c, t)
  BY <1>0, <1>5, VxlanNames
<1>6. CASE Die \/ Deinit
  BY <1>6, RestartNames DEF Die, Deinit
<1>7. ASSUME NEW l \in Lo, RestoreLogicalIntf(l)
      PROVE  FreshInv' /\ NamesInv'
  <2>1. Turn(Boot) /\ call[Boot] = None
    BY <1>7 DEF Turn, Booting, RestoreLogicalIntf
  <2> QED BY <1>0, <1>7, <2>1, StartLogicalNames DEF RestoreLogicalIntf
<1>8. ASSUME NEW sub \in subCfg, RestoreSubIPv4Intf(sub)
      PROVE  FreshInv' /\ NamesInv'
  <2>1. Turn(Boot) /\ call[Boot] = None
    BY <1>8 DEF Turn, Booting, RestoreSubIPv4Intf
  <2>2. sub \in SubType
    BY DEF VInv, IInv, DbType
  <2> QED BY <1>0, <1>8, <2>1, <2>2, StartSubNames DEF RestoreSubIPv4Intf
<1>9. CASE RestoreReturns
  BY <1>9, RestoreReturnsNames
<1>10. CASE UNCHANGED vars
  BY <1>10, StaysNames
<1> QED BY <1>1, <1>2, <1>3, <1>4, <1>5, <1>6, <1>7, <1>8, <1>9, <1>10 DEF Next

LEMMA NamesInvariance == OneLoClient /\ OneEditor => (Spec => []VInv)
<1>1. Init => VInv
  BY InitVInv
<1>2. ASSUME OneLoClient, OneEditor
      PROVE  VInv /\ [Next]_vars => VInv'
  BY <1>2, NextVInv
<1>3. ASSUME OneLoClient, OneEditor
      PROVE  Spec => []VInv
  BY <1>1, <1>2, <1>3, PTL DEF Spec
<1> QED BY <1>3

\* ConvertIntfStrListToIfIndexList and GetIfNameForIfIndex (ifMgr.go): an ifIndex
\* is allocated under a temporary name, renamed when the link is there, freed and
\* used again.  Through failed calls, crashes and restores, beside any number of
\* clients that create sub-interfaces, each interface that is not leaving is found
\* by its ifIndex, loopbacks and tunnels by their names too, and no name leads to
\* an ifIndex that is free or another's.
THEOREM NamesAlwaysResolve == OneLoClient /\ OneEditor => (Spec => []NamesResolve)
<1>1. VInv => NamesResolve
  <2> SUFFICES ASSUME VInv PROVE NamesResolve
    OBVIOUS
  <2>1. ASSUME NEW x \in Interfaces
        PROVE  <<x[1], x[2]>> \in Held
    BY DEF Interfaces, LoTunnels, Held, LoHeld, SubHeld, VtepHeld
  <2>2. ASSUME NEW x \in Interfaces
        PROVE  x[1] \in DOMAIN ifNameOf /\ ifNameOf[x[1]] = x[2]
    BY <2>1 DEF VInv, NamesInv, Named
  <2>3. ASSUME NEW x \in LoTunnels
        PROVE  x[2] \in DOMAIN ifIndexOf /\ ifIndexOf[x[2]] = x[1]
    <3>1. <<x[1], x[2]>> \in Held
      BY <2>1 DEF Interfaces
    <3>2. x[2] \in Own
      BY DEF LoTunnels, Own
    <3> QED BY <3>1, <3>2 DEF VInv, NamesInv, Found
  <2>4. \A n \in DOMAIN ifIndexOf :
          ifIndexOf[n] \in DOMAIN ifNameOf /\ ifNameOf[ifIndexOf[n]] = n
    BY DEF VInv, NamesInv, Named
  <2> QED BY <2>2, <2>3, <2>4 DEF NamesResolve
<1>2. ASSUME OneLoClient, OneEditor
      PROVE  Spec => []NamesResolve
  <2>1. Spec => []VInv
    BY <1>2, NamesInvariance
  <2> QED BY <1>1, <2>1, PTL
<1> QED BY <1>2
=============================================================================
