----------------------------- MODULE LagProofs -----------------------------
(***************************************************************************)
(* Proofs about LagSystem for every set of ports, LAGs and names: the four *)
(* mirrors of the membership, under every schedule, the one that deadlocks *)
(* included, and the counts, with one thing at a time.                     *)
(***************************************************************************)
EXTENDS LagSystem, FiniteSetTheorems, TLAPS

In(db) == {l \in LagId : db[l] # None}

InSome(db, p) == \E l \in In(db) : p \in db[l].members

\* The plugins have the LAGs of the table db: bonds and their ports, and, unless
\* the ASIC has a LAG more, its LAGs and their ports.
PluginsHave(db) ==
  /\ bonds = {db[l].name : l \in In(db)}
  /\ \A l, k \in In(db) : db[l].name = db[k].name => l = k
  /\ \A p \in Port : master[p] \in bonds \cup {None}
  /\ \A p \in Port, l \in In(db) : master[p] = db[l].name <=> p \in db[l].members
  /\ In(db) \subseteq hwLags
  /\ hwLags = In(db) =>
       \A p \in Port, l \in LagId : hwLagOf[p] = l <=> (l \in In(db) /\ p \in db[l].members)
  /\ hwLags = In(db) => \A p \in Port : hwLagOf[p] \in LagId \cup {None}

Disjoint(db) == \A l, k \in In(db), p \in Port :
  (p \in db[l].members /\ p \in db[k].members) => l = k

\* The two tables differ in their counts only.
Like(db, dc) == \A l \in LagId :
  /\ db[l] = None <=> dc[l] = None
  /\ db[l] # None => db[l].name = dc[l].name /\ db[l].members = dc[l].members

Db == [LagId -> Info \cup {None}]

\* db is the table with one entry changed.
Changed(db, l, i) == db[l] = i /\ \A k \in LagId \ {l} : db[k] = lagDB[k]

\* The plugins have what the table has, or will have.
PluginsFollow == \E db \in Db : db = lagDB /\ PluginsHave(db)
PluginsAhead(l, i) == \E db \in Db : Changed(db, l, i) /\ PluginsHave(db)

-----------------------------------------------------------------------------
(***************************************************************************)
(* The inductive invariant: in each phase of a call, which table the       *)
(* plugins and the port modes already follow.                              *)
(***************************************************************************)
\* Nothing to follow up but the VLAN.
Settled ==
  /\ \/ call = None
     \/ call \in CreateCall /\ call.at # "store"
     \/ call \in VlanCall
  /\ PluginsFollow
  /\ \A p \in Port : portMode[p] = "L2" <=> InSome(lagDB, p)

Creating ==
  /\ call \in CreateCall /\ call.at = "store"
  /\ lagDB[call.lag] = None
  /\ PluginsAhead(call.lag, call.info)
  /\ \A p \in Port : portMode[p] = "L2" <=> InSome(lagDB, p) \/ p \in call.info.members

Updating ==
  /\ call \in UpdateCall /\ call.at = "store"
  /\ lagDB[call.lag] # None /\ call.old = lagDB[call.lag].members
  /\ PluginsAhead(call.lag, call.info)
  /\ \A p \in Port : portMode[p] = "L2" <=> InSome(lagDB, p)

Updated ==
  /\ call \in UpdateCall /\ call.at = "modes"
  /\ lagDB[call.lag] # None /\ call.info.members = lagDB[call.lag].members
  /\ PluginsFollow
  /\ \A p \in Port : portMode[p] = "L2" <=>
       p \in call.old \/ \E l \in In(lagDB) \ {call.lag} : p \in lagDB[l].members
  /\ \A l \in In(lagDB) \ {call.lag}, p \in call.old : p \notin lagDB[l].members

Deleting ==
  /\ call \in DeleteCall
  /\ lagDB[call.lag] # None
  /\ PluginsAhead(call.lag, None)
  /\ \A p \in Port : portMode[p] = "L2" <=> InSome(lagDB, p)

Deleted ==
  /\ call \in UnconfigureCall
  /\ PluginsFollow
  /\ \A p \in Port : portMode[p] = "L2" <=> InSome(lagDB, p) \/ p \in call.old
  /\ \A p \in call.old : ~InSome(lagDB, p)

CallInv == Settled \/ Creating \/ Updating \/ Updated \/ Deleting \/ Deleted

\* A link handler visits LAGs that are there: it holds LagMgr.dbMutex.
InLags(p) == \E step \in {"lags", "vlan", "count", "l3"} : HandlerAt(p, step)

LinkInv ==
  /\ link \in [Port -> LinkCall \cup {None}]
  /\ \A p \in Port : InLags(p) => lagLock = p /\ link[p].todo \subseteq In(lagDB)

IInv == lagDB \in Db /\ Disjoint(lagDB) /\ CallInv /\ LinkInv

-----------------------------------------------------------------------------
(***************************************************************************)
(* What the plugins have, before and after.                                *)
(***************************************************************************)
LEMMA PluginsStay ==
  ASSUME NEW db, PluginsHave(db), UNCHANGED plugins
  PROVE  PluginsHave(db)'
BY DEF PluginsHave, In, plugins

LEMMA LikeKeeps ==
  ASSUME NEW db, NEW dc, Like(db, dc)
  PROVE  /\ In(dc) = In(db)
         /\ \A l \in In(db) : dc[l].name = db[l].name /\ dc[l].members = db[l].members
         /\ \A p \in Port : InSome(dc, p) <=> InSome(db, p)
         /\ Disjoint(db) => Disjoint(dc)
         /\ PluginsHave(db) => PluginsHave(dc)
<1>1. In(dc) = In(db)
  BY DEF Like, In
<1>2. \A l \in In(db) : dc[l].name = db[l].name /\ dc[l].members = db[l].members
  BY DEF Like, In
<1>3. \A p \in Port : InSome(dc, p) <=> InSome(db, p)
  BY <1>1, <1>2 DEF InSome
<1>4. Disjoint(db) => Disjoint(dc)
  BY <1>1, <1>2 DEF Disjoint
<1>5. {dc[l].name : l \in In(dc)} = {db[l].name : l \in In(db)}
  BY <1>1, <1>2
<1>6. PluginsHave(db) => PluginsHave(dc)
  BY <1>1, <1>2, <1>5 DEF PluginsHave
<1> QED BY <1>1, <1>2, <1>3, <1>4, <1>6

\* The LAGs the plugins have are disjoint: their bonds are.
LEMMA PluginsDisjoint ==
  ASSUME NEW db, PluginsHave(db)
  PROVE  Disjoint(db)
BY DEF PluginsHave, Disjoint

LEMMA CreateEffect ==
  ASSUME lagDB \in Db, PluginsHave(lagDB),
         NEW l \in LagId \ hwLags, NEW n \in Name \ bonds, NEW S \in SUBSET Port,
         \A p \in S : ~InSome(lagDB, p),
         NEW i \in Info, i.name = n, i.members = S,
         SaiCreateLag(l, S), bonds' = bonds \cup {n}, master' = AddPortToBondIf(master, n, S),
         NEW db \in Db, Changed(db, l, i)
  PROVE  PluginsHave(db)'
<1>1. /\ lagDB[l] = None /\ db[l] = i /\ i # None
      /\ \A k \in LagId \ {l} : db[k] = lagDB[k]
  BY LagNoneAssumption DEF PluginsHave, In, Db, Changed
<1>2. In(db) = In(lagDB) \cup {l} /\ l \notin In(lagDB)
  BY <1>1 DEF In
<1>3. \A k \in In(lagDB) : k # l /\ db[k] = lagDB[k] /\ lagDB[k].name \in bonds
                           /\ lagDB[k].name # n
  BY <1>1, <1>2 DEF In, PluginsHave
<1>4. bonds' = {db[k].name : k \in In(db)}
  <2>1. bonds = {lagDB[k].name : k \in In(lagDB)}
    BY DEF PluginsHave
  <2>2. \A b : b \in bonds' <=> b = n \/ \E k \in In(lagDB) : b = lagDB[k].name
    BY <2>1
  <2>3. \A b : b \in {db[k].name : k \in In(db)} <=>
               b = db[l].name \/ \E k \in In(lagDB) : b = db[k].name
    BY <1>2
  <2>4. db[l].name = n
    BY <1>1
  <2>5. \A k \in In(lagDB) : db[k].name = lagDB[k].name
    BY <1>3
  <2>6. \A b : b \in bonds' <=> b \in {db[k].name : k \in In(db)}
    BY <2>2, <2>3, <2>4, <2>5
  <2> QED BY <2>6
<1>5. \A p \in Port : master'[p] = IF p \in S THEN n ELSE master[p]
  BY DEF AddPortToBondIf
<1>6. \A p \in Port : master[p] # n
  BY LagNoneAssumption DEF PluginsHave
<1>7. \A p \in Port, k \in In(db) : master'[p] = db[k].name <=> p \in db[k].members
  <2>1. ASSUME NEW p \in Port
        PROVE  master'[p] = db[l].name <=> p \in db[l].members
    BY <1>1, <1>5, <1>6
  <2>2. ASSUME NEW p \in Port, NEW k \in In(lagDB)
        PROVE  master'[p] = db[k].name <=> p \in db[k].members
    <3>1. master[p] = lagDB[k].name <=> p \in lagDB[k].members
      BY DEF PluginsHave
    <3>2. p \in S => p \notin lagDB[k].members
      BY DEF InSome
    <3> QED BY <1>3, <1>5, <3>1, <3>2
  <2> QED BY <1>2, <2>1, <2>2
<1>8. \A k, m \in In(db) : db[k].name = db[m].name => k = m
  <2>1. \A k, m \in In(lagDB) : lagDB[k].name = lagDB[m].name => k = m
    BY DEF PluginsHave
  <2>2. db[l].name = n
    BY <1>1
  <2> QED BY <1>2, <1>3, <2>1, <2>2
<1>9. \A p \in Port : master'[p] \in bonds' \cup {None}
  BY <1>5 DEF PluginsHave
<1>10. hwLags' = hwLags \cup {l} /\ In(db) \subseteq hwLags'
  BY <1>2 DEF SaiCreateLag, PluginsHave
<1>11. ASSUME hwLags' = In(db)
       PROVE  \A p \in Port :
                /\ \A k \in LagId : hwLagOf'[p] = k <=> (k \in In(db) /\ p \in db[k].members)
                /\ hwLagOf'[p] \in LagId \cup {None}
  <2>1. hwLags = In(lagDB)
    <3>1. \A k : k \in hwLags \/ k = l <=> k \in In(lagDB) \/ k = l
      BY <1>2, <1>10, <1>11
    <3> QED BY <1>2, <3>1
  <2>2. ASSUME NEW p \in Port
        PROVE  hwLagOf'[p] = IF p \in S THEN l ELSE hwLagOf[p]
    <3>1. p \in S => hwLagOf[p] = None
      BY <2>1 DEF PluginsHave, InSome
    <3> QED BY <3>1 DEF SaiCreateLag, SaiAddMembers
  <2>3. ASSUME NEW p \in Port, NEW k \in LagId
        PROVE  hwLagOf'[p] = k <=> (k \in In(db) /\ p \in db[k].members)
    <3>1. CASE k = l
      <4>1. hwLagOf[p] # l
        BY <1>2, <2>1 DEF PluginsHave
      <4> QED BY <1>1, <1>2, <2>2, <3>1, <4>1
    <3>2. CASE k # l
      <4>1. hwLagOf[p] = k <=> (k \in In(lagDB) /\ p \in lagDB[k].members)
        BY <2>1 DEF PluginsHave
      <4>2. p \in S => ~(k \in In(lagDB) /\ p \in lagDB[k].members)
        BY DEF InSome
      <4>3. k \in In(db) /\ p \in db[k].members
              <=> k \in In(lagDB) /\ p \in lagDB[k].members
        BY <1>1, <1>2, <3>2
      <4> QED BY <2>2, <3>2, <4>1, <4>2, <4>3
    <3> QED BY <3>1, <3>2
  <2> QED BY <2>1, <2>2, <2>3 DEF PluginsHave
<1> QED BY <1>4, <1>7, <1>8, <1>9, <1>10, <1>11 DEF PluginsHave, In

LEMMA UpdateEffect ==
  ASSUME lagDB \in Db, PluginsHave(lagDB), NEW l \in In(lagDB), NEW S \in SUBSET Port,
         \A p \in S, k \in In(lagDB) : p \in lagDB[k].members => k = l,
         NEW i \in Info, i.name = lagDB[l].name, i.members = S,
         hwLagOf' = SaiUpdateLag(l, lagDB[l].members, S),
         master' = BondUpdate(lagDB[l].name, lagDB[l].members, S),
         UNCHANGED <<hwLags, bonds>>,
         NEW db \in Db, Changed(db, l, i)
  PROVE  PluginsHave(db)'
<1> DEFINE old == lagDB[l].members
<1>1. /\ l \in LagId /\ db[l] = i /\ i # None
      /\ \A k \in LagId \ {l} : db[k] = lagDB[k]
  BY LagNoneAssumption DEF In, Db, Changed
<1>2. In(db) = In(lagDB)
  BY <1>1 DEF In
<1>3. \A k \in In(lagDB) : /\ k \in LagId /\ db[k].name = lagDB[k].name
                           /\ k # l => db[k] = lagDB[k]
  BY <1>1 DEF In
<1>4. bonds' = {db[k].name : k \in In(db)}
  BY <1>2, <1>3 DEF PluginsHave
<1>5. \A k, m \in In(db) : db[k].name = db[m].name => k = m
  BY <1>2, <1>3 DEF PluginsHave
<1>6. lagDB[l].name \in bonds /\ lagDB[l].name # None
  BY LagNoneAssumption DEF PluginsHave, In, Db, Info
<1>7. \A p \in Port : master'[p] = IF p \in S \ old THEN lagDB[l].name
                                   ELSE IF p \in old \ S THEN None ELSE master[p]
  BY DEF BondUpdate, AddPortToBondIf, Released
<1>8. \A p \in Port : master'[p] \in bonds' \cup {None}
  BY <1>6, <1>7 DEF PluginsHave
<1>9. ASSUME NEW p \in Port, NEW k \in In(lagDB)
      PROVE  master'[p] = db[k].name <=> p \in db[k].members
  <2>1. /\ master[p] = lagDB[k].name <=> p \in lagDB[k].members
        /\ master[p] = lagDB[l].name <=> p \in old
    BY DEF PluginsHave
  <2>2. lagDB[k].name # None
    BY LagNoneAssumption DEF In, Db, Info
  <2>3. CASE k = l
    BY <1>1, <1>6, <1>7, <2>1, <2>3
  <2>4. CASE k # l
    <3>1. lagDB[k].name # lagDB[l].name
      BY <2>4 DEF PluginsHave
    <3>2. p \in S => p \notin lagDB[k].members
      BY <2>4
    <3>3. p \in old => p \notin lagDB[k].members
      BY <2>1, <3>1
    <3> QED BY <1>3, <1>7, <2>1, <2>2, <2>4, <3>1, <3>2, <3>3
  <2> QED BY <2>3, <2>4
<1>10. ASSUME hwLags' = In(db)
       PROVE  \A p \in Port :
                /\ \A k \in LagId : hwLagOf'[p] = k <=> (k \in In(db) /\ p \in db[k].members)
                /\ hwLagOf'[p] \in LagId \cup {None}
  <2>1. hwLags = In(lagDB)
    BY <1>2, <1>10
  <2>2. \A p \in Port, k \in LagId :
          hwLagOf[p] = k <=> (k \in In(lagDB) /\ p \in lagDB[k].members)
    BY <2>1 DEF PluginsHave
  <2>3. \A p \in Port : hwLagOf[p] \in LagId \cup {None}
    BY <2>1 DEF PluginsHave
  <2>4. ASSUME NEW p \in Port
        PROVE  hwLagOf'[p] = IF p \in S \ old THEN l
                             ELSE IF p \in old \ S THEN None ELSE hwLagOf[p]
    <3>1. p \in S \ old => hwLagOf[p] = None
      <4>1. p \in S \ old => \A k \in In(lagDB) : p \notin lagDB[k].members
        OBVIOUS
      <4> QED BY <2>2, <2>3, <4>1
    <3> QED BY <3>1 DEF SaiUpdateLag, SaiAddMembers, Released
  <2>5. ASSUME NEW p \in Port, NEW k \in LagId
        PROVE  hwLagOf'[p] = k <=> (k \in In(db) /\ p \in db[k].members)
    <3>1. k # None
      BY LagNoneAssumption
    <3>2. CASE k = l
      BY <1>1, <1>2, <2>2, <2>4, <3>1, <3>2
    <3>3. CASE k # l
      <4>1. p \in old => ~(k \in In(lagDB) /\ p \in lagDB[k].members)
        BY <1>1, <2>2, <3>3
      <4>2. p \in S => ~(k \in In(lagDB) /\ p \in lagDB[k].members)
        BY <3>3
      <4> QED BY <1>1, <1>2, <2>2, <2>4, <3>1, <3>3, <4>1, <4>2
    <3> QED BY <3>2, <3>3
  <2> QED BY <1>1, <2>3, <2>4, <2>5
<1> QED BY <1>2, <1>4, <1>5, <1>8, <1>9, <1>10 DEF PluginsHave, In

LEMMA DeleteEffect ==
  ASSUME lagDB \in Db, PluginsHave(lagDB), NEW l \in In(lagDB),
         SaiDeleteLag(l), bonds' = bonds \ {lagDB[l].name},
         master' = Released(master, {p \in Port : master[p] = lagDB[l].name}),
         NEW db \in Db, Changed(db, l, None)
  PROVE  PluginsHave(db)'
<1>1. l \in LagId /\ db[l] = None /\ \A k \in LagId \ {l} : db[k] = lagDB[k]
  BY DEF In, Db, Changed
<1>2. In(db) = In(lagDB) \ {l} /\ \A k \in In(db) : db[k] = lagDB[k]
  BY <1>1 DEF In
<1>3. \A k \in In(db) : lagDB[k].name # lagDB[l].name /\ lagDB[k].name # None
  BY <1>2, LagNoneAssumption DEF PluginsHave, In, Db, Info
<1>4. bonds' = {db[k].name : k \in In(db)}
  <2>1. bonds = {lagDB[k].name : k \in In(lagDB)}
    BY DEF PluginsHave
  <2>2. \A b : b \in bonds' <=>
               b # lagDB[l].name /\ \E k \in In(lagDB) : b = lagDB[k].name
    BY <2>1
  <2>3. \A b : b \in {db[k].name : k \in In(db)} <=> \E k \in In(db) : b = lagDB[k].name
    BY <1>2
  <2> QED BY <1>2, <1>3, <2>2, <2>3
<1>5. \A k, m \in In(db) : db[k].name = db[m].name => k = m
  BY <1>2 DEF PluginsHave
<1>6. \A p \in Port : master'[p] = IF master[p] = lagDB[l].name THEN None ELSE master[p]
  BY DEF Released
<1>7. \A p \in Port : master'[p] \in bonds' \cup {None}
  BY <1>6 DEF PluginsHave
<1>8. \A p \in Port, k \in In(db) : master'[p] = db[k].name <=> p \in db[k].members
  <2>1. \A p \in Port, k \in In(lagDB) :
          master[p] = lagDB[k].name <=> p \in lagDB[k].members
    BY DEF PluginsHave
  <2> QED BY <1>2, <1>3, <1>6, <2>1
<1>9. hwLags' = hwLags \ {l} /\ In(db) \subseteq hwLags'
  BY <1>2 DEF SaiDeleteLag, PluginsHave
<1>10. ASSUME hwLags' = In(db)
       PROVE  \A p \in Port :
                /\ \A k \in LagId : hwLagOf'[p] = k <=> (k \in In(db) /\ p \in db[k].members)
                /\ hwLagOf'[p] \in LagId \cup {None}
  <2>1. hwLags = In(lagDB)
    <3>1. l \in hwLags
      BY DEF PluginsHave
    <3>2. \A k : k \in hwLags /\ k # l <=> k \in In(lagDB) /\ k # l
      BY <1>2, <1>9, <1>10
    <3> QED BY <3>1, <3>2
  <2>2. \A p \in Port, k \in LagId :
          hwLagOf[p] = k <=> (k \in In(lagDB) /\ p \in lagDB[k].members)
    BY <2>1 DEF PluginsHave
  <2>3. \A p \in Port : hwLagOf'[p] = IF hwLagOf[p] = l THEN None ELSE hwLagOf[p]
    BY DEF SaiDeleteLag, Released
  <2>4. None \notin LagId
    BY LagNoneAssumption
  <2>5. \A p \in Port : hwLagOf[p] \in LagId \cup {None}
    BY <2>1 DEF PluginsHave
  <2>6. ASSUME NEW p \in Port, NEW k \in LagId
        PROVE  hwLagOf'[p] = k <=> (k \in In(db) /\ p \in db[k].members)
    <3>1. hwLagOf'[p] = k <=> hwLagOf[p] = k /\ k # l
      BY <2>3, <2>4
    <3> QED BY <1>2, <2>2, <3>1
  <2>7. \A p \in Port : hwLagOf'[p] \in LagId \cup {None}
    BY <2>3, <2>5
  <2> QED BY <2>6, <2>7
<1> QED BY <1>4, <1>5, <1>7, <1>8, <1>9, <1>10 DEF PluginsHave, In

-----------------------------------------------------------------------------
(***************************************************************************)
(* The phases of a call.                                                   *)
(***************************************************************************)
LEMMA Phases ==
  ASSUME CallInv
  PROVE  /\ call = None => Settled
         /\ At("store") => Creating \/ Updating
         /\ At("vlan") \/ At("members") \/ At("countLag") => Settled /\ call \in CreateCall
         /\ At("storeVlan") => Settled
         /\ At("modes") => Updated
         /\ At("resetPvid") \/ At("resetMembers") \/ At("forget") => Deleting
         /\ At("unconfigure") => Deleted
<1> USE LagNoneAssumption DEF At, CreateCall, VlanCall, UpdateCall, DeleteCall, UnconfigureCall
<1>1. Settled => call = None \/ call.at \in {"vlan", "members", "countLag", "storeVlan"}
  BY DEF Settled
<1>2. Settled /\ call.at \in {"vlan", "members", "countLag"} => call = None \/ call \in CreateCall
  BY DEF Settled
<1>3. Creating \/ Updating => call # None /\ call.at = "store"
  BY DEF Creating, Updating
<1>4. Updated => call # None /\ call.at = "modes"
  BY DEF Updated
<1>5. Deleting => call # None /\ call.at \in {"resetPvid", "resetMembers", "forget"}
  BY DEF Deleting
<1>6. Deleted => call # None /\ call.at = "unconfigure"
  BY DEF Deleted
<1> QED BY ONLY <1>1, <1>2, <1>3, <1>4, <1>5, <1>6, CallInv DEF CallInv, At

LEMMA FollowStays ==
  ASSUME UNCHANGED <<plugins, lagDB>>
  PROVE  /\ PluginsFollow => PluginsFollow'
         /\ \A l, i : PluginsAhead(l, i) => PluginsAhead(l, i)'
<1>1. ASSUME NEW db \in Db, PluginsHave(db)
      PROVE  PluginsHave(db)'
  BY <1>1, PluginsStay DEF plugins
<1> QED BY <1>1 DEF PluginsFollow, PluginsAhead, Changed

\* Steps that change nothing of this.
LEMMA CallInvStays ==
  ASSUME CallInv, UNCHANGED <<lagDB, plugins, portMode, call>>
  PROVE  CallInv'
<1>1. /\ PluginsFollow => PluginsFollow'
      /\ \A l, i : PluginsAhead(l, i) => PluginsAhead(l, i)'
  BY FollowStays
<1>2. Settled => Settled'
  BY <1>1 DEF Settled, InSome, In
<1>3. Creating => Creating'
  BY <1>1 DEF Creating, InSome, In
<1>4. Updating => Updating'
  BY <1>1 DEF Updating, InSome, In
<1>5. Updated => Updated'
  BY <1>1 DEF Updated, In
<1>6. Deleting => Deleting'
  BY <1>1 DEF Deleting, InSome, In
<1>7. Deleted => Deleted'
  BY <1>1 DEF Deleted, InSome, In
<1> QED BY <1>2, <1>3, <1>4, <1>5, <1>6, <1>7 DEF CallInv

\* Where the lock is free no handler is in the loop over the LAGs.
LEMMA LinkStays ==
  ASSUME LinkInv, UNCHANGED <<link, lagLock>>,
         lagLock = None \/ In(lagDB) \subseteq In(lagDB')
  PROVE  LinkInv'
<1>1. ASSUME NEW p \in Port, InLags(p)
      PROVE  lagLock' = p /\ link'[p].todo \subseteq In(lagDB')
  BY <1>1, LagNoneAssumption DEF LinkInv
<1>2. \A p \in Port : InLags(p)' <=> InLags(p)
  BY DEF InLags, HandlerAt
<1>3. \A p \in Port : InLags(p)' => (lagLock = p /\ link[p].todo \subseteq In(lagDB))'
  BY <1>1, <1>2
<1> QED BY <1>3 DEF LinkInv

-----------------------------------------------------------------------------
(***************************************************************************)
(* The steps of the LAG manager.                                           *)
(***************************************************************************)
LEMMA EntryChanged ==
  ASSUME lagDB \in Db, NEW l \in LagId, NEW i \in Info \cup {None}
  PROVE  \E db \in Db : Changed(db, l, i) /\ db = [lagDB EXCEPT ![l] = i]
<1>1. [lagDB EXCEPT ![l] = i] \in Db /\ Changed([lagDB EXCEPT ![l] = i], l, i)
  BY DEF Db, Changed
<1> QED BY <1>1

LEMMA CreateLagStep ==
  ASSUME IInv, NEW n \in Name, NEW S \in Offered({}), CreateLag(n, S), UNCHANGED link
  PROVE  IInv'
<1> USE DEF IInv
<1>1. /\ call = None /\ LagId \ hwLags # {}
      /\ UNCHANGED <<lagDB, lagLock>>
      /\ SaiCreateLag(NewLagId, S)
      /\ \/ /\ n \in bonds
            /\ UNCHANGED <<bonds, master, portMode, call>>
         \/ /\ n \notin bonds
            /\ bonds' = bonds \cup {n}
            /\ master' = AddPortToBondIf(master, n, S)
            /\ portMode' = SetMode(portMode, "L2", S)
            /\ call' = [at |-> "store", lag |-> NewLagId, next |-> "vlan",
                        info |-> [name |-> n, members |-> S, active |-> ActiveCount(S)]]
  BY DEF CreateLag, tables
<1>2. PICK l \in LagId \ hwLags : l = NewLagId
  BY <1>1 DEF NewLagId
<1>3. S \in SUBSET Port /\ \A p \in S : ~InSome(lagDB, p)
  BY DEF Offered, InLag, Lags, InSome, In
<1>4. PluginsHave(lagDB) /\ \A p \in Port : portMode[p] = "L2" <=> InSome(lagDB, p)
  BY <1>1, Phases DEF Settled, PluginsFollow
<1>5. LinkInv'
  BY <1>1, LinkStays
<1>6. lagDB' \in Db /\ Disjoint(lagDB)'
  BY <1>1 DEF Disjoint, In
<1>7. CASE n \in bonds /\ UNCHANGED <<bonds, master, portMode, call>>
  <2>1. PluginsHave(lagDB)'
    <3>1. l \in hwLags' /\ l \notin In(lagDB) /\ In(lagDB) \subseteq hwLags'
      BY <1>1, <1>2, <1>4 DEF SaiCreateLag, PluginsHave
    <3> QED BY <1>1, <1>4, <1>7, <3>1 DEF PluginsHave, In
  <2>2. PluginsFollow'
    BY <1>6, <2>1 DEF PluginsFollow
  <2>3. Settled'
    BY <1>1, <1>4, <1>7, <2>2 DEF Settled, InSome, In
  <2> QED BY <1>5, <1>6, <2>3 DEF CallInv
<1>8. CASE /\ n \notin bonds
           /\ bonds' = bonds \cup {n}
           /\ master' = AddPortToBondIf(master, n, S)
           /\ portMode' = SetMode(portMode, "L2", S)
           /\ call' = [at |-> "store", lag |-> NewLagId, next |-> "vlan",
                       info |-> [name |-> n, members |-> S, active |-> ActiveCount(S)]]
  <2>1. ActiveCount(S) \in Int
    <3>1. {p \in S : operState[p] = "UP"} \subseteq Port
      BY <1>3
    <3> QED BY <3>1, PortAssumption, FS_Subset, FS_CardinalityType DEF ActiveCount
  <2>2. PICK i \in Info : i = [name |-> n, members |-> S, active |-> ActiveCount(S)]
    BY <1>3, <2>1 DEF Info
  <2>3. i.name = n /\ i.members = S
    BY <2>2
  <2>4. /\ call' \in CreateCall /\ call'.at = "store" /\ call'.lag = l /\ call'.info = i
    BY <1>2, <1>8, <2>2 DEF CreateCall
  <2>5. PICK db \in Db : Changed(db, l, i)
    BY EntryChanged
  <2>6. PluginsHave(db)'
    BY <1>1, <1>2, <1>3, <1>4, <1>8, <2>3, <2>5, CreateEffect
  <2>7. PluginsAhead(l, i)'
    BY <1>1, <2>5, <2>6 DEF PluginsAhead, Changed
  <2>8. lagDB'[l] = None
    BY <1>1, <1>2, <1>4 DEF PluginsHave, In
  <2>9. \A p \in Port : portMode'[p] = "L2" <=> InSome(lagDB, p)' \/ p \in S
    BY <1>1, <1>4, <1>8 DEF SetMode, InSome, In
  <2>10. Creating'
    BY <2>3, <2>4, <2>7, <2>8, <2>9 DEF Creating
  <2> QED BY <1>5, <1>6, <2>10 DEF CallInv
<1> QED BY <1>1, <1>7, <1>8

LEMMA StoreLagStep ==
  ASSUME IInv, StoreLag, UNCHANGED link
  PROVE  IInv'
<1> USE DEF IInv
<1>1. /\ At("store") /\ lagLock = None
      /\ lagDB' = [lagDB EXCEPT ![call.lag] = call.info]
      /\ call' = [call EXCEPT !.at = call.next]
      /\ UNCHANGED <<plugins, portMode, lagLock>>
  BY DEF StoreLag, Free
<1>2. LinkInv'
  BY <1>1, LinkStays
<1>3. PICK l \in LagId, i \in Info, db \in Db :
        /\ call.lag = l /\ call.info = i
        /\ Changed(db, l, i) /\ PluginsHave(db)
  BY <1>1, Phases DEF Creating, Updating, PluginsAhead, CreateCall, UpdateCall
<1>4. lagDB' = db
  BY <1>1, <1>3 DEF Changed, Db
<1>5. lagDB' \in Db /\ Disjoint(lagDB)'
  <2>1. Disjoint(db)
    BY <1>3, PluginsDisjoint
  <2> QED BY <1>4, <2>1 DEF Disjoint, In
<1>6. PluginsFollow'
  <2>1. PluginsHave(db)'
    BY <1>1, <1>3, PluginsStay
  <2> QED BY <1>4, <2>1 DEF PluginsFollow
<1>7. l \in In(db) /\ db[l] = i /\ \A k \in LagId \ {l} : db[k] = lagDB[k]
  BY <1>3, LagNoneAssumption DEF Changed, In
<1>8. In(db) \ {l} = In(lagDB) \ {l}
  BY <1>7 DEF In
<1>9. CASE Creating
  <2>1. call' \in CreateCall /\ call'.at = "vlan"
    BY <1>1, <1>9 DEF Creating, CreateCall
  <2>2. \A p \in Port : InSome(db, p) <=> InSome(lagDB, p) \/ p \in i.members
    <3>1. l \notin In(lagDB)
      BY <1>3, <1>9 DEF Creating, In
    <3> QED BY <1>7, <1>8, <3>1 DEF InSome, In
  <2>3. \A p \in Port : portMode'[p] = "L2" <=> InSome(db, p)
    BY <1>1, <1>3, <1>9, <2>2 DEF Creating
  <2>4. Settled'
    BY <1>4, <1>6, <2>1, <2>3 DEF Settled, InSome, In
  <2> QED BY <1>2, <1>5, <2>4 DEF CallInv
<1>10. CASE Updating
  <2>1. /\ call' \in UpdateCall /\ call'.at = "modes"
        /\ call'.lag = l /\ call'.info = i /\ call'.old = call.old
    BY <1>1, <1>3, <1>10 DEF Updating, UpdateCall
  <2>2. PICK old \in SUBSET Port : call.old = old /\ old = lagDB[l].members
    BY <1>3, <1>10 DEF Updating, UpdateCall
  <2>3. l \in In(lagDB)
    BY <1>3, <1>10 DEF Updating, In
  <2>4. \A p \in Port : InSome(lagDB, p) <=>
          p \in old \/ \E k \in In(db) \ {l} : p \in db[k].members
    BY <1>7, <1>8, <2>2, <2>3 DEF InSome, In
  <2>5. \A k \in In(db) \ {l}, p \in old : p \notin db[k].members
    BY <1>7, <1>8, <2>2, <2>3 DEF Disjoint, In
  <2>6. \A p \in Port : portMode'[p] = "L2" <=>
          p \in old \/ \E k \in In(db) \ {l} : p \in db[k].members
    BY <1>1, <1>10, <2>4 DEF Updating
  <2>7. db[l] # None /\ i.members = db[l].members
    BY <1>7 DEF In
  <2>8. Updated'
    BY <1>4, <1>6, <2>1, <2>2, <2>5, <2>6, <2>7 DEF Updated, In
  <2> QED BY <1>2, <1>5, <2>8 DEF CallInv
<1> QED BY <1>1, <1>9, <1>10, Phases

\* The steps for the VLAN of a LAG.
LEMMA VlanStep ==
  ASSUME IInv, SetPvidLocks \/ SetPvidReads \/ CountLag \/ StoreLagVlan, UNCHANGED link
  PROVE  IInv'
<1> USE DEF IInv
<1>1. UNCHANGED <<lagDB, plugins, portMode, lagLock>>
  BY DEF SetPvidLocks, SetPvidReads, CountLag, StoreLagVlan, tables
<1>2. LinkInv'
  BY <1>1, LinkStays
<1>3. lagDB' \in Db /\ Disjoint(lagDB)'
  BY <1>1 DEF Disjoint, In
<1>4. /\ PluginsFollow => PluginsFollow'
      /\ \A l, i : PluginsAhead(l, i) => PluginsAhead(l, i)'
  BY <1>1, FollowStays
<1>5. \/ /\ Settled
         /\ call' = None \/ (call' \in CreateCall /\ call'.at # "store") \/ call' \in VlanCall
      \/ Deleting /\ call' \in DeleteCall /\ call'.lag = call.lag
  <2>1. CASE At("vlan") \/ At("members")
    <3>1. Settled /\ call \in CreateCall
      BY <2>1, Phases
    <3>2. call' = [call EXCEPT !.at = "members"] \/ call' = [call EXCEPT !.at = "countLag"]
      BY <2>1 DEF SetPvidLocks, SetPvidReads, CountLag, StoreLagVlan, At
    <3>3. call' \in CreateCall /\ call'.at # "store"
      BY <3>1, <3>2 DEF CreateCall
    <3> QED BY <3>1, <3>3
  <2>2. CASE At("countLag")
    <3>1. Settled /\ call \in CreateCall
      BY <2>2, Phases
    <3>2. call' = [at |-> "storeVlan", lag |-> call.lag,
                   active |-> IF lagDB[call.lag].active > 0 THEN 1 ELSE 0]
      BY <2>2 DEF SetPvidLocks, SetPvidReads, CountLag, StoreLagVlan, At
    <3>3. call' \in VlanCall
      BY <3>1, <3>2 DEF CreateCall, VlanCall
    <3> QED BY <3>1, <3>3
  <2>3. CASE At("storeVlan")
    <3>1. Settled
      BY <2>3, Phases
    <3>2. call' = None
      BY <2>3 DEF SetPvidLocks, SetPvidReads, CountLag, StoreLagVlan, At
    <3> QED BY <3>1, <3>2
  <2>4. CASE At("resetPvid") \/ At("resetMembers")
    <3>1. Deleting
      BY <2>4, Phases
    <3>2. call' = [call EXCEPT !.at = "resetMembers"] \/ call' = [call EXCEPT !.at = "forget"]
      BY <2>4 DEF SetPvidLocks, SetPvidReads, CountLag, StoreLagVlan, At
    <3>3. call' \in DeleteCall /\ call'.lag = call.lag
      BY <3>1, <3>2 DEF Deleting, DeleteCall
    <3> QED BY <3>1, <3>3
  <2> QED BY <2>1, <2>2, <2>3, <2>4 DEF SetPvidLocks, SetPvidReads, CountLag, StoreLagVlan
<1>6. Settled' \/ Deleting'
  BY <1>1, <1>4, <1>5 DEF Settled, Deleting, InSome, In
<1> QED BY <1>2, <1>3, <1>6 DEF CallInv

LEMMA UpdateLagStep ==
  ASSUME IInv, NEW l \in LagId, NEW S \in Offered({l}), UpdateLag(l, S), UNCHANGED link
  PROVE  IInv'
<1> USE DEF IInv
<1>1. /\ call = None /\ l \in In(lagDB)
      /\ hwLagOf' = SaiUpdateLag(l, lagDB[l].members, S)
      /\ master' = BondUpdate(lagDB[l].name, lagDB[l].members, S)
      /\ call' = [at |-> "store", lag |-> l, next |-> "modes", old |-> lagDB[l].members,
                  info |-> [lagDB[l] EXCEPT !.members = S, !.active = ActiveCount(S)]]
      /\ UNCHANGED <<lagDB, hwLags, bonds, portMode, lagLock>>
  BY DEF UpdateLag, Lags, In, tables
<1>2. S \in SUBSET Port /\ \A p \in S, k \in In(lagDB) : p \in lagDB[k].members => k = l
  BY DEF Offered, InLag, Lags, In
<1>3. PluginsHave(lagDB) /\ \A p \in Port : portMode[p] = "L2" <=> InSome(lagDB, p)
  BY <1>1, Phases DEF Settled, PluginsFollow
<1>4. LinkInv'
  BY <1>1, LinkStays
<1>5. lagDB' \in Db /\ Disjoint(lagDB)'
  BY <1>1 DEF Disjoint, In
<1>6. ActiveCount(S) \in Int
  <2>1. {p \in S : operState[p] = "UP"} \subseteq Port
    BY <1>2
  <2> QED BY <2>1, PortAssumption, FS_Subset, FS_CardinalityType DEF ActiveCount
<1>7. PICK e \in Info : e = lagDB[l]
  BY <1>1 DEF In, Db
<1>8. PICK i \in Info : /\ i = [lagDB[l] EXCEPT !.members = S, !.active = ActiveCount(S)]
                        /\ i.name = e.name /\ i.members = S
  <2>1. [e EXCEPT !.members = S, !.active = ActiveCount(S)] \in Info
    BY <1>2, <1>6 DEF Info
  <2>2. /\ [e EXCEPT !.members = S, !.active = ActiveCount(S)].name = e.name
        /\ [e EXCEPT !.members = S, !.active = ActiveCount(S)].members = S
    BY DEF Info
  <2> QED BY <1>7, <2>1, <2>2
<1>9. PICK old \in SUBSET Port : old = lagDB[l].members
  BY <1>7 DEF Info
<1>10. /\ call' \in UpdateCall /\ call'.at = "store" /\ call'.lag = l /\ call'.info = i
       /\ call'.old = old
  BY <1>1, <1>8, <1>9 DEF UpdateCall
<1>11. PICK db \in Db : Changed(db, l, i)
  BY EntryChanged
<1>12. PluginsHave(db)'
  BY <1>1, <1>2, <1>3, <1>7, <1>8, <1>11, UpdateEffect
<1>13. PluginsAhead(l, i)'
  BY <1>1, <1>11, <1>12 DEF PluginsAhead, Changed
<1>14. Updating'
  BY <1>1, <1>3, <1>9, <1>10, <1>13 DEF Updating, InSome, In
<1> QED BY <1>4, <1>5, <1>14 DEF CallInv

LEMMA SetModesStep ==
  ASSUME IInv, SetModes, UNCHANGED link
  PROVE  IInv'
<1> USE DEF IInv
<1>1. /\ Updated
      /\ portMode' = ModesAfter(call.old, call.info.members)
      /\ call' = None
      /\ UNCHANGED <<lagDB, plugins, lagLock>>
  BY Phases DEF SetModes, tables
<1>2. LinkInv'
  BY <1>1, LinkStays
<1>3. lagDB' \in Db /\ Disjoint(lagDB)' /\ PluginsFollow'
  BY <1>1, FollowStays DEF Updated, Disjoint, In
<1>4. PICK l \in In(lagDB), old \in SUBSET Port, new \in SUBSET Port :
        /\ call.lag = l /\ call.old = old
        /\ call.info.members = new /\ lagDB[l].members = new
  BY <1>1 DEF Updated, UpdateCall, Info, In
<1>5. /\ \A p \in Port : portMode[p] = "L2" <=>
           p \in old \/ \E k \in In(lagDB) \ {l} : p \in lagDB[k].members
      /\ \A k \in In(lagDB) \ {l}, p \in old : p \notin lagDB[k].members
  BY <1>1, <1>4 DEF Updated
<1>6. \A p \in Port : portMode'[p] = IF p \in new THEN "L2"
                                     ELSE IF p \in old THEN "Unconfigured" ELSE portMode[p]
  BY <1>1, <1>4 DEF ModesAfter, SetMode
<1>7. \A p \in Port : portMode'[p] = "L2" <=>
        p \in new \/ \E k \in In(lagDB) \ {l} : p \in lagDB[k].members
  BY <1>5, <1>6
<1>8. \A p \in Port : InSome(lagDB, p) <=>
        p \in new \/ \E k \in In(lagDB) \ {l} : p \in lagDB[k].members
  BY <1>4 DEF InSome
<1>9. Settled'
  BY <1>1, <1>3, <1>7, <1>8 DEF Settled, InSome, In
<1> QED BY <1>2, <1>3, <1>9 DEF CallInv

LEMMA DeleteLagStep ==
  ASSUME IInv, NEW l \in LagId, DeleteLag(l), UNCHANGED link
  PROVE  IInv'
<1> USE DEF IInv
<1>1. /\ call = None /\ l \in In(lagDB)
      /\ SaiDeleteLag(l) /\ bonds' = bonds \ {lagDB[l].name}
      /\ master' = Released(master, {p \in Port : master[p] = lagDB[l].name})
      /\ call' = [at |-> "resetPvid", lag |-> l]
      /\ UNCHANGED <<lagDB, portMode, lagLock>>
  BY DEF DeleteLag, Lags, In
<1>2. PluginsHave(lagDB) /\ \A p \in Port : portMode[p] = "L2" <=> InSome(lagDB, p)
  BY <1>1, Phases DEF Settled, PluginsFollow
<1>3. LinkInv'
  BY <1>1, LinkStays
<1>4. lagDB' \in Db /\ Disjoint(lagDB)'
  BY <1>1 DEF Disjoint, In
<1>5. PICK db \in Db : Changed(db, l, None)
  BY EntryChanged
<1>6. PluginsHave(db)'
  BY <1>1, <1>2, <1>5, DeleteEffect
<1>7. PluginsAhead(l, None)'
  BY <1>1, <1>5, <1>6 DEF PluginsAhead, Changed
<1>8. call' \in DeleteCall /\ call'.lag = l
  BY <1>1 DEF DeleteCall
<1>9. Deleting'
  BY <1>1, <1>2, <1>7, <1>8 DEF Deleting, InSome, In
<1> QED BY <1>3, <1>4, <1>9 DEF CallInv

LEMMA ForgetLagStep ==
  ASSUME IInv, ForgetLag, UNCHANGED link
  PROVE  IInv'
<1> USE DEF IInv
<1>1. /\ Deleting /\ lagLock = None
      /\ lagDB' = [lagDB EXCEPT ![call.lag] = None]
      /\ call' = [at |-> "unconfigure", old |-> lagDB[call.lag].members]
      /\ UNCHANGED <<plugins, portMode, lagLock>>
  BY Phases DEF ForgetLag, Free
<1>2. LinkInv'
  BY <1>1, LinkStays
<1>3. PICK l \in In(lagDB), db \in Db :
        call.lag = l /\ Changed(db, l, None) /\ PluginsHave(db)
  BY <1>1 DEF Deleting, DeleteCall, PluginsAhead, In
<1>4. lagDB' = db
  BY <1>1, <1>3 DEF Changed, Db, In
<1>5. Disjoint(lagDB)'
  <2>1. Disjoint(db)
    BY <1>3, PluginsDisjoint
  <2> QED BY <1>4, <2>1 DEF Disjoint, In
<1>6. PluginsFollow'
  <2>1. PluginsHave(db)'
    BY <1>1, <1>3, PluginsStay
  <2> QED BY <1>4, <2>1 DEF PluginsFollow
<1>7. PICK old \in SUBSET Port : old = lagDB[l].members
  BY DEF In, Db, Info
<1>8. call' \in UnconfigureCall /\ call'.old = old
  BY <1>1, <1>3, <1>7 DEF UnconfigureCall
<1>9. In(db) = In(lagDB) \ {l} /\ \A k \in In(db) : db[k] = lagDB[k]
  BY <1>3 DEF Changed, In
<1>10. \A p \in Port : InSome(lagDB, p) <=> InSome(db, p) \/ p \in old
  BY <1>7, <1>9 DEF InSome
<1>11. \A p \in old : ~InSome(db, p)
  BY <1>7, <1>9 DEF InSome, Disjoint
<1>12. Deleted'
  BY <1>1, <1>4, <1>6, <1>8, <1>10, <1>11 DEF Deleting, Deleted, InSome, In
<1> QED BY <1>2, <1>4, <1>5, <1>12 DEF CallInv

LEMMA UnconfigureStep ==
  ASSUME IInv, Unconfigure, UNCHANGED link
  PROVE  IInv'
<1> USE DEF IInv
<1>1. /\ Deleted
      /\ portMode' = SetMode(portMode, "Unconfigured", call.old)
      /\ call' = None
      /\ UNCHANGED <<lagDB, plugins, lagLock>>
  BY Phases DEF Unconfigure, tables
<1>2. LinkInv'
  BY <1>1, LinkStays
<1>3. lagDB' \in Db /\ Disjoint(lagDB)' /\ PluginsFollow'
  BY <1>1, FollowStays DEF Deleted, Disjoint, In
<1>4. \A p \in Port : portMode'[p] = "L2" <=> InSome(lagDB, p)
  BY <1>1 DEF Deleted, SetMode
<1>5. Settled'
  BY <1>1, <1>3, <1>4 DEF Settled, InSome, In
<1> QED BY <1>2, <1>3, <1>5 DEF CallInv

-----------------------------------------------------------------------------
(***************************************************************************)
(* The steps of a link handler and of the address client.                  *)
(***************************************************************************)
\* A step of a handler that leaves the tables and the modes alone.
LEMMA HandlerStep ==
  ASSUME IInv, UNCHANGED <<lagDB, plugins, portMode, call>>, LinkInv'
  PROVE  IInv'
<1>1. lagDB' \in Db /\ Disjoint(lagDB)'
  BY DEF IInv, Disjoint, In
<1> QED BY <1>1, CallInvStays DEF IInv

LEMMA LinkEventStep ==
  ASSUME IInv, NEW p \in Port, LinkEvent(p)
  PROVE  IInv'
<1>1. /\ link[p] = None
      /\ link' = [link EXCEPT ![p] = [at |-> "port", state |-> UpDown(hwLink[p] = "DOWN")]]
      /\ UNCHANGED <<lagDB, plugins, portMode, call, lagLock>>
  BY DEF LinkEvent, lagVars, tables, plugins
<1>2. LinkInv'
  BY <1>1 DEF IInv, LinkInv, LinkCall, InLags, HandlerAt, UpDown, In
<1> QED BY <1>1, <1>2, HandlerStep

LEMMA StorePortStateStep ==
  ASSUME IInv, NEW p \in Port, StorePortState(p)
  PROVE  IInv'
<1>1. /\ link[p] # None /\ link[p].at = "port"
      /\ link' = [link EXCEPT ![p].at = "lag"]
      /\ UNCHANGED <<lagDB, plugins, portMode, call, lagLock>>
  BY DEF StorePortState, HandlerAt, tables
<1>2. LinkInv'
  BY <1>1 DEF IInv, LinkInv, LinkCall, InLags, HandlerAt, In
<1> QED BY <1>1, <1>2, HandlerStep

LEMMA LockLagsStep ==
  ASSUME IInv, NEW p \in Port, LockLags(p)
  PROVE  IInv'
<1>1. /\ link[p] # None /\ link[p].at = "lag"
      /\ lagLock = None /\ lagLock' = p
      /\ link' = [link EXCEPT ![p] =
                    [at |-> "lags", state |-> @.state, todo |-> InLag(p), lag |-> None]]
      /\ UNCHANGED <<lagDB, plugins, portMode, call>>
  BY DEF LockLags, HandlerAt, Free, tables
<1>2. InLag(p) \subseteq In(lagDB) /\ In(lagDB) \subseteq LagId
  BY DEF InLag, Lags, In
<1>3. link[p].state \in {"UP", "DOWN"}
  BY <1>1 DEF IInv, LinkInv, LinkCall
<1>4. link' \in [Port -> LinkCall \cup {None}]
  BY <1>1, <1>2, <1>3 DEF IInv, LinkInv, LinkCall
<1>5. \A q \in Port \ {p} : link'[q] = link[q] /\ ~InLags(q)
  BY <1>1, LagNoneAssumption DEF IInv, LinkInv
<1>6. link'[p].todo = InLag(p)
  BY <1>1 DEF IInv, LinkInv
<1>7. LinkInv'
  BY <1>1, <1>2, <1>4, <1>5, <1>6 DEF LinkInv, InLags, HandlerAt, In
<1> QED BY <1>1, <1>7, HandlerStep

LEMMA LagDoneStep ==
  ASSUME IInv, NEW p \in Port, LagDone(p)
  PROVE  IInv'
<1>1. /\ InLags(p) /\ lagLock' = None
      /\ link' = [link EXCEPT ![p] = None]
      /\ UNCHANGED <<lagDB, plugins, portMode, call>>
  BY DEF LagDone, InLags, tables
<1>2. \A q \in Port \ {p} : link'[q] = link[q] /\ ~InLags(q)
  BY <1>1 DEF IInv, LinkInv
<1>3. link' \in [Port -> LinkCall \cup {None}] /\ link'[p] = None
  BY <1>1 DEF IInv, LinkInv
<1>4. LinkInv'
  BY <1>2, <1>3 DEF LinkInv, InLags, HandlerAt
<1> QED BY <1>1, <1>4, HandlerStep

\* Telling the VLAN and the addresses of a LAG.
LEMMA TellStep ==
  ASSUME IInv, NEW p \in Port, NEW l \in LagId, FindVlan(p, l) \/ TellVlan(p, l) \/ TellL3(p, l)
  PROVE  IInv'
<1>1. /\ InLags(p)
      /\ \/ \E step \in {"count", "l3"} : link' = [link EXCEPT ![p].at = step]
         \/ link' = link
         \/ link' = [link EXCEPT ![p].at = "lags", ![p].lag = None]
      /\ UNCHANGED <<lagDB, plugins, portMode, call, lagLock>>
  BY DEF FindVlan, TellVlan, TellL3, InLags, lagVars, tables, plugins
<1>2. link[p] \in [at : {"lags", "vlan", "count", "l3"}, state : {"UP", "DOWN"}, todo : SUBSET LagId,
                   lag : LagId \cup {None}]
  BY <1>1 DEF IInv, LinkInv, LinkCall, InLags, HandlerAt
<1>3. /\ link' \in [Port -> LinkCall \cup {None}]
      /\ link'[p].todo = link[p].todo
      /\ \A q \in Port \ {p} : link'[q] = link[q]
  BY <1>1, <1>2 DEF IInv, LinkInv, LinkCall
<1>4. LinkInv'
  BY <1>1, <1>3 DEF IInv, LinkInv, InLags, HandlerAt, In
<1> QED BY <1>1, <1>4, HandlerStep

\* The loop over the LAGs changes a count.
LEMMA ProcessLagStep ==
  ASSUME IInv, NEW p \in Port, NEW l \in LagId, ProcessLag(p, l)
  PROVE  IInv'
<1> DEFINE count == CountAfter(lagDB[l].active, link[p].state)
<1>1. /\ InLags(p) /\ l \in link[p].todo
      /\ lagDB' = [lagDB EXCEPT ![l].active = count]
      /\ link' = [link EXCEPT ![p].todo = @ \ {l},
                              ![p].at = IF Tells(count, link[p].state) THEN "vlan" ELSE @,
                              ![p].lag = IF Tells(count, link[p].state) THEN l ELSE None]
      /\ UNCHANGED <<plugins, portMode, call, lagLock>>
  BY DEF ProcessLag, InLags
<1>2. l \in In(lagDB) /\ lagLock = p
  BY <1>1 DEF IInv, LinkInv
<1>3. PICK e \in Info : e = lagDB[l]
  BY <1>2 DEF IInv, In, Db
<1>4. count \in Int
  BY <1>3 DEF CountAfter, Info
<1> HIDE DEF count
<1>5. PICK i \in Info : lagDB' = [lagDB EXCEPT ![l] = i] /\ i.name = e.name
                        /\ i.members = e.members
  <2>1. /\ [e EXCEPT !.active = count] \in Info
        /\ [e EXCEPT !.active = count].name = e.name
        /\ [e EXCEPT !.active = count].members = e.members
    BY <1>4 DEF Info
  <2>2. lagDB' = [lagDB EXCEPT ![l] = [e EXCEPT !.active = count]]
    BY <1>1, <1>3
  <2> QED BY <2>1, <2>2
<1>6. PICK dc \in Db : dc = lagDB' /\ dc[l] = i /\ \A k \in LagId \ {l} : dc[k] = lagDB[k]
  BY <1>5 DEF IInv, Db
<1>7. Like(lagDB, dc)
  BY <1>2, <1>3, <1>5, <1>6, LagNoneAssumption DEF Like, In
<1>8. /\ In(dc) = In(lagDB)
      /\ \A k \in In(lagDB) : dc[k].members = lagDB[k].members
      /\ \A q \in Port : InSome(dc, q) <=> InSome(lagDB, q)
      /\ Disjoint(dc)
  BY <1>7, LikeKeeps DEF IInv
<1>9. lagDB' \in Db /\ Disjoint(lagDB)'
  BY <1>6, <1>8 DEF Disjoint, In
<1>10. PluginsFollow => PluginsFollow'
  <2> SUFFICES ASSUME PluginsHave(lagDB)
               PROVE  PluginsFollow'
    BY DEF PluginsFollow
  <2>1. PluginsHave(dc)
    BY <1>7, LikeKeeps
  <2>2. PluginsHave(dc)'
    BY <1>1, <2>1, PluginsStay
  <2> QED BY <1>6, <2>2 DEF PluginsFollow
<1>11. ASSUME NEW k \in LagId, NEW j, PluginsAhead(k, j)
       PROVE  PluginsAhead(k, j)'
  <2>1. PICK db \in Db : Changed(db, k, j) /\ PluginsHave(db)
    BY <1>11 DEF PluginsAhead
  <2>2. PICK dd \in Db : /\ dd[k] = j
                         /\ \A m \in LagId \ {k} : dd[m] = dc[m]
    <3>1. [dc EXCEPT ![k] = db[k]] \in Db
      BY DEF Db
    <3> QED BY <2>1, <3>1 DEF Changed, Db
  <2>3. Like(db, dd)
    BY <1>7, <2>1, <2>2 DEF Like, Changed
  <2>4. PluginsHave(dd)
    BY <2>1, <2>3, LikeKeeps
  <2>5. PluginsHave(dd)'
    BY <1>1, <2>4, PluginsStay
  <2> QED BY <1>6, <2>2, <2>5 DEF PluginsAhead, Changed
<1>12. /\ \A q \in Port : InSome(lagDB, q)' <=> InSome(lagDB, q)
       /\ In(lagDB)' = In(lagDB)
       /\ \A k \in In(lagDB) : lagDB'[k].members = lagDB[k].members
       /\ \A k \in LagId : lagDB'[k] = None <=> lagDB[k] = None
  BY <1>6, <1>7, <1>8 DEF InSome, In, Like
<1>13. CallInv'
  <2>1. CASE Settled
    BY <1>1, <1>10, <1>12, <2>1 DEF Settled, CallInv
  <2>2. CASE Creating
    <3>1. call.lag \in LagId /\ PluginsAhead(call.lag, call.info)
      BY <2>2 DEF Creating, CreateCall
    <3>2. PluginsAhead(call.lag, call.info)'
      BY <1>1, <1>11, <3>1
    <3>3. Creating'
      BY <1>1, <1>12, <2>2, <3>1, <3>2 DEF Creating
    <3> QED BY <3>3 DEF CallInv
  <2>3. CASE Updating
    <3>1. call.lag \in In(lagDB)
      BY <2>3 DEF Updating, UpdateCall, In
    <3>2. PluginsAhead(call.lag, call.info)'
      BY <1>1, <1>11, <2>3, <3>1 DEF Updating, In
    <3>3. lagDB'[call.lag] # None /\ lagDB'[call.lag].members = lagDB[call.lag].members
      BY <1>12, <2>3, <3>1 DEF Updating, UpdateCall
    <3>4. Updating'
      BY <1>1, <1>12, <2>3, <3>2, <3>3 DEF Updating
    <3> QED BY <3>4 DEF CallInv
  <2>4. CASE Updated
    <3>1. call.lag \in In(lagDB)
      BY <2>4 DEF Updated, UpdateCall, In
    <3>2. lagDB'[call.lag] # None /\ lagDB'[call.lag].members = lagDB[call.lag].members
      BY <1>12, <3>1 DEF In
    <3>3. Updated'
      BY <1>1, <1>10, <1>12, <2>4, <3>2 DEF Updated
    <3> QED BY <3>3 DEF CallInv
  <2>5. CASE Deleting
    <3>1. call.lag \in LagId /\ lagDB[call.lag] # None /\ PluginsAhead(call.lag, None)
      BY <2>5 DEF Deleting, DeleteCall
    <3>2. PluginsAhead(call.lag, None)'
      BY <1>1, <1>11, <3>1
    <3>3. Deleting'
      BY <1>1, <1>12, <2>5, <3>1, <3>2 DEF Deleting
    <3> QED BY <3>3 DEF CallInv
  <2>6. CASE Deleted
    BY <1>1, <1>10, <1>12, <2>6 DEF Deleted, CallInv, UnconfigureCall
  <2> QED BY <2>1, <2>2, <2>3, <2>4, <2>5, <2>6 DEF IInv, CallInv
<1>14. LinkInv'
  <2>1. link[p] \in [at : {"lags", "vlan", "count", "l3"}, state : {"UP", "DOWN"},
                     todo : SUBSET LagId, lag : LagId \cup {None}]
    BY <1>1 DEF IInv, LinkInv, LinkCall, InLags, HandlerAt
  <2>2. /\ link' \in [Port -> LinkCall \cup {None}]
        /\ link'[p].todo = link[p].todo \ {l}
        /\ \A q \in Port \ {p} : link'[q] = link[q]
    BY <1>1, <2>1 DEF IInv, LinkInv, LinkCall
  <2> QED BY <1>1, <1>12, <2>2 DEF IInv, LinkInv, InLags, HandlerAt
<1> QED BY <1>9, <1>13, <1>14 DEF IInv

-----------------------------------------------------------------------------
(***************************************************************************)
(* The theorem.                                                            *)
(***************************************************************************)
LEMMA InitIInv ==
  ASSUME Init
  PROVE  IInv
<1>1. /\ lagDB = [l \in LagId |-> None] /\ portMode = [p \in Port |-> "Unconfigured"]
      /\ hwLags = {} /\ hwLagOf = [p \in Port |-> None]
      /\ bonds = {} /\ master = [p \in Port |-> None]
      /\ call = None /\ link = [p \in Port |-> None]
  BY DEF Init, LagInit
<1>2. lagDB \in Db /\ In(lagDB) = {}
  BY <1>1 DEF Db, In
<1>3. PluginsHave(lagDB)
  BY <1>1, <1>2, LagNoneAssumption DEF PluginsHave
<1>4. Settled
  BY <1>1, <1>2, <1>3 DEF Settled, PluginsFollow, InSome
<1>5. Disjoint(lagDB) /\ LinkInv
  BY <1>1, <1>2 DEF Disjoint, LinkInv, InLags, HandlerAt
<1> QED BY <1>2, <1>4, <1>5 DEF IInv, CallInv

LEMMA AddressStep ==
  ASSUME IInv, IpCalls \/ StoreIpState \/ UNCHANGED vars
  PROVE  IInv'
<1>1. UNCHANGED <<lagDB, plugins, portMode, call, link, lagLock>>
  BY DEF IpCalls, CreateIPIntf, UpdateIPIntf, DeleteIPIntf, StoreIpState, vars, lagVars,
         linkVars, tables, plugins
<1>2. LinkInv'
  BY <1>1, LinkStays DEF IInv
<1> QED BY <1>1, <1>2, HandlerStep

LEMMA NextIInv ==
  ASSUME IInv, [Next]_vars
  PROVE  IInv'
<1>1. CASE Environment
  <2>1. CASE Calls /\ UNCHANGED <<linkVars, ipVars>>
    BY <2>1, CreateLagStep, UpdateLagStep, DeleteLagStep DEF Calls, linkVars
  <2>2. CASE \E p \in Port : LinkEvent(p)
    BY <2>2, LinkEventStep
  <2>3. CASE IpCalls
    BY <2>3, AddressStep
  <2> QED BY <1>1, <2>1, <2>2, <2>3 DEF Environment
<1>2. CASE CallStep
  BY <1>2, StoreLagStep, VlanStep, SetModesStep, ForgetLagStep, UnconfigureStep
     DEF CallStep, Returns, linkVars
<1>3. ASSUME NEW p \in Port, LinkStep(p)
      PROVE  IInv'
  BY <1>3, StorePortStateStep, LockLagsStep, LagDoneStep, ProcessLagStep, TellStep
     DEF LinkStep, Handle
<1>4. CASE IpStep \/ UNCHANGED vars
  BY <1>4, AddressStep DEF IpStep
<1> QED BY <1>1, <1>2, <1>3, <1>4 DEF Next

\* CreateLag, UpdateLag and DeleteLag change the ASIC, the bonds, the table and
\* the port modes one after the other, while link handlers write counts into the
\* same entries: between calls the four agree.
THEOREM MembersAlwaysAgree == Spec => []MembersAgree
<1>1. Init => IInv
  BY InitIInv
<1>2. IInv /\ [Next]_vars => IInv'
  BY NextIInv
<1>3. IInv => MembersAgree
  <2> SUFFICES ASSUME IInv, call = None
               PROVE  /\ bonds = {lagDB[l].name : l \in Lags}
                      /\ \A l \in Lags : Masters(lagDB[l].name) = lagDB[l].members
                      /\ hwLags = Lags => \A p \in Port : InLag(p) = {hwLagOf[p]} \ {None}
                      /\ \A p \in Port : portMode[p] = "L2" <=> InLag(p) # {}
    BY DEF MembersAgree
  <2>1. PluginsHave(lagDB) /\ \A p \in Port : portMode[p] = "L2" <=> InSome(lagDB, p)
    BY Phases DEF IInv, Settled, PluginsFollow
  <2>2. Lags = In(lagDB)
    BY DEF Lags, In
  <2>3. bonds = {lagDB[l].name : l \in Lags}
    BY <2>1, <2>2 DEF PluginsHave
  <2>4. \A l \in Lags : Masters(lagDB[l].name) = lagDB[l].members
    <3> SUFFICES ASSUME NEW l \in Lags
                 PROVE  Masters(lagDB[l].name) = lagDB[l].members
      OBVIOUS
    <3>1. lagDB[l].members \subseteq Port
      BY DEF IInv, Db, Info, Lags
    <3> QED BY <2>1, <2>2, <3>1 DEF PluginsHave, Masters
  <2>5. ASSUME hwLags = Lags, NEW p \in Port
        PROVE  InLag(p) = {hwLagOf[p]} \ {None}
    <3>1. \A l \in LagId : hwLagOf[p] = l <=> (l \in Lags /\ p \in lagDB[l].members)
      BY <2>1, <2>2, <2>5 DEF PluginsHave
    <3>2. hwLagOf[p] \in LagId \cup {None} /\ None \notin LagId /\ Lags \subseteq LagId
      BY <2>1, <2>2, <2>5, LagNoneAssumption DEF PluginsHave, Lags
    <3> QED BY <3>1, <3>2 DEF InLag
  <2>6. \A p \in Port : portMode[p] = "L2" <=> InLag(p) # {}
    BY <2>1, <2>2 DEF InSome, InLag
  <2> QED BY <2>3, <2>4, <2>5, <2>6
<1> QED BY <1>1, <1>2, <1>3, PTL DEF Spec

-----------------------------------------------------------------------------
(***************************************************************************)
(* One thing at a time: how far a call or a link event has come in telling *)
(* the entry of a LAG, its VLAN and its address how many members are up.   *)
(***************************************************************************)
AddrEntry == [admin : {"UP", "DOWN"}, oper : {"UP", "DOWN"}]

\* The members of a LAG whose link is up, as the port manager has it.
UpCount(l) == ActiveCount(lagDB[l].members)

VlanTold(l, up) == l \notin silent => vlanActive[l] = IF up THEN 1 ELSE 0

IpTold(l, up) ==
  l \notin silent /\ ipDB[l] # None =>
    /\ ipDB[l].oper = "UP" => up
    /\ up /\ ipDB[l].admin = "UP" => ipDB[l].oper = "UP"

\* The entry of a LAG counts n members, and VLAN and address know, unless an
\* update kept it from them.
Counts(l, n) == lagDB[l].active = n /\ VlanTold(l, n > 0) /\ IpTold(l, n > 0)

Counted(l) == Counts(l, UpCount(l))

\* The handler of p has not come to the LAG l yet.
Behind(p, l) == Counts(l, UpCount(l) - IF link[p].state = "UP" THEN 1 ELSE -1)

\* It has counted, and is about to tell the VLAN or the address.
Telling(p, l) ==
  LET up == link[p].state = "UP"
  IN /\ lagDB[l].active = UpCount(l)
     /\ UpCount(l) > 0 <=> up
     /\ VlanTold(l, IF HandlerAt(p, "l3") THEN up ELSE ~up)
     /\ IpTold(l, ~up)

\* A call that creates or deletes a LAG is at it.
Entering == At("vlan") \/ At("members") \/ At("countLag") \/ At("storeVlan")
Leaving == At("resetPvid") \/ At("resetMembers") \/ At("forget")

\* No link event: a call, an address update or nothing.
Calling ==
  /\ NoHandler
  /\ \A p \in Port : operState[p] = hwLink[p]
  /\ ipCall # None => /\ call = None /\ ipCall.lag \in In(lagDB)
                      /\ ipCall.admin \in {"UP", "DOWN"}
  /\ \A l \in In(lagDB) :
       \/ Counted(l) /\ ~((Entering \/ Leaving) /\ call.lag = l)
       \/ (Entering \/ Leaving) /\ call.lag = l /\ vlanActive[l] = None /\ ipDB[l] = None
  /\ Entering => call.lag \in In(lagDB) /\ lagDB[call.lag].active = UpCount(call.lag)
  /\ At("storeVlan") => call.active = IF UpCount(call.lag) > 0 THEN 1 ELSE 0
  /\ At("store") =>
       /\ call.info.active = ActiveCount(call.info.members)
       /\ call.lag \in In(lagDB) \ silent => (call.info.active > 0 <=> UpCount(call.lag) > 0)

Reached(p) ==
  \/ /\ HandlerAt(p, "port") /\ operState[p] # hwLink[p]
     /\ \A l \in In(lagDB) : Counted(l)
  \/ /\ HandlerAt(p, "lag") /\ operState[p] = hwLink[p]
     /\ \A l \in In(lagDB) : IF p \in lagDB[l].members THEN Behind(p, l) ELSE Counted(l)
  \/ /\ HandlerAt(p, "lags") /\ operState[p] = hwLink[p]
     /\ \A l \in In(lagDB) : IF l \in link[p].todo THEN Behind(p, l) ELSE Counted(l)
  \/ /\ HandlerAt(p, "vlan") \/ HandlerAt(p, "count") \/ HandlerAt(p, "l3")
     /\ operState[p] = hwLink[p]
     /\ link[p].lag \in In(lagDB) \ link[p].todo /\ Telling(p, link[p].lag)
     /\ \A l \in In(lagDB) \ {link[p].lag} :
          IF l \in link[p].todo THEN Behind(p, l) ELSE Counted(l)

\* A link event and nothing else.
Handling(p) ==
  /\ call = None /\ ipCall = None
  /\ link[p] # None /\ link[p].state = hwLink[p]
  /\ \A q \in Port \ {p} : link[q] = None /\ operState[q] = hwLink[q]
  /\ Reached(p)

StateType ==
  /\ operState \in [Port -> {"UP", "DOWN"}]
  /\ hwLink \in [Port -> {"UP", "DOWN"}]
  /\ vlanActive = [l \in LagId |-> vlanActive[l]]
  /\ ipDB \in [LagId -> AddrEntry \cup {None}]
  /\ \A l \in LagId \ In(lagDB) : vlanActive[l] = None /\ ipDB[l] = None

SerialInv == StateType /\ (Calling \/ \E p \in Port : Handling(p))

\* What the counts depend on.
LEMMA CountIsNat ==
  ASSUME NEW S \in SUBSET Port
  PROVE  ActiveCount(S) \in Nat
<1>1. IsFiniteSet({p \in S : operState[p] = "UP"})
  BY FS_Subset, PortAssumption
<1> QED BY <1>1, FS_CardinalityType DEF ActiveCount

LEMMA CountFollowsPort ==
  ASSUME StateType, NEW p \in Port, NEW s \in {"UP", "DOWN"}, operState[p] # s,
         operState' = [operState EXCEPT ![p] = s], NEW S \in SUBSET Port
  PROVE  ActiveCount(S)' =
           IF p \in S THEN ActiveCount(S) + IF s = "UP" THEN 1 ELSE -1 ELSE ActiveCount(S)
<1> DEFINE before == {q \in S : operState[q] = "UP"}
           after == {q \in S : operState'[q] = "UP"}
<1>1. ActiveCount(S) = Cardinality(before) /\ ActiveCount(S)' = Cardinality(after)
  BY DEF ActiveCount
<1>2. IsFiniteSet(before) /\ Cardinality(before) \in Nat
  BY FS_Subset, FS_CardinalityType, PortAssumption
<1>3. operState'[p] = s /\ \A q \in S \ {p} : operState'[q] = operState[q]
  BY DEF StateType
<1>4. CASE p \notin S
  <2>1. after = before
    BY <1>3, <1>4
  <2> QED BY <1>1, <1>4, <2>1
<1>5. CASE p \in S /\ s = "UP"
  <2>1. after = before \cup {p} /\ p \notin before
    BY <1>3, <1>5
  <2>2. Cardinality(after) = Cardinality(before) + 1
    BY <1>2, <2>1, FS_AddElement
  <2> QED BY <1>1, <1>5, <2>2
<1>6. CASE p \in S /\ s = "DOWN"
  <2>1. operState[p] = "UP"
    BY <1>6 DEF StateType
  <2>2. after = before \ {p} /\ p \in before
    BY <1>3, <1>6, <2>1
  <2>3. Cardinality(after) = Cardinality(before) - 1
    BY <1>2, <2>2, FS_RemoveElement
  <2> QED BY <1>1, <1>2, <1>6, <2>3
<1> QED BY <1>4, <1>5, <1>6

\* An entry that stays, with its VLAN and its address.
LEMMA LagUntouched ==
  ASSUME NEW l \in In(lagDB), UNCHANGED operState, l \in silent' <=> l \in silent,
         lagDB'[l] = lagDB[l], vlanActive'[l] = vlanActive[l], ipDB'[l] = ipDB[l]
  PROVE  /\ UpCount(l)' = UpCount(l)
         /\ \A n : Counts(l, n)' <=> Counts(l, n)
         /\ Counted(l)' <=> Counted(l)
BY DEF UpCount, ActiveCount, Counts, Counted, VlanTold, IpTold

-----------------------------------------------------------------------------
(***************************************************************************)
(* The steps of calls.                                                     *)
(***************************************************************************)
LEMMA EntryType ==
  ASSUME lagDB \in Db, NEW l \in In(lagDB)
  PROVE  l \in LagId /\ lagDB[l] \in Info /\ lagDB[l] # None
BY DEF In, Db

LEMMA Modes ==
  ASSUME NEW c, call = c
  PROVE  /\ At("store") => ~Entering /\ ~Leaving
         /\ At("modes") \/ At("unconfigure") \/ c = None => ~Entering /\ ~Leaving /\ ~At("store")
         /\ Entering => ~Leaving /\ ~At("store")
         /\ Leaving => ~Entering /\ ~At("store")
         /\ Entering <=> c # None /\ c.at \in {"vlan", "members", "countLag", "storeVlan"}
         /\ Leaving <=> c # None /\ c.at \in {"resetPvid", "resetMembers", "forget"}
BY DEF At, Entering, Leaving

LEMMA StoreLagCounts ==
  ASSUME IInv, StateType, Calling, StoreLag, UNCHANGED <<linkVars, ipVars, silent>>
  PROVE  StateType' /\ Calling'
<1>a. /\ call.lag \in LagId /\ call.info \in Info
      /\ \/ call \in CreateCall /\ lagDB[call.lag] = None
         \/ call \in UpdateCall /\ lagDB[call.lag] # None
  BY Phases DEF IInv, StoreLag, Creating, Updating, CreateCall, UpdateCall
<1> PICK l \in LagId, i \in Info : l = call.lag /\ i = call.info
  BY <1>a
<1>1. /\ At("store") /\ call # None /\ call.at = "store"
      /\ lagDB' = [lagDB EXCEPT ![l] = i]
      /\ call' = [call EXCEPT !.at = call.next]
      /\ UNCHANGED <<vlanActive, operState, hwLink, link, ipDB, ipCall, silent>>
  BY DEF StoreLag, At, linkVars, ipVars
<1>2. /\ lagDB \in Db
      /\ \/ call \in CreateCall /\ lagDB[l] = None
         \/ call \in UpdateCall /\ lagDB[l] # None
  BY <1>a DEF IInv
<1>3. /\ lagDB'[l] = i /\ i # None
      /\ \A k \in LagId \ {l} : lagDB'[k] = lagDB[k]
  BY <1>1, <1>2, LagNoneAssumption DEF Db
<1>4. \A k : k \in In(lagDB') <=> k \in In(lagDB) \/ k = l
  BY <1>2, <1>3 DEF In
<1>5. StateType'
  BY <1>1, <1>4 DEF StateType
<1>6. ipCall = None
  BY <1>1 DEF Calling
<1>7. i.active = ActiveCount(i.members)
      /\ (l \in In(lagDB) \ silent => (i.active > 0 <=> UpCount(l) > 0))
  BY <1>1 DEF Calling
<1>8. ActiveCount(i.members)' = ActiveCount(i.members)
  BY <1>1 DEF ActiveCount
<1>9. lagDB'[l].active = UpCount(l)' /\ UpCount(l)' = i.active
  BY <1>1, <1>3, <1>7 DEF UpCount, ActiveCount
<1>10. \A k \in In(lagDB) \ {l} : Counted(k)'
  <2> SUFFICES ASSUME NEW k \in In(lagDB) \ {l}
               PROVE  Counted(k)'
    OBVIOUS
  <2>1. Counted(k)
    BY <1>1, Modes DEF Calling
  <2>2. lagDB'[k] = lagDB[k]
    BY <1>3 DEF In
  <2> QED BY <1>1, <2>1, <2>2, LagUntouched
<1>11. CASE call \in CreateCall /\ lagDB[l] = None
  <2>1. call' # None /\ call'.at = "vlan" /\ call'.lag = l
    BY <1>1, <1>11, LagNoneAssumption DEF CreateCall
  <2>2. vlanActive'[l] = None /\ ipDB'[l] = None
    BY <1>1, <1>2, <1>11 DEF StateType, In
  <2>3. Entering' /\ ~Leaving' /\ ~At("store")' /\ ~At("storeVlan")'
    BY <2>1 DEF Entering, Leaving, At
  <2>4. \A k \in In(lagDB') :
          \/ Counted(k)' /\ k # l
          \/ k = l /\ vlanActive'[l] = None /\ ipDB'[l] = None
    BY <1>4, <1>10, <2>2
  <2> QED BY <1>1, <1>4, <1>5, <1>6, <1>9, <2>1, <2>3, <2>4 DEF Calling, NoHandler
<1>12. CASE call \in UpdateCall /\ lagDB[l] # None
  <2>1. call'.at = "modes"
    BY <1>1, <1>12 DEF UpdateCall
  <2>2. ~Entering' /\ ~Leaving' /\ ~At("store")' /\ ~At("storeVlan")'
    BY <2>1 DEF Entering, Leaving, At
  <2>3. l \in In(lagDB) /\ Counted(l)
    BY <1>1, <1>2, <1>12, Modes DEF Calling, In
  <2>4. Counted(l)'
    <3>1. VlanTold(l, UpCount(l) > 0) /\ IpTold(l, UpCount(l) > 0)
      BY <2>3 DEF Counted, Counts
    <3>2. l \notin silent => (UpCount(l)' > 0 <=> UpCount(l) > 0)
      BY <1>7, <1>9, <2>3
    <3>3. VlanTold(l, UpCount(l) > 0)' /\ IpTold(l, UpCount(l) > 0)'
      BY <1>1, <3>1, <3>2 DEF VlanTold, IpTold
    <3> QED BY <1>9, <3>3 DEF Counted, Counts
  <2>5. \A k \in In(lagDB') : Counted(k)'
    BY <1>4, <1>10, <2>4
  <2> QED BY <1>1, <1>4, <1>5, <1>6, <2>2, <2>5 DEF Calling, NoHandler
<1> QED BY <1>2, <1>11, <1>12

\* Steps that change no table: the next place in the call.
LEMMA PlaceCounts ==
  ASSUME StateType, Calling,
         UNCHANGED <<tables, operState>>, UNCHANGED <<linkVars, ipVars, silent>>,
         ipCall = None,
         \/ Entering /\ Entering' /\ call'.lag = call.lag
         \/ Leaving /\ Leaving' /\ call'.lag = call.lag
         \/ ~Entering /\ ~Leaving /\ ~Entering' /\ ~Leaving',
         At("storeVlan")' => call'.active = IF lagDB[call.lag].active > 0 THEN 1 ELSE 0,
         ~At("store")'
  PROVE  StateType' /\ Calling'
<1>1. UNCHANGED <<lagDB, vlanActive, operState, hwLink, link, ipDB, ipCall, silent>>
  BY DEF tables, linkVars, ipVars
<1>2. StateType'
  BY <1>1 DEF StateType, In
<1>3. \A l \in In(lagDB) : UpCount(l)' = UpCount(l) /\ (Counted(l)' <=> Counted(l))
  BY <1>1, LagUntouched
<1>4. In(lagDB') = In(lagDB)
  BY <1>1 DEF In
<1>5. Entering' => /\ Entering /\ call.lag \in In(lagDB)
                   /\ lagDB[call.lag].active = UpCount(call.lag)
  <2>1. ~(Entering' /\ Leaving')
    BY DEF Entering, Leaving, At
  <2> QED BY <2>1 DEF Calling
<1>6. Entering' => UpCount(call.lag)' = UpCount(call.lag)
  <2> SUFFICES ASSUME Entering'
               PROVE  UpCount(call.lag)' = UpCount(call.lag)
    OBVIOUS
  <2>1. call'.lag = call.lag
    BY DEF Entering, Leaving, At
  <2>2. lagDB'[call'.lag].members = lagDB[call.lag].members
    BY <1>1, <2>1
  <2> QED BY <1>1, <2>2 DEF UpCount, ActiveCount
<1>7. \A l \in In(lagDB) :
        \/ Counted(l)' /\ ~((Entering' \/ Leaving') /\ call'.lag = l)
        \/ (Entering' \/ Leaving') /\ call'.lag = l /\ vlanActive[l] = None /\ ipDB[l] = None
  BY <1>3, Modes DEF Calling
<1>8. At("storeVlan")' => Entering'
  BY DEF Entering
<1> QED BY <1>1, <1>2, <1>4, <1>5, <1>6, <1>7, <1>8 DEF Calling, NoHandler

LEMMA SetPvidCounts ==
  ASSUME IInv, StateType, Calling, SetPvidLocks \/ SetPvidReads,
         UNCHANGED <<linkVars, ipVars, silent>>
  PROVE  StateType' /\ Calling'
<1>1. /\ call # None /\ call.at \in {"vlan", "members", "resetPvid", "resetMembers"}
      /\ call' = [call EXCEPT !.at = IF call.at = "vlan" THEN "members"
                                     ELSE IF call.at = "resetPvid" THEN "resetMembers"
                                     ELSE IF call.at = "members" THEN "countLag"
                                     ELSE "forget"]
      /\ UNCHANGED <<tables, operState>>
  BY DEF SetPvidLocks, SetPvidReads, At
<1>2. \/ call \in CreateCall /\ call.at \in {"vlan", "members"}
      \/ call \in DeleteCall /\ call.at \in {"resetPvid", "resetMembers"}
  BY <1>1, Phases DEF IInv, At, Deleting
<1>3. call' \in CreateCall \cup DeleteCall /\ call'.lag = call.lag
  BY <1>1, <1>2 DEF CreateCall, DeleteCall
<1>4. call' # None
  BY <1>3, LagNoneAssumption
<1>5. \/ call.at \in {"vlan", "members"} /\ call'.at \in {"members", "countLag"}
      \/ call.at \in {"resetPvid", "resetMembers"} /\ call'.at \in {"resetMembers", "forget"}
  BY <1>1, <1>2 DEF CreateCall, DeleteCall
<1>6. \/ Entering /\ Entering'
      \/ Leaving /\ Leaving'
  BY <1>1, <1>4, <1>5 DEF Entering, Leaving, At
<1>7. ~At("store")' /\ ~At("storeVlan")'
  BY <1>5 DEF At
<1>8. ipCall = None
  BY <1>1 DEF Calling
<1> QED BY <1>1, <1>3, <1>6, <1>7, <1>8, PlaceCounts

LEMMA CountLagCounts ==
  ASSUME IInv, StateType, Calling, CountLag, UNCHANGED <<linkVars, ipVars, silent>>
  PROVE  StateType' /\ Calling'
<1>1. /\ At("countLag") /\ call # None
      /\ call' = [at |-> "storeVlan", lag |-> call.lag,
                  active |-> IF lagDB[call.lag].active > 0 THEN 1 ELSE 0]
      /\ UNCHANGED <<tables, operState>>
  BY DEF CountLag, At
<1>2. call.lag \in LagId
  BY <1>1, Phases DEF IInv, CreateCall
<1>3. /\ call' # None /\ call'.at = "storeVlan" /\ call'.lag = call.lag
      /\ call'.active = IF lagDB[call.lag].active > 0 THEN 1 ELSE 0
  <2>1. call' \in VlanCall
    BY <1>1, <1>2 DEF VlanCall
  <2> QED BY <1>1, <2>1, LagNoneAssumption
<1>4. Entering /\ Entering' /\ ~At("store")' /\ ipCall = None
  BY <1>1, <1>3 DEF Entering, At, Calling
<1> QED BY <1>1, <1>3, <1>4, PlaceCounts

LEMMA LastCounts ==
  ASSUME IInv, StateType, Calling, SetModes \/ Unconfigure, UNCHANGED <<linkVars, ipVars, silent>>
  PROVE  StateType' /\ Calling'
<1>1. /\ At("modes") \/ At("unconfigure")
      /\ call' = None
      /\ UNCHANGED <<tables, operState>>
  BY DEF SetModes, Unconfigure
<1>2. ~Entering /\ ~Leaving
  BY <1>1, Modes
<1>3. ~Entering' /\ ~Leaving' /\ ~At("store")' /\ ~At("storeVlan")'
  BY <1>1 DEF Entering, Leaving, At
<1>4. ipCall = None
  BY <1>1 DEF Calling, At
<1> QED BY <1>1, <1>2, <1>3, <1>4, PlaceCounts

\* The VLAN of a new LAG.
LEMMA StoreLagVlanCounts ==
  ASSUME IInv, StateType, Calling, StoreLagVlan, UNCHANGED <<linkVars, ipVars, silent>>
  PROVE  StateType' /\ Calling'
<1>a. call.lag \in In(lagDB)
  BY DEF StoreLagVlan, Calling, Entering
<1> PICK l \in In(lagDB) : l = call.lag
  BY <1>a
<1>1. /\ At("storeVlan") /\ call # None
      /\ vlanActive' = [vlanActive EXCEPT ![l] = call.active]
      /\ call' = None
      /\ UNCHANGED <<lagDB, operState, hwLink, link, ipDB, ipCall, silent>>
  BY DEF StoreLagVlan, At, linkVars, ipVars
<1>2. /\ l \in LagId
      /\ lagDB[l].active = UpCount(l)
      /\ call.active = IF UpCount(l) > 0 THEN 1 ELSE 0
      /\ ipCall = None /\ Entering
  BY <1>1 DEF Calling, Entering, In
<1>3. ipDB[l] = None
  BY <1>2, Modes DEF Calling
<1>4. vlanActive'[l] = call.active /\ \A k \in LagId \ {l} : vlanActive'[k] = vlanActive[k]
  BY <1>1, <1>2 DEF StateType
<1>5. StateType'
  <2>1. \A k \in LagId \ In(lagDB) : k # l /\ vlanActive'[k] = None /\ ipDB'[k] = None
    BY <1>1, <1>2, <1>4 DEF StateType
  <2>2. vlanActive' = [k \in LagId |-> vlanActive'[k]]
    BY <1>1 DEF StateType
  <2> QED BY <1>1, <2>1, <2>2 DEF StateType, In
<1>6. UpCount(l)' = UpCount(l)
  BY <1>1 DEF UpCount, ActiveCount
<1>7. Counted(l)'
  <2>1. VlanTold(l, UpCount(l) > 0)' /\ IpTold(l, UpCount(l) > 0)'
    BY <1>1, <1>2, <1>3, <1>4, <1>6 DEF VlanTold, IpTold
  <2> QED BY <1>1, <1>2, <1>6, <2>1 DEF Counted, Counts
<1>8. \A k \in In(lagDB) \ {l} : Counted(k)'
  <2> SUFFICES ASSUME NEW k \in In(lagDB) \ {l}
               PROVE  Counted(k)'
    OBVIOUS
  <2>1. Counted(k)
    BY DEF Calling
  <2>2. k \in LagId
    BY DEF In
  <2> QED BY <1>1, <1>4, <2>1, <2>2, LagUntouched
<1>9. ~Entering' /\ ~Leaving' /\ ~At("store")' /\ ~At("storeVlan")'
  BY <1>1 DEF Entering, Leaving, At
<1>10. In(lagDB') = In(lagDB)
  BY <1>1 DEF In
<1> QED BY <1>1, <1>2, <1>5, <1>7, <1>8, <1>9, <1>10 DEF Calling, NoHandler

LEMMA ForgetLagCounts ==
  ASSUME IInv, StateType, Calling, ForgetLag, UNCHANGED <<linkVars, ipVars, silent>>
  PROVE  StateType' /\ Calling'
<1>a. call.lag \in In(lagDB)
  BY Phases DEF IInv, ForgetLag, Deleting, DeleteCall, In
<1> PICK l \in In(lagDB) : l = call.lag
  BY <1>a
<1>1. /\ At("forget") /\ call # None
      /\ lagDB' = [lagDB EXCEPT ![l] = None]
      /\ call' = [at |-> "unconfigure", old |-> lagDB[l].members]
      /\ UNCHANGED <<vlanActive, operState, hwLink, link, ipDB, ipCall, silent>>
  BY DEF ForgetLag, At, linkVars, ipVars
<1>2. lagDB \in Db /\ l \in LagId /\ Leaving /\ ipCall = None
  BY <1>1 DEF IInv, In, Leaving, Calling
<1>3. vlanActive[l] = None /\ ipDB[l] = None
  BY <1>2, Modes DEF Calling
<1>4. lagDB'[l] = None /\ \A k \in LagId \ {l} : lagDB'[k] = lagDB[k]
  BY <1>1, <1>2 DEF Db
<1>5. \A k : k \in In(lagDB') <=> k \in In(lagDB) /\ k # l
  BY <1>4 DEF In
<1>6. StateType'
  <2>1. \A k \in LagId \ In(lagDB') : vlanActive'[k] = None /\ ipDB'[k] = None
    BY <1>1, <1>3, <1>5 DEF StateType
  <2> QED BY <1>1, <2>1 DEF StateType
<1>7. \A k \in In(lagDB') : Counted(k)'
  <2> SUFFICES ASSUME NEW k \in In(lagDB) \ {l}
               PROVE  Counted(k)'
    BY <1>5
  <2>1. Counted(k)
    BY DEF Calling
  <2>2. k \in LagId
    BY DEF In
  <2> QED BY <1>1, <1>4, <2>1, <2>2, LagUntouched
<1>8. ~Entering' /\ ~Leaving' /\ ~At("store")' /\ ~At("storeVlan")'
  BY <1>1 DEF Entering, Leaving, At
<1> QED BY <1>1, <1>2, <1>6, <1>7, <1>8 DEF Calling, NoHandler

\* The first steps of calls.
LEMMA CreateLagCounts ==
  ASSUME IInv, StateType, Calling, NEW n \in Name, NEW S \in Offered({}), CreateLag(n, S),
         ipCall = None, UNCHANGED <<linkVars, ipVars, silent>>
  PROVE  StateType' /\ Calling'
<1>1. /\ call = None /\ LagId \ hwLags # {}
      /\ \/ call' = None
         \/ call' = [at |-> "store", lag |-> NewLagId, next |-> "vlan",
                     info |-> [name |-> n, members |-> S, active |-> ActiveCount(S)]]
      /\ UNCHANGED <<lagDB, vlanActive, operState, hwLink, link, ipDB, ipCall, silent>>
  BY DEF CreateLag, tables, linkVars, ipVars
<1>2. StateType'
  BY <1>1 DEF StateType, In
<1>3. \A l \in In(lagDB) : Counted(l)'
  <2> SUFFICES ASSUME NEW l \in In(lagDB)
               PROVE  Counted(l)'
    OBVIOUS
  <2>1. Counted(l)
    BY <1>1, Modes DEF Calling
  <2> QED BY <1>1, <2>1, LagUntouched
<1>4. ~Entering' /\ ~Leaving' /\ ~At("storeVlan")'
  BY <1>1 DEF Entering, Leaving, At
<1>5. NewLagId \notin In(lagDB)
  <2>1. In(lagDB) \subseteq hwLags
    BY <1>1, Phases DEF IInv, Settled, PluginsFollow, PluginsHave
  <2> QED BY <1>1, <2>1 DEF NewLagId
<1>6. At("store")' => /\ call'.info.active = ActiveCount(call.info.members)'
                      /\ call'.lag \notin In(lagDB)
  <2>1. ActiveCount(S)' = ActiveCount(S)
    BY <1>1 DEF ActiveCount
  <2>2. At("store")' =>
          call' = [at |-> "store", lag |-> NewLagId, next |-> "vlan",
                   info |-> [name |-> n, members |-> S, active |-> ActiveCount(S)]]
    BY <1>1 DEF At
  <2>3. At("store")' => call'.info.members = S /\ call'.info.active = ActiveCount(S)
                        /\ call'.lag = NewLagId
    BY <2>2
  <2>4. At("store")' => ActiveCount(call.info.members)' = ActiveCount(S)'
    BY <2>3 DEF ActiveCount
  <2> QED BY <1>5, <2>1, <2>3, <2>4
<1>7. In(lagDB') = In(lagDB)
  BY <1>1 DEF In
<1> QED BY <1>1, <1>2, <1>3, <1>4, <1>6, <1>7 DEF Calling, NoHandler

LEMMA UpdateLagCounts ==
  ASSUME IInv, StateType, Calling, NEW l \in LagId, NEW S \in SUBSET Port, UpdateLag(l, S),
         silent' = IF Turns(l, S) THEN silent \cup {l} ELSE silent,
         ipCall = None, UNCHANGED <<linkVars, ipVars>>
  PROVE  StateType' /\ Calling'
<1>1. /\ call = None /\ l \in In(lagDB)
      /\ call' = [at |-> "store", lag |-> l, next |-> "modes", old |-> lagDB[l].members,
                  info |-> [lagDB[l] EXCEPT !.members = S, !.active = ActiveCount(S)]]
      /\ UNCHANGED <<lagDB, vlanActive, operState, hwLink, link, ipDB, ipCall>>
  BY DEF UpdateLag, tables, linkVars, ipVars, Lags, In
<1>2. StateType'
  BY <1>1 DEF StateType, In
<1>3. \A k \in In(lagDB) : Counted(k)
  BY <1>1, Modes DEF Calling
<1>4. \A k \in In(lagDB) : Counted(k)' /\ UpCount(k)' = UpCount(k)
  <2>1. \A k : k \in silent => k \in silent'
    OBVIOUS
  <2>2. \A k \in In(lagDB) : UpCount(k)' = UpCount(k)
    BY <1>1 DEF UpCount, ActiveCount
  <2> QED BY <1>1, <1>3, <2>1, <2>2 DEF Counted, Counts, VlanTold, IpTold
<1>5. ~Entering' /\ ~Leaving' /\ ~At("storeVlan")'
  BY <1>1 DEF Entering, Leaving, At
<1>6. PICK e \in Info : e = lagDB[l]
  BY <1>1 DEF IInv, Db, In
<1>7. call'.info.members = S /\ call'.info.active = ActiveCount(S) /\ call'.lag = l
  BY <1>1, <1>6 DEF Info
<1>8. ActiveCount(call.info.members)' = ActiveCount(S)
  BY <1>1, <1>7 DEF ActiveCount
<1>9. UpCount(l)' = UpCount(l) /\ lagDB[l].active = UpCount(l)
  BY <1>1, <1>3, <1>4 DEF Counted, Counts
<1>10. l \notin silent' => (call'.info.active > 0 <=> UpCount(l)' > 0)
  BY <1>7, <1>9 DEF Turns
<1>11. In(lagDB') = In(lagDB)
  BY <1>1 DEF In
<1> QED BY <1>1, <1>2, <1>4, <1>5, <1>7, <1>8, <1>10, <1>11 DEF Calling, NoHandler

LEMMA DeleteLagCounts ==
  ASSUME IInv, StateType, Calling, NEW l \in LagId, DeleteLag(l), ipDB[l] = None,
         silent' = silent \ {l}, ipCall = None, UNCHANGED <<linkVars, ipVars>>
  PROVE  StateType' /\ Calling'
<1>1. /\ call = None /\ l \in In(lagDB)
      /\ vlanActive' = [vlanActive EXCEPT ![l] = None]
      /\ call' = [at |-> "resetPvid", lag |-> l]
      /\ UNCHANGED <<lagDB, operState, hwLink, link, ipDB, ipCall>>
  BY DEF DeleteLag, linkVars, ipVars, Lags, In
<1>2. call' # None /\ call'.at = "resetPvid" /\ call'.lag = l
  <2>1. call' \in DeleteCall
    BY <1>1 DEF DeleteCall
  <2> QED BY <1>1, <2>1, LagNoneAssumption
<1>3. vlanActive'[l] = None /\ \A k \in LagId \ {l} : vlanActive'[k] = vlanActive[k]
  BY <1>1 DEF StateType
<1>4. In(lagDB') = In(lagDB)
  BY <1>1 DEF In
<1>5. StateType'
  <2>1. vlanActive' = [k \in LagId |-> vlanActive'[k]]
    BY <1>1 DEF StateType
  <2> QED BY <1>1, <1>3, <1>4, <2>1 DEF StateType
<1>6. \A k \in In(lagDB) \ {l} : Counted(k)'
  <2> SUFFICES ASSUME NEW k \in In(lagDB) \ {l}
               PROVE  Counted(k)'
    OBVIOUS
  <2>1. Counted(k) /\ k \in LagId
    BY <1>1, Modes DEF Calling, In
  <2> QED BY <1>1, <1>3, <2>1, LagUntouched
<1>7. ~Entering' /\ Leaving' /\ ~At("store")' /\ ~At("storeVlan")'
  BY <1>2 DEF Entering, Leaving, At
<1>8. \A k \in In(lagDB) :
        \/ Counted(k)' /\ k # l
        \/ k = l /\ vlanActive'[k] = None /\ ipDB'[k] = None
  BY <1>1, <1>3, <1>6
<1> QED BY <1>1, <1>2, <1>4, <1>5, <1>7, <1>8 DEF Calling, NoHandler

-----------------------------------------------------------------------------
(***************************************************************************)
(* The addresses.                                                          *)
(***************************************************************************)
\* An address is there, changes or goes, and its LAG is as it was.
LEMMA AddressCounts ==
  ASSUME StateType, Calling, call = None,
         UNCHANGED <<lagVars, linkVars, silent>>,
         NEW l \in In(lagDB), NEW e \in AddrEntry \cup {None},
         ipDB' = [ipDB EXCEPT ![l] = e],
         e # None => /\ e.oper = "UP" => UpCount(l) > 0
                     /\ UpCount(l) > 0 /\ e.admin = "UP" => e.oper = "UP",
         ipCall' = None
  PROVE  StateType' /\ Calling'
<1>1. UNCHANGED <<lagDB, vlanActive, operState, hwLink, link, call, silent>>
  BY DEF lagVars, linkVars, tables
<1>2. l \in LagId /\ In(lagDB') = In(lagDB)
  BY <1>1 DEF In
<1>3. ipDB'[l] = e /\ \A k \in LagId \ {l} : ipDB'[k] = ipDB[k]
  BY <1>2 DEF StateType
<1>4. StateType'
  BY <1>1, <1>2, <1>3 DEF StateType
<1>5. ~Entering /\ ~Leaving /\ ~Entering' /\ ~Leaving' /\ ~At("store")' /\ ~At("storeVlan")'
  BY <1>1 DEF Entering, Leaving, At
<1>6. \A k \in In(lagDB) : Counted(k)'
  <2> SUFFICES ASSUME NEW k \in In(lagDB)
               PROVE  Counted(k)'
    OBVIOUS
  <2>1. Counted(k) /\ k \in LagId
    BY <1>5 DEF Calling, In
  <2>2. CASE k = l
    <3>1. UpCount(l)' = UpCount(l)
      BY <1>1 DEF UpCount, ActiveCount
    <3>2. lagDB'[l].active = UpCount(l) /\ VlanTold(l, UpCount(l) > 0)
      BY <1>1, <2>1, <2>2 DEF Counted, Counts
    <3>3. VlanTold(l, UpCount(l) > 0)'
      BY <1>1, <3>1, <3>2 DEF VlanTold
    <3>4. IpTold(l, UpCount(l) > 0)'
      BY <1>3, <3>1 DEF IpTold
    <3> QED BY <2>2, <3>1, <3>2, <3>3, <3>4 DEF Counted, Counts
  <2>3. CASE k # l
    BY <1>1, <1>3, <2>1, <2>3, LagUntouched
  <2> QED BY <2>2, <2>3
<1> QED BY <1>1, <1>2, <1>4, <1>5, <1>6 DEF Calling, NoHandler

LEMMA IpCallCounts ==
  ASSUME IInv, StateType, Calling, Serial, UNCHANGED silent, IpCalls \/ StoreIpState
  PROVE  StateType' /\ Calling'
<1>1. ASSUME NEW l \in LagId, NEW admin \in {"UP", "DOWN"}, CreateIPIntf(l, admin)
      PROVE  StateType' /\ Calling'
  <2> DEFINE e == [admin |-> admin, oper |-> LagOper(l)]
  <2>1. /\ Quiet /\ l \in In(lagDB)
        /\ ipDB' = [ipDB EXCEPT ![l] = e]
        /\ UNCHANGED <<lagVars, linkVars, ipCall, silent>>
    BY <1>1 DEF CreateIPIntf, MayUpdateIp, Lags, In
  <2>2. call = None /\ ipCall' = None
    BY <2>1 DEF Quiet
  <2>3. lagDB[l].active = UpCount(l)
    BY <2>1, <2>2, Modes DEF Calling, Counted, Counts
  <2>4. e \in AddrEntry /\ (e.oper = "UP" <=> UpCount(l) > 0)
    BY <2>3 DEF AddrEntry, LagOper, UpDown
  <2> HIDE DEF e
  <2> QED BY <2>1, <2>2, <2>4, AddressCounts
<1>2. ASSUME NEW l \in LagId, DeleteIPIntf(l)
      PROVE  StateType' /\ Calling'
  <2>1. /\ Quiet /\ ipDB[l] # None
        /\ ipDB' = [ipDB EXCEPT ![l] = None]
        /\ UNCHANGED <<lagVars, linkVars, ipCall, silent>>
    BY <1>2 DEF DeleteIPIntf, MayUpdateIp
  <2>2. call = None /\ ipCall' = None /\ l \in In(lagDB)
    BY <2>1 DEF Quiet, StateType
  <2> QED BY <2>1, <2>2, AddressCounts
<1>3. CASE StoreIpState
  <2>a. ipCall.lag \in In(lagDB)
    BY <1>3 DEF StoreIpState, Calling
  <2> PICK l \in In(lagDB) : l = ipCall.lag
    BY <2>a
  <2> DEFINE e == [admin |-> ipCall.admin,
                   oper |-> UpDown(ipCall.admin = "UP" /\ LagOper(l) = "UP")]
  <2>1. /\ ipCall # None /\ ipCall' = None
        /\ ipDB' = [ipDB EXCEPT ![l] = e]
        /\ UNCHANGED <<lagVars, linkVars, silent>>
    BY <1>3 DEF StoreIpState
  <2>2. call = None /\ ipCall.admin \in {"UP", "DOWN"}
    BY <2>1 DEF Calling
  <2>3. lagDB[l].active = UpCount(l)
    BY <2>2, Modes DEF Calling, Counted, Counts
  <2>4. /\ e \in AddrEntry
        /\ e.oper = "UP" => UpCount(l) > 0
        /\ UpCount(l) > 0 /\ e.admin = "UP" => e.oper = "UP"
    BY <2>2, <2>3 DEF AddrEntry, LagOper, UpDown
  <2> HIDE DEF e
  <2> QED BY <2>1, <2>2, <2>4, AddressCounts
<1>4. ASSUME NEW l \in LagId, NEW admin \in {"UP", "DOWN"}, UpdateIPIntf(l, admin)
      PROVE  StateType' /\ Calling'
  <2>1. /\ Quiet /\ ipDB[l] # None
        /\ ipCall' = [lag |-> l, admin |-> admin]
        /\ UNCHANGED <<lagDB, vlanActive, operState, hwLink, link, call, ipDB, silent>>
    BY <1>4 DEF UpdateIPIntf, MayUpdateIp, lagVars, linkVars, tables
  <2>2. call = None /\ l \in In(lagDB) /\ In(lagDB') = In(lagDB)
    BY <2>1 DEF Quiet, StateType, In
  <2>3. StateType'
    BY <2>1, <2>2 DEF StateType
  <2>4. ~Entering /\ ~Leaving /\ ~Entering' /\ ~Leaving' /\ ~At("store")' /\ ~At("storeVlan")'
    BY <2>1, <2>2 DEF Entering, Leaving, At
  <2>5. \A k \in In(lagDB) : Counted(k)'
    BY <2>1, <2>4, LagUntouched DEF Calling
  <2>6. ipCall'.lag = l /\ ipCall'.admin = admin
    BY <2>1
  <2> QED BY <2>1, <2>2, <2>3, <2>4, <2>5, <2>6 DEF Calling, NoHandler
<1> QED BY <1>1, <1>2, <1>3, <1>4, AddressedAssumption DEF IpCalls

-----------------------------------------------------------------------------
(***************************************************************************)
(* The steps of a link event.                                              *)
(***************************************************************************)
LEMMA LinkEventCounts ==
  ASSUME IInv, StateType, Calling, Serial, UNCHANGED silent, NEW p \in Port, LinkEvent(p)
  PROVE  StateType' /\ Handling(p)'
<1> DEFINE s == UpDown(hwLink[p] = "DOWN")
           c == [at |-> "port", state |-> s]
<1>1. /\ Quiet
      /\ hwLink' = [hwLink EXCEPT ![p] = s]
      /\ link' = [link EXCEPT ![p] = c]
      /\ UNCHANGED <<lagDB, vlanActive, operState, call, ipDB, ipCall, silent>>
  BY DEF LinkEvent, lagVars, ipVars, tables
<1>2. s \in {"UP", "DOWN"} /\ s # hwLink[p] /\ c \in LinkCall
  BY DEF UpDown, LinkCall, StateType
<1>3. StateType'
  BY <1>1, <1>2 DEF StateType, In
<1>4. link'[p] = c /\ c # None /\ c.at = "port" /\ c.state = s
  BY <1>1, <1>2, LinkNoneAssumption DEF IInv, LinkInv
<1>5. /\ \A q \in Port \ {p} : link'[q] = None /\ operState'[q] = hwLink'[q]
      /\ hwLink'[p] = s /\ operState'[p] # s
  BY <1>1, <1>2 DEF IInv, LinkInv, Calling, NoHandler, Quiet, StateType
<1>6. \A l \in In(lagDB) : Counted(l)
  BY <1>1, Modes DEF Calling, Quiet
<1>7. \A l \in In(lagDB) : Counted(l)'
  BY <1>1, <1>6, LagUntouched
<1>8. In(lagDB') = In(lagDB) /\ call = None /\ ipCall = None
  BY <1>1 DEF In, Quiet
<1>9. Reached(p)'
  BY <1>4, <1>5, <1>7, <1>8 DEF Reached, HandlerAt
<1> QED BY <1>1, <1>3, <1>4, <1>5, <1>8, <1>9 DEF Handling

\* What every step of the handler of p keeps.
LEMMA HandlingKept ==
  ASSUME StateType, NEW p \in Port, Handling(p),
         UNCHANGED <<hwLink, call, ipCall, silent>>,
         \A q \in Port \ {p} : link'[q] = link[q] /\ operState'[q] = operState[q],
         link'[p] # None, link'[p].state = link[p].state, Reached(p)'
  PROVE  Handling(p)'
BY DEF Handling

LEMMA StorePortStateCounts ==
  ASSUME IInv, StateType, NEW p \in Port, Handling(p), UNCHANGED silent,
         StorePortState(p)
  PROVE  StateType' /\ Handling(p)'
<1>1. /\ HandlerAt(p, "port")
      /\ operState' = [operState EXCEPT ![p] = link[p].state]
      /\ link' = [link EXCEPT ![p].at = "lag"]
      /\ UNCHANGED <<lagDB, vlanActive, call, hwLink, ipDB, ipCall, silent>>
  BY DEF StorePortState, tables, ipVars
<1>2. PICK s \in {"UP", "DOWN"} : s = link[p].state
  BY <1>1 DEF IInv, LinkInv, LinkCall, HandlerAt
<1>3. /\ operState[p] # s /\ s = hwLink[p]
      /\ \A l \in In(lagDB) : Counted(l)
  BY <1>1, <1>2 DEF Handling, Reached, HandlerAt
<1>4. StateType'
  BY <1>1, <1>2 DEF StateType, In
<1>5. /\ link'[p] \in LinkCall /\ link'[p].at = "lag" /\ link'[p].state = s
      /\ \A q \in Port \ {p} : link'[q] = link[q]
  BY <1>1, <1>2 DEF IInv, LinkInv, LinkCall, HandlerAt
<1>6. operState'[p] = s /\ \A q \in Port \ {p} : operState'[q] = operState[q]
  BY <1>1, <1>2 DEF StateType
<1>7. ASSUME NEW l \in In(lagDB)
      PROVE  IF p \in lagDB[l].members THEN Behind(p, l)' ELSE Counted(l)'
  <2>1. PICK S \in SUBSET Port : S = lagDB[l].members
    BY EntryType DEF IInv, Info
  <2>2. UpCount(l) = ActiveCount(S) /\ ActiveCount(S) \in Nat
    BY <2>1, CountIsNat DEF UpCount
  <2>3. UpCount(l)' = ActiveCount(S)'
    BY <1>1, <2>1 DEF UpCount, ActiveCount
  <2>4. UpCount(l)' = IF p \in S THEN UpCount(l) + IF s = "UP" THEN 1 ELSE -1 ELSE UpCount(l)
    BY <1>1, <1>2, <1>3, <2>2, <2>3, CountFollowsPort
  <2>5. Counts(l, UpCount(l))
    BY <1>3 DEF Counted
  <2>6. \A n : Counts(l, n) => Counts(l, n)'
    BY <1>1 DEF Counts, VlanTold, IpTold
  <2>7. CASE p \in S
    <3>1. UpCount(l)' - (IF link'[p].state = "UP" THEN 1 ELSE -1) = UpCount(l)
      BY <1>5, <2>2, <2>4, <2>7
    <3>2. PICK n : n = UpCount(l)
      OBVIOUS
    <3>3. Counts(l, n)'
      BY <2>5, <2>6, <3>2
    <3>4. Behind(p, l)'
      BY <3>1, <3>2, <3>3 DEF Behind, Counts, VlanTold, IpTold
    <3> QED BY <2>1, <2>7, <3>4
  <2>8. CASE p \notin S
    BY <2>1, <2>4, <2>5, <2>6, <2>8 DEF Counted
  <2> QED BY <2>7, <2>8
<1>8. In(lagDB') = In(lagDB) /\ lagDB' = lagDB /\ link'[p] # None
  BY <1>1, <1>5, LinkNoneAssumption DEF In
<1>9. Reached(p)'
  BY <1>1, <1>3, <1>5, <1>6, <1>7, <1>8 DEF Reached, HandlerAt
<1> QED BY <1>1, <1>2, <1>4, <1>5, <1>6, <1>8, <1>9, HandlingKept

LEMMA BehindKept ==
  ASSUME NEW p \in Port, NEW l \in In(lagDB), UNCHANGED <<operState, silent>>, link'[p].state = link[p].state,
         lagDB'[l] = lagDB[l], vlanActive'[l] = vlanActive[l], ipDB'[l] = ipDB[l]
  PROVE  Behind(p, l)' <=> Behind(p, l)
BY DEF Behind, UpCount, ActiveCount, Counts, VlanTold, IpTold

LEMMA LockLagsCounts ==
  ASSUME IInv, StateType, NEW p \in Port, Handling(p), UNCHANGED silent,
         LockLags(p)
  PROVE  StateType' /\ Handling(p)'
<1>1. /\ HandlerAt(p, "lag")
      /\ link' = [link EXCEPT ![p] =
                    [at |-> "lags", state |-> @.state, todo |-> InLag(p), lag |-> None]]
      /\ UNCHANGED <<lagDB, vlanActive, operState, call, hwLink, ipDB, ipCall, silent>>
  BY DEF LockLags, tables, ipVars
<1>2. /\ link'[p].at = "lags" /\ link'[p].state = link[p].state /\ link'[p].todo = InLag(p)
      /\ link'[p] \in LinkCall
      /\ \A q \in Port \ {p} : link'[q] = link[q]
  BY <1>1 DEF IInv, LinkInv, LinkCall, HandlerAt, InLag, Lags
<1>3. /\ operState[p] = hwLink[p]
      /\ \A l \in In(lagDB) : IF p \in lagDB[l].members THEN Behind(p, l) ELSE Counted(l)
  BY <1>1 DEF Handling, Reached, HandlerAt
<1>4. \A l \in In(lagDB) : IF l \in InLag(p) THEN Behind(p, l)' ELSE Counted(l)'
  <2> SUFFICES ASSUME NEW l \in In(lagDB)
               PROVE  IF l \in InLag(p) THEN Behind(p, l)' ELSE Counted(l)'
    OBVIOUS
  <2>1. l \in InLag(p) <=> p \in lagDB[l].members
    BY DEF InLag, Lags, In
  <2> QED BY <1>1, <1>2, <1>3, <2>1, LagUntouched, BehindKept
<1>5. In(lagDB') = In(lagDB) /\ link'[p] # None
  BY <1>1, <1>2, LinkNoneAssumption DEF In
<1>6. Reached(p)'
  BY <1>1, <1>2, <1>3, <1>4, <1>5 DEF Reached, HandlerAt
<1>7. StateType'
  BY <1>1 DEF StateType, In
<1> QED BY <1>1, <1>2, <1>5, <1>6, <1>7, HandlingKept

LEMMA LagDoneCounts ==
  ASSUME IInv, StateType, NEW p \in Port, Handling(p), UNCHANGED silent,
         LagDone(p)
  PROVE  StateType' /\ Calling'
<1>1. /\ HandlerAt(p, "lags") /\ link[p].todo = {}
      /\ link' = [link EXCEPT ![p] = None]
      /\ UNCHANGED <<lagDB, vlanActive, operState, call, hwLink, ipDB, ipCall, silent>>
  BY DEF LagDone, tables, ipVars
<1>2. /\ operState[p] = hwLink[p] /\ call = None /\ ipCall = None
      /\ \A q \in Port \ {p} : link[q] = None /\ operState[q] = hwLink[q]
      /\ \A l \in In(lagDB) : Counted(l)
  BY <1>1 DEF Handling, Reached, HandlerAt
<1>3. \A l \in In(lagDB) : Counted(l)'
  BY <1>1, <1>2, LagUntouched
<1>4. NoHandler'
  BY <1>1, <1>2 DEF NoHandler, IInv, LinkInv
<1>5. StateType' /\ In(lagDB') = In(lagDB)
  BY <1>1 DEF StateType, In
<1>6. ~Entering' /\ ~Leaving' /\ ~At("store")' /\ ~At("storeVlan")'
  BY <1>1, <1>2 DEF Entering, Leaving, At
<1> QED BY <1>1, <1>2, <1>3, <1>4, <1>5, <1>6 DEF Calling

\* What the handler knows in its loop.
LEMMA InLoop ==
  ASSUME IInv, NEW p \in Port, InLags(p)
  PROVE  /\ link[p] \in [at : {"lags", "vlan", "count", "l3"}, state : {"UP", "DOWN"},
                         todo : SUBSET LagId, lag : LagId \cup {None}]
         /\ link[p].todo \subseteq In(lagDB)
BY DEF IInv, LinkInv, LinkCall, InLags, HandlerAt

LEMMA ProcessLagCounts ==
  ASSUME IInv, StateType, NEW p \in Port, Handling(p), UNCHANGED silent,
         NEW l \in LagId, ProcessLag(p, l)
  PROVE  StateType' /\ Handling(p)'
<1> DEFINE count == CountAfter(lagDB[l].active, link[p].state)
<1>1. /\ HandlerAt(p, "lags") /\ InLags(p) /\ l \in link[p].todo
      /\ lagDB' = [lagDB EXCEPT ![l].active = count]
      /\ link' = [link EXCEPT ![p].todo = @ \ {l},
                              ![p].at = IF Tells(count, link[p].state) THEN "vlan" ELSE @,
                              ![p].lag = IF Tells(count, link[p].state) THEN l ELSE None]
      /\ UNCHANGED <<vlanActive, operState, call, hwLink, ipDB, ipCall, silent>>
  BY DEF ProcessLag, InLags, ipVars
<1>2. l \in In(lagDB) /\ link[p].state \in {"UP", "DOWN"}
  BY <1>1, InLoop
<1>3. /\ operState[p] = hwLink[p]
      /\ \A k \in In(lagDB) : IF k \in link[p].todo THEN Behind(p, k) ELSE Counted(k)
  BY <1>1 DEF Handling, Reached, HandlerAt
<1>4. PICK n \in Nat : n = UpCount(l)
  <2>1. lagDB[l].members \subseteq Port
    BY <1>2, EntryType DEF IInv, Info
  <2>2. PICK S \in SUBSET Port : S = lagDB[l].members
    BY <2>1
  <2> QED BY <2>2, CountIsNat DEF UpCount
<1>5. PICK before \in Int :
        /\ before = n - IF link[p].state = "UP" THEN 1 ELSE -1
        /\ lagDB[l].active = before /\ VlanTold(l, before > 0) /\ IpTold(l, before > 0)
  BY <1>1, <1>2, <1>3, <1>4 DEF Behind, Counts
<1>6. count = n
  BY <1>2, <1>4, <1>5 DEF CountAfter
<1>7. /\ lagDB'[l].active = n /\ lagDB'[l].members = lagDB[l].members /\ lagDB'[l] # None
      /\ \A k \in LagId \ {l} : lagDB'[k] = lagDB[k]
  <2>1. PICK e \in Info : e = lagDB[l]
    BY <1>2, EntryType DEF IInv
  <2>2. lagDB'[l] = [e EXCEPT !.active = n]
    BY <1>1, <1>6, <2>1 DEF IInv, Db
  <2>3. [e EXCEPT !.active = n] \in Info
    BY DEF Info
  <2>4. [e EXCEPT !.active = n].active = n /\ [e EXCEPT !.active = n].members = e.members
    BY DEF Info
  <2> QED BY <1>1, <2>1, <2>2, <2>3, <2>4, LagNoneAssumption DEF IInv, Db
<1>8. UpCount(l)' = n
  BY <1>1, <1>4, <1>7 DEF UpCount, ActiveCount
<1>9. In(lagDB') = In(lagDB)
  <2>1. \A k : k \in In(lagDB') <=> k \in In(lagDB)
    BY <1>2, <1>7 DEF In
  <2> QED BY <2>1
<1>10. StateType'
  BY <1>1, <1>9 DEF StateType
<1>11. /\ link'[p] \in LinkCall /\ link'[p].state = link[p].state
       /\ link'[p].todo = link[p].todo \ {l}
       /\ \A q \in Port \ {p} : link'[q] = link[q]
       /\ Tells(n, link[p].state) => link'[p].at = "vlan" /\ link'[p].lag = l
       /\ ~Tells(n, link[p].state) => link'[p].at = "lags"
  BY <1>1, <1>6, InLoop DEF IInv, LinkInv, LinkCall, HandlerAt
<1>12. \A k \in In(lagDB) \ {l} : IF k \in link'[p].todo THEN Behind(p, k)' ELSE Counted(k)'
  <2> SUFFICES ASSUME NEW k \in In(lagDB) \ {l}
               PROVE  IF k \in link'[p].todo THEN Behind(p, k)' ELSE Counted(k)'
    OBVIOUS
  <2>1. lagDB'[k] = lagDB[k]
    BY <1>7 DEF In
  <2> QED BY <1>1, <1>3, <1>11, <2>1, LagUntouched, BehindKept
<1>13. /\ link'[p] # None
       /\ \A b : (VlanTold(l, b)' <=> VlanTold(l, b)) /\ (IpTold(l, b)' <=> IpTold(l, b))
  BY <1>1, <1>11, LinkNoneAssumption DEF VlanTold, IpTold
<1>14. CASE Tells(n, link[p].state)
  <2>1. /\ HandlerAt(p, "vlan")' /\ ~HandlerAt(p, "l3")' /\ link'[p].lag = l
        /\ link'[p].lag \in In(lagDB') \ link'[p].todo
    BY <1>2, <1>9, <1>11, <1>13, <1>14 DEF HandlerAt
  <2>2. /\ n > 0 <=> link[p].state = "UP"
        /\ before > 0 <=> ~(link[p].state = "UP")
    BY <1>2, <1>5, <1>14 DEF Tells
  <2>3. Telling(p, l)'
    <3> DEFINE up == link[p].state = "UP"
    <3>1. VlanTold(l, ~up) /\ IpTold(l, ~up)
      BY <1>5, <2>2 DEF VlanTold, IpTold
    <3>2. VlanTold(l, ~up)' /\ IpTold(l, ~up)'
      BY <1>1, <1>11, <3>1 DEF VlanTold, IpTold
    <3> QED BY <1>7, <1>8, <1>11, <2>1, <2>2, <3>2 DEF Telling, VlanTold, IpTold
  <2>4. Reached(p)'
    BY <1>1, <1>3, <1>9, <1>12, <2>1, <2>3 DEF Reached
  <2> QED BY <1>1, <1>10, <1>11, <1>13, <2>4, HandlingKept
<1>15. CASE ~Tells(n, link[p].state)
  <2>1. HandlerAt(p, "lags")'
    BY <1>11, <1>13, <1>15 DEF HandlerAt
  <2>2. before > 0 <=> n > 0
    BY <1>2, <1>5, <1>15 DEF Tells
  <2>3. Counted(l)'
    <3>1. VlanTold(l, n > 0) /\ IpTold(l, n > 0)
      BY <1>5, <2>2 DEF VlanTold, IpTold
    <3> QED BY <1>1, <1>7, <1>8, <3>1 DEF Counted, Counts, VlanTold, IpTold
  <2>4. Reached(p)'
    BY <1>1, <1>3, <1>9, <1>11, <1>12, <2>1, <2>3 DEF Reached
  <2> QED BY <1>1, <1>10, <1>11, <1>13, <2>4, HandlingKept
<1> QED BY <1>14, <1>15

\* Nothing of this changes.
LEMMA HandlingStays ==
  ASSUME IInv, StateType, NEW p \in Port, Handling(p),
         UNCHANGED <<lagDB, vlanActive, operState, hwLink, link, call, ipDB, ipCall, silent>>
  PROVE  StateType' /\ Handling(p)'
<1>1. StateType' /\ In(lagDB') = In(lagDB)
  BY DEF StateType, In
<1>2. /\ \A l \in In(lagDB) : (Counted(l)' <=> Counted(l)) /\ (Behind(p, l)' <=> Behind(p, l))
      /\ Telling(p, link[p].lag)' <=> Telling(p, link[p].lag)
  BY LagUntouched, BehindKept DEF Telling, UpCount, ActiveCount, VlanTold, IpTold, HandlerAt
<1>3. Reached(p)'
  BY <1>1, <1>2 DEF Handling, Reached, HandlerAt
<1> QED BY <1>1, <1>3, HandlingKept DEF Handling

LEMMA FindVlanCounts ==
  ASSUME IInv, StateType, NEW p \in Port, Handling(p), UNCHANGED silent,
         NEW l \in LagId, FindVlan(p, l)
  PROVE  StateType' /\ Handling(p)'
<1> DEFINE up == link[p].state = "UP"
<1>1. /\ HandlerAt(p, "vlan") /\ InLags(p) /\ link[p].lag = l
      /\ link' = [link EXCEPT ![p].at = IF vlanActive[l] = None THEN "l3" ELSE "count"]
      /\ UNCHANGED <<lagDB, vlanActive, operState, call, hwLink, ipDB, ipCall, silent>>
  BY DEF FindVlan, InLags, lagVars, ipVars, tables
<1>2. /\ operState[p] = hwLink[p]
      /\ l \in In(lagDB) \ link[p].todo
      /\ Telling(p, l)
      /\ \A k \in In(lagDB) \ {l} : IF k \in link[p].todo THEN Behind(p, k) ELSE Counted(k)
  BY <1>1 DEF Handling, Reached, HandlerAt
<1>3. /\ lagDB[l].active = UpCount(l) /\ (UpCount(l) > 0 <=> up)
      /\ VlanTold(l, ~up) /\ IpTold(l, ~up)
  BY <1>1, <1>2 DEF Telling, HandlerAt
<1>4. /\ link'[p] \in LinkCall /\ link'[p].state = link[p].state
      /\ link'[p].at = IF vlanActive[l] = None THEN "l3" ELSE "count"
      /\ link'[p].todo = link[p].todo /\ link'[p].lag = l
      /\ \A q \in Port \ {p} : link'[q] = link[q]
  BY <1>1, InLoop DEF IInv, LinkInv, LinkCall
<1>5. /\ In(lagDB') = In(lagDB) /\ link'[p] # None /\ UpCount(l)' = UpCount(l)
      /\ VlanTold(l, ~up)' /\ IpTold(l, ~up)'
  BY <1>1, <1>3, <1>4, LinkNoneAssumption DEF In, UpCount, ActiveCount, VlanTold, IpTold
<1>6. HandlerAt(p, "count")' \/ HandlerAt(p, "l3")'
  BY <1>4, <1>5 DEF HandlerAt
<1>7. HandlerAt(p, "l3")' => VlanTold(l, up)'
  <2>1. HandlerAt(p, "l3")' => vlanActive[l] = None
    BY <1>4 DEF HandlerAt
  <2>2. 0 # None /\ 1 # None
    BY LinkNoneAssumption
  <2> QED BY <1>1, <1>3, <2>1, <2>2 DEF VlanTold
<1>8. Telling(p, l)'
  BY <1>1, <1>3, <1>4, <1>5, <1>7 DEF Telling, VlanTold, IpTold
<1>9. \A k \in In(lagDB) \ {l} : IF k \in link'[p].todo THEN Behind(p, k)' ELSE Counted(k)'
  BY <1>1, <1>2, <1>4, LagUntouched, BehindKept
<1>10. Reached(p)'
  BY <1>1, <1>2, <1>4, <1>5, <1>6, <1>8, <1>9 DEF Reached
<1>11. StateType'
  BY <1>1, <1>5 DEF StateType
<1> QED BY <1>1, <1>4, <1>5, <1>10, <1>11, HandlingKept

LEMMA TellVlanCounts ==
  ASSUME IInv, StateType, NEW p \in Port, Handling(p), UNCHANGED silent,
         NEW l \in LagId, TellVlan(p, l)
  PROVE  StateType' /\ Handling(p)'
<1> DEFINE up == link[p].state = "UP"
<1>0. CASE vlanActive[l] = None
  BY <1>0, HandlingStays DEF TellVlan, plugins, ipVars
<1> SUFFICES ASSUME vlanActive[l] # None
             PROVE  StateType' /\ Handling(p)'
  BY <1>0
<1>1. /\ HandlerAt(p, "count") /\ InLags(p) /\ link[p].lag = l
      /\ vlanActive' = [vlanActive EXCEPT ![l] =
                          IF link[p].state = "DOWN" THEN @ - 1 ELSE @ + 1]
      /\ link' = [link EXCEPT ![p].at = "l3"]
      /\ UNCHANGED <<lagDB, operState, call, hwLink, ipDB, ipCall, silent>>
  BY DEF TellVlan, InLags, ipVars
<1>2. /\ operState[p] = hwLink[p]
      /\ l \in In(lagDB) \ link[p].todo
      /\ Telling(p, l)
      /\ \A k \in In(lagDB) \ {l} : IF k \in link[p].todo THEN Behind(p, k) ELSE Counted(k)
  BY <1>1 DEF Handling, Reached, HandlerAt
<1>3. /\ lagDB[l].active = UpCount(l) /\ (UpCount(l) > 0 <=> up)
      /\ VlanTold(l, ~up) /\ IpTold(l, ~up)
  BY <1>1, <1>2 DEF Telling, HandlerAt
<1>4. link[p].state \in {"UP", "DOWN"}
  BY <1>1, InLoop
<1>5. VlanTold(l, up)' /\ \A k \in LagId \ {l} : vlanActive'[k] = vlanActive[k]
  <2>1. l \notin silent => vlanActive[l] = IF ~up THEN 1 ELSE 0
    BY <1>3 DEF VlanTold
  <2>2. /\ vlanActive'[l] = IF link[p].state = "DOWN" THEN vlanActive[l] - 1
                                                      ELSE vlanActive[l] + 1
        /\ \A k \in LagId \ {l} : vlanActive'[k] = vlanActive[k]
    BY <1>1 DEF StateType
  <2>3. l \notin silent => vlanActive'[l] = IF up THEN 1 ELSE 0
    BY <1>4, <2>1, <2>2
  <2>4. link'[p].state = link[p].state
    BY <1>1, InLoop DEF IInv, LinkInv
  <2> QED BY <1>1, <2>2, <2>3, <2>4 DEF VlanTold
<1>6. /\ link'[p] \in LinkCall /\ link'[p].at = "l3" /\ link'[p].state = link[p].state
      /\ link'[p].todo = link[p].todo /\ link'[p].lag = l
      /\ \A q \in Port \ {p} : link'[q] = link[q]
  BY <1>1, InLoop DEF IInv, LinkInv, LinkCall
<1>7. /\ In(lagDB') = In(lagDB) /\ link'[p] # None
      /\ UpCount(l)' = UpCount(l)
      /\ IpTold(l, ~up)'
  BY <1>1, <1>3, <1>6, LinkNoneAssumption DEF In, UpCount, ActiveCount, IpTold
<1>8. StateType'
  <2>1. vlanActive' = [k \in LagId |-> vlanActive'[k]]
    BY <1>1 DEF StateType
  <2> QED BY <1>1, <1>2, <1>5, <1>7, <2>1 DEF StateType
<1>9. HandlerAt(p, "l3")'
  BY <1>6, <1>7 DEF HandlerAt
<1>10. Telling(p, l)'
  BY <1>1, <1>3, <1>5, <1>6, <1>7, <1>9 DEF Telling
<1>11. \A k \in In(lagDB) \ {l} : IF k \in link'[p].todo THEN Behind(p, k)' ELSE Counted(k)'
  <2> SUFFICES ASSUME NEW k \in In(lagDB) \ {l}
               PROVE  IF k \in link'[p].todo THEN Behind(p, k)' ELSE Counted(k)'
    OBVIOUS
  <2>1. vlanActive'[k] = vlanActive[k]
    BY <1>5 DEF In
  <2> QED BY <1>1, <1>2, <1>6, <2>1, LagUntouched, BehindKept
<1>12. Reached(p)'
  BY <1>1, <1>2, <1>6, <1>7, <1>9, <1>10, <1>11 DEF Reached
<1> QED BY <1>1, <1>6, <1>7, <1>8, <1>12, HandlingKept

LEMMA TellL3Counts ==
  ASSUME IInv, StateType, NEW p \in Port, Handling(p), UNCHANGED silent,
         NEW l \in LagId, TellL3(p, l)
  PROVE  StateType' /\ Handling(p)'
<1> DEFINE up == link[p].state = "UP"
<1>1. /\ HandlerAt(p, "l3") /\ InLags(p) /\ link[p].lag = l
      /\ ipDB' = IF ipDB[l] = None THEN ipDB
                 ELSE [ipDB EXCEPT ![l].oper = UpDown(ipDB[l].admin = "UP" /\ up)]
      /\ link' = [link EXCEPT ![p].at = "lags", ![p].lag = None]
      /\ UNCHANGED <<lagDB, vlanActive, operState, call, hwLink, ipCall, silent>>
  BY DEF TellL3, InLags, lagVars, tables
<1>2. /\ operState[p] = hwLink[p]
      /\ l \in In(lagDB) \ link[p].todo
      /\ Telling(p, l)
      /\ \A k \in In(lagDB) \ {l} : IF k \in link[p].todo THEN Behind(p, k) ELSE Counted(k)
  BY <1>1 DEF Handling, Reached, HandlerAt
<1>3. /\ lagDB[l].active = UpCount(l) /\ (UpCount(l) > 0 <=> up)
      /\ VlanTold(l, up)
  BY <1>1, <1>2 DEF Telling, HandlerAt
<1>4. /\ ipDB' \in [LagId -> AddrEntry \cup {None}]
      /\ \A k \in LagId \ {l} : ipDB'[k] = ipDB[k]
      /\ ipDB'[l] # None => /\ ipDB'[l].oper = "UP" => up
                            /\ up /\ ipDB'[l].admin = "UP" => ipDB'[l].oper = "UP"
  <2>1. CASE ipDB[l] = None
    BY <1>1, <2>1 DEF StateType
  <2>2. CASE ipDB[l] # None
    <3>1. PICK e \in AddrEntry : e = ipDB[l]
      BY <2>2 DEF StateType
    <3>2. PICK o \in {"UP", "DOWN"} : o = UpDown(e.admin = "UP" /\ up)
      BY DEF UpDown
    <3>3. ipDB' = [ipDB EXCEPT ![l] = [e EXCEPT !.oper = o]]
      BY <1>1, <2>2, <3>1, <3>2
    <3>4. /\ [e EXCEPT !.oper = o] \in AddrEntry
          /\ [e EXCEPT !.oper = o].oper = o /\ [e EXCEPT !.oper = o].admin = e.admin
      BY DEF AddrEntry
    <3> QED BY <3>2, <3>3, <3>4 DEF StateType, UpDown
  <2> QED BY <2>1, <2>2
<1>5. /\ link'[p] \in LinkCall /\ link'[p].at = "lags" /\ link'[p].state = link[p].state
      /\ link'[p].todo = link[p].todo
      /\ \A q \in Port \ {p} : link'[q] = link[q]
  BY <1>1, InLoop DEF IInv, LinkInv, LinkCall
<1>6. /\ In(lagDB') = In(lagDB) /\ link'[p] # None /\ UpCount(l)' = UpCount(l)
  BY <1>1, <1>5, LinkNoneAssumption DEF In, UpCount, ActiveCount
<1>7. StateType'
  BY <1>1, <1>2, <1>4, <1>6 DEF StateType
<1>8. Counted(l)'
  <2>1. VlanTold(l, UpCount(l) > 0)'
    BY <1>1, <1>3, <1>6 DEF VlanTold
  <2>2. IpTold(l, UpCount(l) > 0)'
    BY <1>3, <1>4, <1>6 DEF IpTold
  <2> QED BY <1>1, <1>3, <1>6, <2>1, <2>2 DEF Counted, Counts
<1>9. \A k \in In(lagDB) \ {l} : IF k \in link'[p].todo THEN Behind(p, k)' ELSE Counted(k)'
  <2> SUFFICES ASSUME NEW k \in In(lagDB) \ {l}
               PROVE  IF k \in link'[p].todo THEN Behind(p, k)' ELSE Counted(k)'
    OBVIOUS
  <2>1. ipDB'[k] = ipDB[k]
    BY <1>4 DEF In
  <2> QED BY <1>1, <1>2, <1>5, <2>1, LagUntouched, BehindKept
<1>10. HandlerAt(p, "lags")'
  BY <1>5, <1>6 DEF HandlerAt
<1>11. Reached(p)'
  BY <1>1, <1>2, <1>5, <1>6, <1>8, <1>9, <1>10 DEF Reached
<1> QED BY <1>1, <1>5, <1>6, <1>7, <1>11, HandlingKept

-----------------------------------------------------------------------------
(***************************************************************************)
(* One step at a time, and the theorem.                                    *)
(***************************************************************************)
LEMMA CallingStep ==
  ASSUME IInv, Serial, StateType, Calling, [Next]_vars
  PROVE  StateType' /\ (Calling' \/ \E p \in Port : Handling(p)')
<1>1. CASE Environment
  <2>1. CASE Calls /\ UNCHANGED <<linkVars, ipVars>>
    <3>1. ipCall = None
      BY <2>1 DEF Calls, Quiet
    <3>2. ASSUME NEW l \in LagId, NEW S \in SUBSET Port, UpdateLag(l, S),
                 silent' = IF Serial /\ Turns(l, S) THEN silent \cup {l} ELSE silent
          PROVE  StateType' /\ Calling'
      BY <2>1, <3>1, <3>2, UpdateLagCounts
    <3> QED BY <2>1, <3>1, <3>2, CreateLagCounts, DeleteLagCounts DEF Calls
  <2>2. CASE (\E p \in Port : LinkEvent(p)) /\ UNCHANGED silent
    BY <2>2, LinkEventCounts
  <2>3. CASE IpCalls /\ UNCHANGED silent
    BY <2>3, IpCallCounts
  <2> QED BY <1>1, <2>1, <2>2, <2>3 DEF Environment
<1>2. CASE CallStep
  BY <1>2, StoreLagCounts, SetPvidCounts, CountLagCounts, LastCounts, StoreLagVlanCounts,
     ForgetLagCounts DEF CallStep, Returns
<1>4. ASSUME NEW p \in Port, LinkStep(p)
      PROVE  FALSE
  BY <1>4 DEF Calling, NoHandler, LinkStep, Handle, StorePortState, LockLags, LagDone, ProcessLag,
              FindVlan, TellVlan, TellL3, HandlerAt
<1>5. CASE IpStep
  BY <1>5, IpCallCounts DEF IpStep
<1>6. CASE UNCHANGED vars
  <2>1. UNCHANGED <<lagDB, vlanActive, operState, hwLink, link, call, ipDB, ipCall, silent>>
    BY <1>6 DEF vars, lagVars, linkVars, ipVars, tables
  <2>2. StateType' /\ In(lagDB') = In(lagDB)
    BY <2>1 DEF StateType, In
  <2>3. /\ \A l \in In(lagDB) : Counted(l)' <=> Counted(l)
        /\ (Entering' <=> Entering) /\ (Leaving' <=> Leaving)
        /\ (At("store")' <=> At("store")) /\ (At("storeVlan")' <=> At("storeVlan"))
        /\ UpCount(call.lag)' = UpCount(call.lag)
        /\ ActiveCount(call.info.members)' = ActiveCount(call.info.members)
    BY <2>1, LagUntouched DEF Entering, Leaving, At, UpCount, ActiveCount
  <2> QED BY <2>1, <2>2, <2>3 DEF Calling, NoHandler
<1> QED BY <1>1, <1>2, <1>4, <1>5, <1>6 DEF Next

LEMMA HandlingStep ==
  ASSUME IInv, Serial, StateType, NEW p \in Port, Handling(p), [Next]_vars
  PROVE  StateType' /\ (Calling' \/ Handling(p)')
<1>1. call = None /\ ipCall = None /\ ~Quiet /\ \A q \in Port \ {p} : link[q] = None
  BY DEF Handling, Quiet, NoHandler
<1>2. ~Environment /\ ~CallStep /\ ~IpStep
  <2>1. ~Calls /\ ~Returns /\ ~IpCalls /\ ~StoreIpState
    BY <1>1 DEF Calls, Returns, StoreLag, SetPvidLocks, SetPvidReads, CountLag, StoreLagVlan,
                SetModes, ForgetLag, Unconfigure, At, IpCalls, CreateIPIntf, UpdateIPIntf,
                DeleteIPIntf, MayUpdateIp, StoreIpState
  <2>2. \A q \in Port : ~LinkEvent(q)
    BY <1>1 DEF LinkEvent
  <2> QED BY <2>1, <2>2 DEF Environment, CallStep, IpStep
<1>3. ASSUME NEW q \in Port, LinkStep(q)
      PROVE  q = p /\ Handle(p) /\ UNCHANGED silent
  <2>1. Handle(q) /\ link[q] # None
    BY <1>3 DEF LinkStep, Handle, StorePortState, LockLags, LagDone, ProcessLag, FindVlan,
                TellVlan, TellL3, HandlerAt
  <2> QED BY <1>1, <1>3, <2>1 DEF LinkStep
<1>4. CASE Handle(p) /\ UNCHANGED silent
  BY <1>4, StorePortStateCounts, LockLagsCounts, LagDoneCounts, ProcessLagCounts,
     FindVlanCounts, TellVlanCounts, TellL3Counts DEF Handle
<1>5. CASE UNCHANGED vars
  BY <1>5, HandlingStays DEF vars, lagVars, linkVars, ipVars, tables
<1> QED BY <1>2, <1>3, <1>4, <1>5 DEF Next

LEMMA InitSerialInv ==
  ASSUME Init
  PROVE  SerialInv
<1>1. /\ lagDB = [l \in LagId |-> None] /\ vlanActive = [l \in LagId |-> None]
      /\ operState = [p \in Port |-> "DOWN"] /\ hwLink = [p \in Port |-> "DOWN"]
      /\ link = [p \in Port |-> None] /\ ipDB = [l \in LagId |-> None]
      /\ call = None /\ ipCall = None
  BY DEF Init, LagInit
<1>2. In(lagDB) = {}
  BY <1>1 DEF In
<1>3. StateType
  BY <1>1 DEF StateType
<1>4. Calling
  BY <1>1, <1>2 DEF Calling, NoHandler, Entering, Leaving, At
<1> QED BY <1>3, <1>4 DEF SerialInv

\* With one thing at a time, what a LAG counts follows the links of its members,
\* through calls and link events that change them in steps, and so does what its
\* VLAN and its address were told unless an update made it active or inactive.
THEOREM CountsAlwaysFollow == Spec => []CountsFollowLinks
<1>1. Init => IInv /\ (Serial => SerialInv)
  BY InitIInv, InitSerialInv
<1>2. IInv /\ (Serial => SerialInv) /\ [Next]_vars => (IInv /\ (Serial => SerialInv))'
  <2> SUFFICES ASSUME IInv, Serial => SerialInv, [Next]_vars
               PROVE  IInv' /\ (Serial' => SerialInv')
    OBVIOUS
  <2>1. IInv'
    BY NextIInv
  <2>2. Serial' => Serial
    BY DEF Next, Environment, CallStep, IpStep, LinkStep, vars, Serial
  <2>3. ASSUME Serial, Calling
        PROVE  SerialInv'
    BY <2>3, CallingStep DEF SerialInv
  <2>4. ASSUME Serial, NEW p \in Port, Handling(p)
        PROVE  SerialInv'
    BY <2>4, HandlingStep DEF SerialInv
  <2> QED BY <2>1, <2>2, <2>3, <2>4 DEF SerialInv
<1>3. IInv /\ (Serial => SerialInv) => CountsFollowLinks
  <2> SUFFICES ASSUME IInv, SerialInv, Quiet, NEW l \in Lags
               PROVE  LET up == {p \in lagDB[l].members : hwLink[p] = "UP"}
                      IN /\ lagDB[l].active = Cardinality(up)
                         /\ l \notin silent =>
                              /\ vlanActive[l] = IF up # {} THEN 1 ELSE 0
                              /\ ipDB[l] # None =>
                                   /\ ipDB[l].oper = "UP" => up # {}
                                   /\ up # {} /\ ipDB[l].admin = "UP" => ipDB[l].oper = "UP"
    BY DEF CountsFollowLinks
  <2> DEFINE up == {p \in lagDB[l].members : hwLink[p] = "UP"}
  <2>1. l \in In(lagDB) /\ lagDB[l].members \subseteq Port
    BY EntryType DEF IInv, Lags, In, Info
  <2>2. Calling /\ Counted(l)
    BY <2>1, Modes DEF SerialInv, Handling, Calling, Quiet, NoHandler
  <2>3. up = {p \in lagDB[l].members : operState[p] = "UP"}
    BY <2>1, <2>2 DEF Calling
  <2>4. UpCount(l) = Cardinality(up)
    BY <2>3 DEF UpCount, ActiveCount
  <2>5. IsFiniteSet(up)
    BY <2>1, FS_Subset, PortAssumption
  <2>6. Cardinality(up) \in Nat /\ (Cardinality(up) > 0 <=> up # {})
    <3> HIDE DEF up
    <3>1. Cardinality(up) \in Nat
      BY <2>5, FS_CardinalityType
    <3>2. Cardinality(up) = 0 <=> up = {}
      BY <2>5, FS_EmptySet
    <3> QED BY <3>1, <3>2
  <2> HIDE DEF up
  <2>7. lagDB[l].active = Cardinality(up) /\ VlanTold(l, up # {}) /\ IpTold(l, up # {})
    BY <2>2, <2>4, <2>6 DEF Counted, Counts, VlanTold, IpTold
  <2>8. /\ lagDB[l].active = Cardinality(up)
        /\ l \notin silent =>
             /\ vlanActive[l] = IF up # {} THEN 1 ELSE 0
             /\ ipDB[l] # None =>
                  /\ ipDB[l].oper = "UP" => up # {}
                  /\ up # {} /\ ipDB[l].admin = "UP" => ipDB[l].oper = "UP"
    BY <2>7 DEF VlanTold, IpTold
  <2> QED BY ONLY <2>8 DEF up
<1> QED BY <1>1, <1>2, <1>3, PTL DEF Spec
=============================================================================
