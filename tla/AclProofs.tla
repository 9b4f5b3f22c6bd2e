----------------------------- MODULE AclProofs -----------------------------
(***************************************************************************)
(* Proofs about AclMgr for every set of ACLs, rules, contents and clients, *)
(* when calls do not overlap and no name is a prefix of another.           *)
(***************************************************************************)
EXTENDS AclMgr, SequenceTheorems, FiniteSetTheorems, WellFoundedInduction, TLAPS

Thread == Client \cup {Boot}

Listed(acls, a) == \E k \in 1..Len(acls) : acls[k] = a

Attached(r, a) == rulesToAcls[r] # None /\ Listed(rulesToAcls[r], a)

Used(i, j) == aclTable[i] # None /\ aclTable[i].entries[j] # None

Removing(a, r) ==
  \E c \in Thread : At(c, "remove") /\ call[c].acl = a /\ call[c].rule = r

-----------------------------------------------------------------------------
(***************************************************************************)
(* The inductive invariant.                                                *)
(***************************************************************************)
TableType == aclTable \in [1..MaxTable -> Table \cup {None}]

MapType ==
  /\ dbRule \in [Rule -> Content \cup {None}]
  /\ dbAcl \in [Acl -> (SUBSET Rule) \cup {None}]
  /\ rulesToAcls \in [Rule -> Seq(Acl) \cup {None}]
  /\ aclKnown \in SUBSET Acl

\* There is one call at a time, and none of a client while Init applies ACLs.
OneCall ==
  /\ call \in [Thread -> Call \cup {None}]
  /\ \A c, d \in Thread : call[c] # None /\ call[d] # None => c = d
  /\ boot \subseteq {a \in Acl : dbAcl[a] # None}
  /\ boot # {} => \A c \in Client : call[c] = None

\* A rule with an entry is stored, and attached unless it is being removed.
Held ==
  \A a \in Acl, r \in Rule : InHw(a, r) =>
    dbRule[r] # None /\ (Attached(r, a) \/ Removing(a, r))

\* What a call knows where it is.
Stores(c) == At(c, "storeRule") =>
  /\ call[c].content = None => rulesToAcls[call[c].rule] = None
  /\ (call[c].content # None /\ dbRule[call[c].rule] # None) =>
       \A i \in 1..MaxTable, j \in 1..MaxEntry :
         (Used(i, j) /\ aclTable[i].entries[j].rule = call[c].rule)
           => aclTable[i].entries[j].content = call[c].content

Applies(c) == (At(c, "lookup") \/ At(c, "apply")) =>
  /\ Attached(call[c].rule, call[c].acl)
  /\ call[c].acl \in aclKnown
  /\ At(c, "apply") => dbRule[call[c].rule] # None

Updates(c) == At(c, "updateRule") =>
  /\ dbRule[call[c].rule] # None
  /\ \A k \in 1..Len(call[c].acls) : Attached(call[c].rule, call[c].acls[k])
  /\ \A i \in 1..MaxTable, j \in 1..MaxEntry :
       (Used(i, j) /\ aclTable[i].entries[j].rule = call[c].rule
          /\ aclTable[i].entries[j].content # call[c].content)
         => Listed(call[c].acls, aclTable[i].name)

CallsKnow == \A c \in Thread : Stores(c) /\ Applies(c) /\ Updates(c)

IInv ==
  /\ TableType /\ MapType /\ OneCall
  /\ TablesReachable /\ Held /\ CallsKnow

-----------------------------------------------------------------------------
\* First(S) is an element of S, for a set of numbers that is not empty.
LEMMA FirstIsFound ==
  ASSUME NEW S \in SUBSET Nat, S # {}
  PROVE  First(S) \in S
<1>1. PICK v \in S : \A w \in S : <<w, v>> \notin OpToRel(<, Nat)
  BY NatLessThanWellFounded, WFMin
<1>2. OpToRel(<, Nat) = {ss \in Nat \X Nat : ss[1] < ss[2]}
  BY DEF OpToRel
<1>3. ASSUME NEW w \in S, w < v
      PROVE  FALSE
  <2>1. <<w, v>> \in {ss \in Nat \X Nat : ss[1] < ss[2]}
    BY <1>3
  <2> QED BY <1>1, <1>2, <2>1
<1>4. \A w \in S : v <= w
  BY <1>3
<1> QED BY <1>1, <1>4 DEF First

\* DeleteAclRuleFromAclMap takes one ACL off the list and no other.
LEMMA WithoutAclKeeps ==
  ASSUME NEW acls \in Seq(Acl), NEW a \in Acl
  PROVE  /\ WithoutAcl(acls, a) \in Seq(Acl)
         /\ \A b \in Acl \ {a} : Listed(acls, b) => Listed(WithoutAcl(acls, a), b)
<1> DEFINE S == {i \in 1..Len(acls) : acls[i] = a}
           f == First(S)
           front == SubSeq(acls, 1, f - 1)
           back == SubSeq(acls, f + 1, Len(acls))
<1>1. Len(acls) \in Nat /\ \A i \in 1..Len(acls) : acls[i] \in Acl
  BY LenProperties
<1>2. CASE S = {}
  BY <1>2 DEF WithoutAcl
<1>3. CASE S # {}
  <2>1. f \in 1..Len(acls) /\ acls[f] = a
    <3>1. S \in SUBSET Nat
      BY <1>1
    <3>2. First(S) \in S
      BY <3>1, <1>3, FirstIsFound
    <3> QED BY <3>2
  <2>2. WithoutAcl(acls, a) = front \o back
    BY <1>3 DEF WithoutAcl
  <2> HIDE DEF f, S
  <2>3. /\ front \in Seq(Acl) /\ Len(front) = f - 1
        /\ \A i \in 1..f - 1 : front[i] = acls[i]
    <3>1. f - 1 \in Int /\ \A i \in 1..f - 1 : acls[i] \in Acl
      BY <1>1, <2>1
    <3>2. /\ front \in Seq(Acl)
          /\ Len(front) = IF 1 <= f - 1 THEN (f - 1) - 1 + 1 ELSE 0
          /\ \A i \in 1..(f - 1) - 1 + 1 : front[i] = acls[1 + i - 1]
      BY <3>1, SubSeqProperties
    <3> QED BY <3>2, <2>1, <1>1
  <2>4. /\ back \in Seq(Acl) /\ Len(back) = Len(acls) - f
        /\ \A i \in 1..Len(acls) - f : back[i] = acls[f + i]
    <3>1. /\ f + 1 \in Int /\ Len(acls) \in Int
          /\ \A i \in f + 1..Len(acls) : acls[i] \in Acl
      BY <1>1, <2>1
    <3>2. /\ back \in Seq(Acl)
          /\ Len(back) = IF f + 1 <= Len(acls) THEN Len(acls) - (f + 1) + 1 ELSE 0
          /\ \A i \in 1..Len(acls) - (f + 1) + 1 : back[i] = acls[(f + 1) + i - 1]
      BY <3>1, SubSeqProperties
    <3> QED BY <3>2, <2>1, <1>1
  <2> HIDE DEF front, back
  <2>5. /\ front \o back \in Seq(Acl)
        /\ Len(front \o back) = Len(acls) - 1
        /\ \A i \in 1..Len(acls) - 1 :
             (front \o back)[i] = IF i <= f - 1 THEN acls[i] ELSE acls[i + 1]
    <3>1. /\ front \o back \in Seq(Acl)
          /\ Len(front \o back) = Len(front) + Len(back)
          /\ \A i \in 1..Len(front) + Len(back) :
               (front \o back)[i] = IF i <= Len(front) THEN front[i]
                                    ELSE back[i - Len(front)]
      BY <2>3, <2>4, ConcatProperties
    <3> QED BY <3>1, <2>3, <2>4, <2>1, <1>1
  <2>6. ASSUME NEW b \in Acl \ {a}, NEW k \in 1..Len(acls), acls[k] = b
        PROVE  Listed(front \o back, b)
    <3>1. k # f
      BY <2>6, <2>1
    <3>2. CASE k < f
      <4>1. k \in 1..Len(acls) - 1 /\ (front \o back)[k] = b
        BY <3>2, <2>5, <2>6, <2>1, <1>1
      <4> QED BY <4>1, <2>5 DEF Listed
    <3>3. CASE k > f
      <4>1. /\ k - 1 \in 1..Len(acls) - 1 /\ ~(k - 1 <= f - 1)
            /\ (k - 1) + 1 = k
        BY <3>3, <2>1, <1>1
      <4>2. (front \o back)[k - 1] = acls[(k - 1) + 1]
        BY <4>1, <2>5
      <4>3. (front \o back)[k - 1] = b
        BY <4>1, <4>2, <2>6
      <4> QED BY <4>1, <4>3, <2>5 DEF Listed
    <3> QED BY <3>1, <3>2, <3>3, <2>1, <1>1
  <2> QED BY <2>2, <2>5, <2>6 DEF Listed
<1> QED BY <1>2, <1>3

-----------------------------------------------------------------------------
(***************************************************************************)
(* What the plugin does to the tables.                                     *)
(***************************************************************************)
\* strncmp finds the table of that name, which is the only one.
LEMMA FoundIsTheTable ==
  ASSUME Prefix = {}, TablesReachable, NEW a \in Acl, Found(a) # {}
  PROVE  /\ SaiSearchAclTableId(a) \in 1..MaxTable
         /\ aclTable[SaiSearchAclTableId(a)] # None
         /\ aclTable[SaiSearchAclTableId(a)].name = a
         /\ \A i \in 1..MaxTable :
              (aclTable[i] # None /\ aclTable[i].name = a) => i = SaiSearchAclTableId(a)
<1>1. Found(a) = {i \in 1..MaxTable : aclTable[i] # None /\ aclTable[i].name = a}
  BY DEF Found, Matches
<1>2. Found(a) \in SUBSET Nat
  BY <1>1, SizeAssumption
<1>3. SaiSearchAclTableId(a) \in Found(a)
  BY <1>2, FirstIsFound DEF SaiSearchAclTableId
<1> QED BY <1>1, <1>3 DEF TablesReachable

\* Without a table found there is none of that name.
LEMMA NotFound ==
  ASSUME NEW a \in Acl, Found(a) = {}
  PROVE  \A i \in 1..MaxTable : aclTable[i] # None => aclTable[i].name # a
BY DEF Found, Matches

\* Adding an entry leaves the others of the table alone.
LEMMA WithEntryEffect ==
  ASSUME NEW t \in Table, NEW r \in Rule, NEW content \in Content
  PROVE  /\ WithEntry(t, r, content) \in Table
         /\ WithEntry(t, r, content).name = t.name
         /\ \A j \in 1..MaxEntry :
              \/ WithEntry(t, r, content).entries[j] = t.entries[j]
              \/ WithEntry(t, r, content).entries[j] = [rule |-> r, content |-> content]
<1> DEFINE e == [rule |-> r, content |-> content]
           f == First(FreeEntries(t))
<1>1. e \in Entry
  BY DEF Entry
<1>2. WithEntry(t, r, content) = [t EXCEPT !.entries = [t.entries EXCEPT ![f] = e]]
  BY DEF WithEntry
<1> HIDE DEF e, f
<1>3. [t.entries EXCEPT ![f] = e] \in [1..MaxEntry -> Entry \cup {None}]
  BY <1>1 DEF Table
<1>4. WithEntry(t, r, content) = [name |-> t.name, entries |-> [t.entries EXCEPT ![f] = e]]
  BY <1>2 DEF Table
<1>5. \A j \in 1..MaxEntry : \/ [t.entries EXCEPT ![f] = e][j] = t.entries[j]
                             \/ [t.entries EXCEPT ![f] = e][j] = e
  BY DEF Table
<1> QED BY <1>3, <1>4, <1>5 DEF Table, e

LEMMA WithoutRuleEffect ==
  ASSUME Prefix = {}, NEW t \in Table, NEW r \in Rule
  PROVE  /\ WithoutRule(t, r) \in Table
         /\ WithoutRule(t, r).name = t.name
         /\ \A j \in 1..MaxEntry : WithoutRule(t, r).entries[j] # None =>
              /\ WithoutRule(t, r).entries[j] = t.entries[j]
              /\ t.entries[j].rule # r
<1> DEFINE es == [j \in 1..MaxEntry |->
                    IF t.entries[j] # None /\ Matches(r, t.entries[j].rule) THEN None
                    ELSE t.entries[j]]
<1>1. WithoutRule(t, r) = [t EXCEPT !.entries = es]
  BY DEF WithoutRule
<1>2. es \in [1..MaxEntry -> Entry \cup {None}]
  BY DEF Table
<1>3. \A j \in 1..MaxEntry : es[j] # None => es[j] = t.entries[j] /\ t.entries[j].rule # r
  BY DEF Matches
<1> HIDE DEF es
<1>4. WithoutRule(t, r) = [name |-> t.name, entries |-> es]
  BY <1>1 DEF Table
<1> QED BY <1>2, <1>3, <1>4 DEF Table

LEMMA EmptyTableType ==
  ASSUME NEW a \in Acl
  PROVE  /\ EmptyTable(a) \in Table
         /\ EmptyTable(a).name = a
         /\ \A j \in 1..MaxEntry : EmptyTable(a).entries[j] = None
BY DEF EmptyTable, Table

\* Every entry is an old one or the one added.
EntriesFrom(a, e) ==
  \A i \in 1..MaxTable, j \in 1..MaxEntry : Used(i, j)' =>
    \/ /\ Used(i, j)
       /\ aclTable'[i].name = aclTable[i].name
       /\ aclTable'[i].entries[j] = aclTable[i].entries[j]
    \/ /\ aclTable'[i].name = a
       /\ aclTable'[i].entries[j] = e

\* A table takes a place; no other table has its name.
Replaces(p, t) ==
  /\ aclTable' = [aclTable EXCEPT ![p] = t]
  /\ \A i \in 1..MaxTable \ {p} : aclTable[i] # None =>
       /\ aclTable[i].name \in aclKnown'
       /\ t # None => aclTable[i].name # t.name
  /\ t # None => t.name \in aclKnown'

LEMMA TableReplaced ==
  ASSUME TableType, TablesReachable, NEW p, NEW t \in Table \cup {None}, Replaces(p, t)
  PROVE  /\ TableType'
         /\ TablesReachable'
         /\ \A i \in 1..MaxTable : aclTable'[i] = IF i = p THEN t ELSE aclTable[i]
<1>1. TableType'
  BY DEF TableType, Replaces
<1>2. \A i \in 1..MaxTable : aclTable'[i] = IF i = p THEN t ELSE aclTable[i]
  BY DEF TableType, Replaces
<1>3. TablesReachable'
  BY <1>2 DEF TablesReachable, Replaces
<1> QED BY <1>1, <1>2, <1>3

LEMMA ProcessEffect ==
  ASSUME Prefix = {}, TableType, TablesReachable,
         NEW a \in Acl, NEW r \in Rule, NEW content \in Content,
         a \in aclKnown, aclKnown' = aclKnown, SaiProcessAcl(a, r, content)
  PROVE  /\ TableType' /\ TablesReachable'
         /\ EntriesFrom(a, [rule |-> r, content |-> content])
<1> DEFINE p == TableForEntry(a)
           t == TableOrEmpty(a)
           u == WithEntry(t, r, content)
           e == [rule |-> r, content |-> content]
<1>1. aclTable' = [aclTable EXCEPT ![p] = u]
  BY DEF SaiProcessAcl
<1>2. /\ t \in Table /\ t.name = a
      /\ \A i \in 1..MaxTable \ {p} : aclTable[i] # None => aclTable[i].name # a
      /\ \/ \A j \in 1..MaxEntry : t.entries[j] = None
         \/ p \in 1..MaxTable /\ aclTable[p] = t
  <2>1. CASE Found(a) = {}
    BY <2>1, NotFound, EmptyTableType DEF TableOrEmpty
  <2>2. CASE Found(a) # {}
    <3>1. p = SaiSearchAclTableId(a) /\ t = aclTable[SaiSearchAclTableId(a)]
      BY <2>2 DEF TableForEntry, TableOrEmpty
    <3> HIDE DEF p, t
    <3> QED BY <2>2, <3>1, FoundIsTheTable DEF TableType
  <2> QED BY <2>1, <2>2
<1> HIDE DEF p, t
<1>3. /\ u \in Table /\ u.name = a
      /\ \A j \in 1..MaxEntry : u.entries[j] = t.entries[j] \/ u.entries[j] = e
  BY <1>2, WithEntryEffect
<1> HIDE DEF u, e
<1>4. u # None
  BY <1>3, NoneAssumption
<1>5. /\ TableType' /\ TablesReachable'
      /\ \A i \in 1..MaxTable : aclTable'[i] = IF i = p THEN u ELSE aclTable[i]
  <2>1. Replaces(p, u)
    BY <1>1, <1>2, <1>3 DEF TablesReachable, Replaces
  <2> QED BY <2>1, <1>3, TableReplaced
<1>6. t # None
  BY <1>2, NoneAssumption
<1>7. EntriesFrom(a, e)
  BY <1>2, <1>3, <1>4, <1>5, <1>6 DEF EntriesFrom, Used
<1> QED BY <1>5, <1>7 DEF e

LEMMA UpdateRuleEffect ==
  ASSUME Prefix = {}, TableType, TablesReachable,
         NEW a \in Acl, NEW r \in Rule, NEW content \in Content,
         aclKnown' = aclKnown, SaiUpdateAclRule(a, r, content)
  PROVE  /\ TableType' /\ TablesReachable'
         /\ EntriesFrom(a, [rule |-> r, content |-> content])
         /\ \A i \in 1..MaxTable, j \in 1..MaxEntry :
              (Used(i, j)' /\ aclTable'[i].name = a /\ aclTable'[i].entries[j].rule = r)
                => aclTable'[i].entries[j].content = content
<1> DEFINE p == SaiSearchAclTableId(a)
           t == WithoutRule(aclTable[p], r)
           u == WithEntry(t, r, content)
           e == [rule |-> r, content |-> content]
<1>1. aclTable' = [aclTable EXCEPT ![p] = u] /\ Found(a) # {}
  BY DEF SaiUpdateAclRule
<1>2. /\ p \in 1..MaxTable /\ aclTable[p] # None /\ aclTable[p].name = a
      /\ \A i \in 1..MaxTable \ {p} : aclTable[i] # None => aclTable[i].name # a
  BY <1>1, FoundIsTheTable
<1> HIDE DEF p
<1>3. aclTable[p] \in Table
  BY <1>2 DEF TableType
<1>4. /\ t \in Table /\ t.name = a
      /\ \A j \in 1..MaxEntry : t.entries[j] # None =>
           t.entries[j] = aclTable[p].entries[j] /\ t.entries[j].rule # r
  BY <1>2, <1>3, WithoutRuleEffect
<1> HIDE DEF t
<1>5. /\ u \in Table /\ u.name = a
      /\ \A j \in 1..MaxEntry : u.entries[j] = t.entries[j] \/ u.entries[j] = e
  BY <1>4, WithEntryEffect
<1>6. e.rule = r /\ e.content = content
  OBVIOUS
<1> HIDE DEF u, e
<1>7. u # None
  BY <1>5, NoneAssumption
<1>8. /\ TableType' /\ TablesReachable'
      /\ \A i \in 1..MaxTable : aclTable'[i] = IF i = p THEN u ELSE aclTable[i]
  <2>1. Replaces(p, u)
    BY <1>1, <1>2, <1>5 DEF TablesReachable, Replaces
  <2> QED BY <2>1, <1>5, TableReplaced
<1>9. EntriesFrom(a, e)
  BY <1>2, <1>4, <1>5, <1>7, <1>8 DEF EntriesFrom, Used
<1>10. ASSUME NEW i \in 1..MaxTable, NEW j \in 1..MaxEntry,
              Used(i, j)', aclTable'[i].name = a, aclTable'[i].entries[j].rule = r
       PROVE  aclTable'[i].entries[j].content = content
  BY <1>2, <1>4, <1>5, <1>6, <1>8, <1>10 DEF Used
<1> QED BY <1>8, <1>9, <1>10 DEF e

LEMMA DeleteRuleEffect ==
  ASSUME Prefix = {}, TableType, TablesReachable,
         NEW a \in Acl, NEW r \in Rule,
         aclKnown' = aclKnown, SaiDeleteAclRuleFromAcl(a, r)
  PROVE  /\ TableType' /\ TablesReachable'
         /\ \A i \in 1..MaxTable, j \in 1..MaxEntry : Used(i, j)' =>
              /\ Used(i, j)
              /\ aclTable'[i].name = aclTable[i].name
              /\ aclTable'[i].entries[j] = aclTable[i].entries[j]
              /\ aclTable[i].name = a => aclTable[i].entries[j].rule # r
<1> DEFINE p == SaiSearchAclTableId(a)
           t == WithoutRule(aclTable[p], r)
<1>1. aclTable' = [aclTable EXCEPT ![p] = t] /\ Found(a) # {}
  BY DEF SaiDeleteAclRuleFromAcl
<1>2. /\ p \in 1..MaxTable /\ aclTable[p] # None /\ aclTable[p].name = a
      /\ \A i \in 1..MaxTable \ {p} : aclTable[i] # None => aclTable[i].name # a
  BY <1>1, FoundIsTheTable
<1> HIDE DEF p
<1>3. aclTable[p] \in Table
  BY <1>2 DEF TableType
<1>4. /\ t \in Table /\ t.name = a
      /\ \A j \in 1..MaxEntry : t.entries[j] # None =>
           t.entries[j] = aclTable[p].entries[j] /\ t.entries[j].rule # r
  BY <1>2, <1>3, WithoutRuleEffect
<1> HIDE DEF t
<1>5. /\ TableType' /\ TablesReachable'
      /\ \A i \in 1..MaxTable : aclTable'[i] = IF i = p THEN t ELSE aclTable[i]
  <2>1. Replaces(p, t)
    BY <1>1, <1>2, <1>4 DEF TablesReachable, Replaces
  <2> QED BY <2>1, <1>4, TableReplaced
<1> QED BY <1>2, <1>4, <1>5 DEF Used

LEMMA DeleteAclEffect ==
  ASSUME Prefix = {}, TableType, TablesReachable, NEW a \in Acl,
         aclKnown' = aclKnown \ {a}, SaiDeleteAcl(a)
  PROVE  /\ TableType' /\ TablesReachable'
         /\ \A i \in 1..MaxTable, j \in 1..MaxEntry : Used(i, j)' =>
              /\ Used(i, j)
              /\ aclTable'[i] = aclTable[i]
<1> DEFINE p == SaiSearchAclTableId(a)
<1>1. aclTable' = [aclTable EXCEPT ![p] = None] /\ Found(a) # {}
  BY DEF SaiDeleteAcl
<1>2. \A i \in 1..MaxTable \ {p} : aclTable[i] # None => aclTable[i].name # a
  BY <1>1, FoundIsTheTable
<1> HIDE DEF p
<1>3. /\ TableType' /\ TablesReachable'
      /\ \A i \in 1..MaxTable : aclTable'[i] = IF i = p THEN None ELSE aclTable[i]
  <2>1. Replaces(p, None)
    BY <1>1, <1>2 DEF TablesReachable, Replaces
  <2> QED BY <2>1, TableReplaced
<1> QED BY <1>3 DEF Used

-----------------------------------------------------------------------------
(***************************************************************************)
(* One call at a time.                                                     *)
(***************************************************************************)
\* The fields of a call where it is.
LEMMA CallFields ==
  ASSUME OneCall, NEW c \in Thread, call[c] # None
  PROVE  /\ call[c] \in Call
         /\ \A d \in Thread \ {c} : call[d] = None
         /\ c \in Client => boot = {}
BY DEF OneCall, Thread

LEMMA StoreFields ==
  ASSUME OneCall, NEW c \in Thread, At(c, "storeRule")
  PROVE  call[c].rule \in Rule /\ call[c].content \in Content \cup {None}
BY CallFields DEF At, Call

LEMMA UpdateFields ==
  ASSUME OneCall, NEW c \in Thread, At(c, "updateRule")
  PROVE  /\ call[c].rule \in Rule /\ call[c].content \in Content
         /\ call[c].acls \in Seq(Acl)
         /\ call[c] = [at |-> "updateRule", rule |-> call[c].rule,
                       content |-> call[c].content, acls |-> call[c].acls]
BY CallFields DEF At, Call

LEMMA NextFields ==
  ASSUME OneCall, NEW c \in Thread,
         At(c, "nextRule") \/ At(c, "lookup") \/ At(c, "apply") \/ At(c, "remove")
  PROVE  /\ call[c].acl \in Acl /\ call[c].rules \in SUBSET Rule
         /\ call[c].add \in SUBSET Rule /\ call[c].del \in SUBSET Rule
BY CallFields DEF At, Call

LEMMA RuleFields ==
  ASSUME OneCall, NEW c \in Thread,
         At(c, "lookup") \/ At(c, "apply") \/ At(c, "remove")
  PROVE  /\ call[c].rule \in Rule
         /\ At(c, "apply") => call[c].content \in Content
BY CallFields DEF At, Call

LEMMA UnstoreFields ==
  ASSUME OneCall, NEW c \in Thread, At(c, "unstoreAcl")
  PROVE  call[c].acl \in Acl
BY CallFields DEF At, Call

\* c is the only thread that has a call, before and after, and goes on with x.
Alone(c) == \A d \in Thread \ {c} : call[d] = None

LEMMA CallStep ==
  ASSUME OneCall, NEW c \in Thread, Alone(c), NEW x \in Call \cup {None},
         call' = [call EXCEPT ![c] = x],
         boot' \subseteq {a \in Acl : dbAcl'[a] # None},
         c \in Client => boot' = {}
  PROVE  /\ OneCall'
         /\ call'[c] = x
         /\ \A d \in Thread \ {c} : call'[d] = None
<1>1. /\ call' \in [Thread -> Call \cup {None}]
      /\ call'[c] = x
      /\ \A d \in Thread \ {c} : call'[d] = None
  BY DEF OneCall, Alone
<1>2. c \notin Client => c = Boot
  BY DEF Thread
<1>3. Client \subseteq Thread
  BY DEF Thread
<1> QED BY <1>1, <1>2, <1>3, BootAssumption DEF OneCall

\* A client that may call finds no call in progress.
LEMMA ReadyAlone ==
  ASSUME Overlap = FALSE, OneCall, NEW c \in Client, Ready(c)
  PROVE  /\ c \in Thread /\ Alone(c) /\ boot = {}
         /\ \A d \in Thread : call[d] = None
BY DEF Ready, Booting, Alone, Thread

\* A thread in a call is alone.
LEMMA AtAlone ==
  ASSUME OneCall, NEW c \in Thread, call[c] # None
  PROVE  /\ Alone(c)
         /\ c \in Client => boot = {}
         /\ \A a, r : Removing(a, r) =>
              At(c, "remove") /\ call[c].acl = a /\ call[c].rule = r
BY CallFields DEF Alone, Removing, At

\* What the threads without a call know is nothing.
LEMMA OthersKnow ==
  ASSUME NEW c \in Thread, \A d \in Thread \ {c} : call'[d] = None,
         (Stores(c) /\ Applies(c) /\ Updates(c))'
  PROVE  CallsKnow'
BY DEF CallsKnow, Stores, Applies, Updates, At

LEMMA EntryFields ==
  ASSUME TableType, NEW i \in 1..MaxTable, NEW j \in 1..MaxEntry, Used(i, j)
  PROVE  /\ aclTable[i].name \in Acl
         /\ aclTable[i].entries[j].rule \in Rule
         /\ aclTable[i].entries[j].content \in Content
<1>1. aclTable[i] \in Table /\ aclTable[i].entries[j] # None
  BY DEF TableType, Used
<1>2. aclTable[i].entries[j] \in Entry
  BY <1>1 DEF Table
<1> QED BY <1>1, <1>2 DEF Table, Entry

\* What Held needs of a step that adds no entry.
NoNewEntries ==
  \A i \in 1..MaxTable, j \in 1..MaxEntry : Used(i, j)' =>
    /\ Used(i, j)
    /\ aclTable'[i].name = aclTable[i].name
    /\ aclTable'[i].entries[j] = aclTable[i].entries[j]

KeepsRules ==
  \A r \in Rule, a \in Acl : (InHw(a, r) /\ dbRule[r] # None) => dbRule'[r] # None

KeepsAttached ==
  \A r \in Rule, a \in Acl :
    (InHw(a, r) /\ (Attached(r, a) \/ Removing(a, r)))
      => (Attached(r, a)' \/ Removing(a, r)')

LEMMA TablesStay ==
  ASSUME TableType, TablesReachable, UNCHANGED aclTable, aclKnown \subseteq aclKnown'
  PROVE  TableType' /\ TablesReachable' /\ NoNewEntries
BY DEF TableType, TablesReachable, NoNewEntries, Used

LEMMA HeldStays ==
  ASSUME Held, NoNewEntries, KeepsRules, KeepsAttached
  PROVE  Held'
<1> SUFFICES ASSUME NEW a \in Acl, NEW r \in Rule, InHw(a, r)'
             PROVE  dbRule'[r] # None /\ (Attached(r, a)' \/ Removing(a, r)')
  BY DEF Held
<1>1. InHw(a, r)
  BY DEF InHw, NoNewEntries, Used
<1> QED BY <1>1 DEF Held, KeepsRules, KeepsAttached

\* A step that adds an entry, of a rule that is attached.
LEMMA HeldGrows ==
  ASSUME Held, KeepsRules, KeepsAttached,
         NEW b \in Acl, NEW s \in Rule, NEW content \in Content,
         EntriesFrom(b, [rule |-> s, content |-> content]),
         dbRule'[s] # None, Attached(s, b)'
  PROVE  Held'
<1> SUFFICES ASSUME NEW a \in Acl, NEW r \in Rule, InHw(a, r)'
             PROVE  dbRule'[r] # None /\ (Attached(r, a)' \/ Removing(a, r)')
  BY DEF Held
<1>1. InHw(a, r) \/ (a = b /\ r = s)
  BY DEF InHw, EntriesFrom, Used
<1> QED BY <1>1 DEF Held, KeepsRules, KeepsAttached

\* A call in progress moves on, or ends, and the tables and maps stay.
LEMMA MovesOn ==
  ASSUME IInv, NEW c \in Thread, Alone(c), NEW x \in Call \cup {None},
         call' = [call EXCEPT ![c] = x],
         \A a \in Acl, r \in Rule : Removing(a, r) => ~InHw(a, r),
         UNCHANGED <<aclTable, dbRule, rulesToAcls>>,
         MapType', aclKnown \subseteq aclKnown',
         boot' \subseteq {a \in Acl : dbAcl'[a] # None},
         c \in Client => boot' = {},
         (Stores(c) /\ Applies(c) /\ Updates(c))'
  PROVE  IInv'
<1> USE DEF IInv
<1>1. OneCall' /\ call'[c] = x /\ \A d \in Thread \ {c} : call'[d] = None
  BY CallStep
<1>2. TableType' /\ TablesReachable' /\ NoNewEntries
  BY TablesStay
<1>3. KeepsRules
  BY DEF KeepsRules
<1>4. KeepsAttached
  BY DEF KeepsAttached, Attached
<1>5. Held'
  BY <1>2, <1>3, <1>4, HeldStays
<1>6. CallsKnow'
  BY <1>1, OthersKnow
<1> QED BY <1>1, <1>2, <1>5, <1>6

\* Only these steps of a call know something.
LEMMA KnowsNothing ==
  ASSUME NEW c, call'[c] = None
                  \/ call'[c].at \notin {"storeRule", "lookup", "apply", "updateRule"}
  PROVE  (Stores(c) /\ Applies(c) /\ Updates(c))'
BY DEF Stores, Applies, Updates, At

-----------------------------------------------------------------------------
(***************************************************************************)
(* The start of each call of a client.                                     *)
(***************************************************************************)
LEMMA CreateAclRuleStep ==
  ASSUME Overlap = FALSE, IInv, NEW c \in Client, NEW r \in Rule, NEW content \in Content,
         CreateAclRule(c, r, content)
  PROVE  IInv'
<1> DEFINE x == [at |-> "storeRule", rule |-> r, content |-> content]
<1> USE DEF IInv
<1>1. /\ Ready(c) /\ dbRule[r] = None
      /\ rulesToAcls' = [rulesToAcls EXCEPT ![r] = IF @ = None THEN << >> ELSE @]
      /\ call' = [call EXCEPT ![c] = x]
      /\ UNCHANGED <<aclTable, dbRule, dbAcl, aclKnown, boot>>
  BY DEF CreateAclRule, saiVars, dbVars
<1>2. /\ c \in Thread /\ Alone(c) /\ boot = {}
      /\ \A d \in Thread : call[d] = None
  BY <1>1, ReadyAlone
<1>3. x \in Call
  BY DEF Call
<1>4. OneCall' /\ call'[c] = x /\ \A d \in Thread \ {c} : call'[d] = None
  <2> HIDE DEF x
  <2> QED BY <1>1, <1>2, <1>3, CallStep
<1>5. TableType' /\ TablesReachable' /\ NoNewEntries
  BY <1>1, TablesStay
<1>6. MapType' /\ \A s \in Rule, a \in Acl : Attached(s, a)' <=> Attached(s, a)
  <2>1. << >> \in Seq(Acl) /\ \A a : ~Listed(<< >>, a)
    BY DEF Listed
  <2>2. MapType'
    BY <1>1, <2>1 DEF MapType
  <2>3. ASSUME NEW s \in Rule, NEW a \in Acl
        PROVE  Attached(s, a)' <=> Attached(s, a)
    <3>1. rulesToAcls'[s] = IF s = r /\ rulesToAcls[s] = None THEN << >> ELSE rulesToAcls[s]
      BY <1>1 DEF MapType
    <3> QED BY <2>1, <3>1 DEF Attached
  <2> QED BY <2>2, <2>3
<1>7. Held'
  <2>1. KeepsRules
    BY <1>1 DEF KeepsRules
  <2>2. KeepsAttached
    BY <1>2, <1>6 DEF KeepsAttached, Removing, At
  <2> QED BY <1>5, <2>1, <2>2, HeldStays
<1>8. (Stores(c) /\ Applies(c) /\ Updates(c))'
  BY <1>1, <1>4, NoneAssumption DEF Stores, Applies, Updates, At
<1> QED BY <1>2, <1>4, <1>5, <1>6, <1>7, <1>8, OthersKnow

LEMMA UpdateAclRuleStep ==
  ASSUME Overlap = FALSE, IInv, NEW c \in Client, NEW r \in Rule, NEW content \in Content,
         UpdateAclRule(c, r, content)
  PROVE  IInv'
<1> DEFINE x == [at |-> "updateRule", rule |-> r, content |-> content,
                 acls |-> rulesToAcls[r]]
<1> USE DEF IInv
<1>1. /\ Ready(c) /\ dbRule[r] # None /\ rulesToAcls[r] # None
      /\ call' = [call EXCEPT ![c] = x]
      /\ UNCHANGED <<aclTable, dbRule, dbAcl, rulesToAcls, aclKnown, boot>>
  BY DEF UpdateAclRule, AclsOf, saiVars, dbVars, mgrVars
<1>2. /\ c \in Thread /\ Alone(c) /\ boot = {}
      /\ \A d \in Thread : call[d] = None
  BY <1>1, ReadyAlone
<1>3. rulesToAcls[r] \in Seq(Acl) /\ x \in Call
  BY <1>1 DEF Call, MapType
<1>4. call'[c] = x
  BY <1>1, <1>2 DEF OneCall
<1>5. \A a \in Acl, s \in Rule : ~Removing(a, s)
  BY <1>2 DEF Removing, At
<1>6. Updates(c)'
  <2>1. \A k \in 1..Len(rulesToAcls[r]) : Attached(r, rulesToAcls[r][k])'
    BY <1>1 DEF Attached, Listed
  <2>2. ASSUME NEW i \in 1..MaxTable, NEW j \in 1..MaxEntry,
               Used(i, j), aclTable[i].entries[j].rule = r
        PROVE  Listed(rulesToAcls[r], aclTable[i].name)
    <3>1. InHw(aclTable[i].name, r) /\ aclTable[i].name \in Acl
      BY <2>2, EntryFields DEF InHw, Used
    <3> QED BY <3>1, <1>5 DEF Held, Attached
  <2> QED BY <1>1, <1>4, <2>1, <2>2 DEF Updates, Used
<1>7. (Stores(c) /\ Applies(c))'
  BY <1>4 DEF Stores, Applies, At
<1> HIDE DEF x
<1> QED BY <1>1, <1>2, <1>3, <1>5, <1>6, <1>7, MovesOn DEF MapType, OneCall

LEMMA DeleteAclRuleStep ==
  ASSUME Overlap = FALSE, IInv, NEW c \in Client, NEW r \in Rule, DeleteAclRule(c, r)
  PROVE  IInv'
<1> DEFINE x == [at |-> "storeRule", rule |-> r, content |-> None]
<1> USE DEF IInv
<1>1. /\ Ready(c) /\ rulesToAcls[r] = << >>
      /\ rulesToAcls' = [rulesToAcls EXCEPT ![r] = None]
      /\ call' = [call EXCEPT ![c] = x]
      /\ UNCHANGED <<aclTable, dbRule, dbAcl, aclKnown, boot>>
  BY DEF DeleteAclRule, Deletable, saiVars, dbVars
<1>2. /\ c \in Thread /\ Alone(c) /\ boot = {}
      /\ \A d \in Thread : call[d] = None
  BY <1>1, ReadyAlone
<1>3. x \in Call
  BY DEF Call
<1>4. OneCall' /\ call'[c] = x /\ \A d \in Thread \ {c} : call'[d] = None
  <2> HIDE DEF x
  <2> QED BY <1>1, <1>2, <1>3, CallStep
<1>5. TableType' /\ TablesReachable' /\ NoNewEntries
  BY <1>1, TablesStay
<1>6. MapType'
  BY <1>1 DEF MapType
<1>7. Held'
  <2>1. KeepsRules
    BY <1>1 DEF KeepsRules
  <2>2. \A a : ~Attached(r, a)
    BY <1>1 DEF Attached, Listed
  <2>3. KeepsAttached
    BY <1>1, <1>2, <2>2 DEF KeepsAttached, Attached, Removing, At, MapType
  <2> QED BY <1>5, <2>1, <2>3, HeldStays
<1>8. (Stores(c) /\ Applies(c) /\ Updates(c))'
  BY <1>1, <1>4 DEF Stores, Applies, Updates, At, MapType
<1> QED BY <1>2, <1>4, <1>5, <1>6, <1>7, <1>8, OthersKnow

LEMMA CreateAclStep ==
  ASSUME Overlap = FALSE, IInv, NEW c \in Client, NEW a \in Acl, NEW rules \in SUBSET Rule,
         CreateAcl(c, a, rules) \/ UpdateAcl(c, a, rules)
  PROVE  IInv'
<1> USE DEF IInv
<1>1. PICK old \in SUBSET Rule :
        /\ Ready(c)
        /\ call' = [call EXCEPT ![c] = AclCall(a, rules, old)]
        /\ aclKnown' = aclKnown \cup {a} \/ aclKnown' = aclKnown
        /\ UNCHANGED <<aclTable, dbRule, dbAcl, rulesToAcls, boot>>
  <2>1. CASE CreateAcl(c, a, rules)
    <3>1. /\ Ready(c)
          /\ call' = [call EXCEPT ![c] = AclCall(a, rules, {})]
          /\ aclKnown' = aclKnown \cup {a}
          /\ UNCHANGED <<aclTable, dbRule, dbAcl, rulesToAcls, boot>>
      BY <2>1 DEF CreateAcl, saiVars, dbVars
    <3>2. {} \in SUBSET Rule
      OBVIOUS
    <3> HIDE DEF IInv
    <3> QED BY <3>1, <3>2
  <2>2. CASE UpdateAcl(c, a, rules)
    <3>1. dbAcl[a] \in SUBSET Rule
      BY <2>2 DEF UpdateAcl, MapType
    <3> QED BY <2>2, <3>1 DEF UpdateAcl, saiVars, dbVars, mgrVars
  <2> QED BY <2>1, <2>2
<1> DEFINE x == AclCall(a, rules, old)
<1>2. /\ c \in Thread /\ Alone(c) /\ boot = {}
      /\ \A d \in Thread : call[d] = None
  BY <1>1, ReadyAlone
<1>3. x \in Call /\ x.at = "nextRule"
  BY DEF Call, AclCall
<1>4. call'[c] = x
  BY <1>1, <1>2 DEF OneCall
<1>5. \A b \in Acl, s \in Rule : ~Removing(b, s)
  BY <1>2 DEF Removing, At
<1> HIDE DEF x
<1>6. (Stores(c) /\ Applies(c) /\ Updates(c))'
  BY <1>3, <1>4, KnowsNothing
<1>7. MapType' /\ aclKnown \subseteq aclKnown' /\ boot' = {}
  BY <1>1, <1>2 DEF MapType
<1> QED BY <1>1, <1>2, <1>3, <1>5, <1>6, <1>7, MovesOn DEF x

LEMMA DeleteAclStep ==
  ASSUME Prefix = {}, Overlap = FALSE, IInv, NEW c \in Client, NEW a \in Acl,
         DeleteAcl(c, a)
  PROVE  IInv'
<1> DEFINE x == [at |-> "unstoreAcl", acl |-> a]
<1> USE DEF IInv
<1>1. /\ Ready(c) /\ SaiDeleteAcl(a)
      /\ aclKnown' = aclKnown \ {a}
      /\ call' = [call EXCEPT ![c] = x]
      /\ UNCHANGED <<dbRule, dbAcl, rulesToAcls, boot>>
  BY DEF DeleteAcl, RemoveAcl, dbVars
<1>2. /\ c \in Thread /\ Alone(c) /\ boot = {}
      /\ \A d \in Thread : call[d] = None
  BY <1>1, ReadyAlone
<1>3. x \in Call /\ x.at = "unstoreAcl"
  BY DEF Call
<1> HIDE DEF x
<1>4. OneCall' /\ call'[c] = x /\ \A d \in Thread \ {c} : call'[d] = None
  BY <1>1, <1>2, <1>3, CallStep
<1>5. TableType' /\ TablesReachable' /\ NoNewEntries
  BY <1>1, DeleteAclEffect DEF NoNewEntries
<1>6. MapType'
  BY <1>1 DEF MapType
<1>7. Held'
  <2>1. KeepsRules
    BY <1>1 DEF KeepsRules
  <2>2. KeepsAttached
    BY <1>1, <1>2 DEF KeepsAttached, Attached, Removing, At
  <2> QED BY <1>5, <2>1, <2>2, HeldStays
<1>8. (Stores(c) /\ Applies(c) /\ Updates(c))'
  BY <1>3, <1>4, KnowsNothing
<1> QED BY <1>2, <1>4, <1>5, <1>6, <1>7, <1>8, OthersKnow

-----------------------------------------------------------------------------
(***************************************************************************)
(* The steps of a call in progress.                                        *)
(***************************************************************************)
LEMMA StoreRuleStep ==
  ASSUME IInv, NEW c \in Client, StoreRule(c)
  PROVE  IInv'
<1> USE DEF IInv
<1> DEFINE r == call[c].rule
<1>1. /\ At(c, "storeRule") /\ call[c] # None
      /\ dbRule' = [dbRule EXCEPT ![r] = call[c].content]
      /\ call' = [call EXCEPT ![c] = None]
      /\ UNCHANGED <<aclTable, dbAcl, rulesToAcls, aclKnown, boot>>
  BY DEF StoreRule, Return, At, saiVars, mgrVars
<1>2. c \in Thread
  BY DEF Thread
<1>3. Alone(c) /\ boot = {} /\ \A a, s : ~Removing(a, s)
  BY <1>1, <1>2, AtAlone DEF At
<1>4. r \in Rule /\ call[c].content \in Content \cup {None}
  BY <1>1, <1>2, StoreFields
<1> HIDE DEF r
<1>5. OneCall' /\ call'[c] = None /\ \A d \in Thread \ {c} : call'[d] = None
  BY <1>1, <1>2, <1>3, CallStep
<1>6. TableType' /\ TablesReachable' /\ NoNewEntries
  BY <1>1, TablesStay
<1>7. MapType'
  BY <1>1, <1>4 DEF MapType
<1>8. Held'
  <2>1. call[c].content = None => \A a \in Acl : ~InHw(a, r)
    <3>1. call[c].content = None => rulesToAcls[r] = None
      BY <1>1, <1>2 DEF CallsKnow, Stores, r
    <3> QED BY <3>1, <1>3, <1>4 DEF Held, Attached
  <2>2. KeepsRules
    BY <1>1, <2>1 DEF KeepsRules, MapType
  <2>3. KeepsAttached
    BY <1>1, <1>3 DEF KeepsAttached, Attached
  <2> QED BY <1>6, <2>2, <2>3, HeldStays
<1>9. (Stores(c) /\ Applies(c) /\ Updates(c))'
  BY <1>5, KnowsNothing
<1> QED BY <1>2, <1>5, <1>6, <1>7, <1>8, <1>9, OthersKnow

LEMMA UpdateInNextAclStep ==
  ASSUME Prefix = {}, IInv, NEW c \in Client, UpdateInNextAcl(c)
  PROVE  IInv'
<1> USE DEF IInv
<1>1. /\ At(c, "updateRule") /\ call[c] # None /\ call[c].acls # << >>
      /\ UNCHANGED <<dbRule, dbAcl, rulesToAcls, aclKnown, boot>>
  BY DEF UpdateInNextAcl, At, dbVars, mgrVars
<1>2. c \in Thread
  BY DEF Thread
<1>3. Alone(c) /\ boot = {} /\ \A b, s : ~Removing(b, s)
  BY <1>1, <1>2, AtAlone DEF At
<1>4. PICK r \in Rule, content \in Content, acls \in Seq(Acl) :
        call[c] = [at |-> "updateRule", rule |-> r, content |-> content, acls |-> acls]
  BY <1>1, <1>2, UpdateFields
<1> DEFINE a == Head(acls)
<1>5. /\ dbRule[r] # None
      /\ \A k \in 1..Len(acls) : Attached(r, acls[k])
      /\ \A i \in 1..MaxTable, j \in 1..MaxEntry :
           (Used(i, j) /\ aclTable[i].entries[j].rule = r
              /\ aclTable[i].entries[j].content # content)
             => Listed(acls, aclTable[i].name)
  <2>1. Updates(c)
    BY <1>2 DEF CallsKnow
  <2> QED BY <1>1, <1>4, <2>1 DEF Updates
<1>6. \/ /\ SaiUpdateAclRule(a, r, content)
         /\ call' = [call EXCEPT ![c] =
              [at |-> "updateRule", rule |-> r, content |-> content, acls |-> Tail(acls)]]
      \/ /\ UNCHANGED aclTable
         /\ call' = [call EXCEPT ![c] = None]
  BY <1>4 DEF UpdateInNextAcl, SaiUpdateAclRuleFails, Return, saiVars
<1>7. /\ a \in Acl /\ a = acls[1] /\ Len(acls) \in Nat \ {0}
      /\ Tail(acls) \in Seq(Acl) /\ Len(Tail(acls)) = Len(acls) - 1
      /\ \A k \in 1..Len(acls) - 1 : Tail(acls)[k] = acls[k + 1]
  BY <1>1, <1>4, EmptySeq, HeadTailProperties
<1> HIDE DEF a
<1>8. CASE /\ UNCHANGED aclTable
           /\ call' = [call EXCEPT ![c] = None]
  <2>1. call'[c] = None
    BY <1>2, <1>8 DEF OneCall
  <2>2. (Stores(c) /\ Applies(c) /\ Updates(c))'
    BY <2>1, KnowsNothing
  <2>3. MapType' /\ boot' = {}
    BY <1>1, <1>3 DEF MapType
  <2> QED BY <1>1, <1>2, <1>3, <1>8, <2>2, <2>3, MovesOn
<1>9. CASE /\ SaiUpdateAclRule(a, r, content)
           /\ call' = [call EXCEPT ![c] =
              [at |-> "updateRule", rule |-> r, content |-> content, acls |-> Tail(acls)]]
  <2> DEFINE x == [at |-> "updateRule", rule |-> r, content |-> content, acls |-> Tail(acls)]
  <2>1. call' = [call EXCEPT ![c] = x]
    BY <1>9
  <2>2. x \in Call
    BY <1>4, <1>7 DEF Call
  <2>3. OneCall' /\ call'[c] = x /\ \A d \in Thread \ {c} : call'[d] = None
    <3> HIDE DEF x
    <3> QED BY <1>1, <1>2, <1>3, <2>1, <2>2, CallStep
  <2>4. /\ TableType' /\ TablesReachable'
        /\ EntriesFrom(a, [rule |-> r, content |-> content])
        /\ \A i \in 1..MaxTable, j \in 1..MaxEntry :
             (Used(i, j)' /\ aclTable'[i].name = a /\ aclTable'[i].entries[j].rule = r)
               => aclTable'[i].entries[j].content = content
    BY <1>1, <1>4, <1>7, <1>9, UpdateRuleEffect
  <2>5. MapType'
    BY <1>1 DEF MapType
  <2>6. Attached(r, a)
    BY <1>5, <1>7
  <2>7. Held'
    <3>1. KeepsRules /\ KeepsAttached /\ Attached(r, a)' /\ dbRule'[r] # None
      BY <1>1, <1>3, <1>5, <2>6 DEF KeepsRules, KeepsAttached, Attached
    <3> QED BY <1>4, <1>7, <2>4, <3>1, HeldGrows
  <2>8. Updates(c)'
    <3>1. \A k \in 1..Len(Tail(acls)) : Attached(r, Tail(acls)[k])'
      <4>1. ASSUME NEW k \in 1..Len(Tail(acls))
            PROVE  Attached(r, Tail(acls)[k])
        BY <1>5, <1>7
      <4> QED BY <1>1, <4>1 DEF Attached
    <3>2. ASSUME NEW i \in 1..MaxTable, NEW j \in 1..MaxEntry, Used(i, j)',
                 aclTable'[i].entries[j].rule = r, aclTable'[i].entries[j].content # content
          PROVE  Listed(Tail(acls), aclTable'[i].name)
      <4>1. aclTable'[i].name # a
        BY <2>4, <3>2
      <4>2. /\ Used(i, j) /\ aclTable'[i].name = aclTable[i].name
            /\ aclTable'[i].entries[j] = aclTable[i].entries[j]
        BY <2>4, <3>2, <4>1 DEF EntriesFrom
      <4>3. PICK k \in 1..Len(acls) : acls[k] = aclTable'[i].name
        BY <1>5, <3>2, <4>2 DEF Listed
      <4>4. k # 1
        BY <1>7, <4>1, <4>3
      <4>5. k - 1 \in 1..Len(acls) - 1 /\ (k - 1) + 1 = k
        BY <1>7, <4>4
      <4>6. Tail(acls)[k - 1] = aclTable'[i].name
        BY <1>7, <4>3, <4>5
      <4> QED BY <1>7, <4>5, <4>6 DEF Listed
    <3> QED BY <1>1, <1>5, <2>3, <3>1, <3>2 DEF Updates, Used
  <2>9. (Stores(c) /\ Applies(c))'
    BY <2>3 DEF Stores, Applies, At
  <2> QED BY <1>2, <2>3, <2>4, <2>5, <2>7, <2>8, <2>9, OthersKnow
<1> QED BY <1>6, <1>8, <1>9

LEMMA UpdatedInAclsStep ==
  ASSUME IInv, NEW c \in Client, UpdatedInAcls(c)
  PROVE  IInv'
<1> USE DEF IInv
<1>1. /\ At(c, "updateRule") /\ call[c] # None /\ call[c].acls = << >>
      /\ UNCHANGED <<aclTable, dbRule, dbAcl, rulesToAcls, aclKnown, boot>>
  BY DEF UpdatedInAcls, At, saiVars, dbVars, mgrVars
<1>2. c \in Thread
  BY DEF Thread
<1>3. Alone(c) /\ boot = {} /\ \A b, s : ~Removing(b, s)
  BY <1>1, <1>2, AtAlone DEF At
<1>4. PICK r \in Rule, content \in Content, acls \in Seq(Acl) :
        call[c] = [at |-> "updateRule", rule |-> r, content |-> content, acls |-> acls]
  BY <1>1, <1>2, UpdateFields
<1> DEFINE x == [at |-> "storeRule", rule |-> r, content |-> content]
<1>5. call' = [call EXCEPT ![c] = x] /\ acls = << >>
  BY <1>1, <1>4 DEF UpdatedInAcls
<1>6. \A i \in 1..MaxTable, j \in 1..MaxEntry :
        (Used(i, j) /\ aclTable[i].entries[j].rule = r)
          => aclTable[i].entries[j].content = content
  <2>1. Updates(c) /\ \A a : ~Listed(<< >>, a)
    BY <1>2 DEF CallsKnow, Listed
  <2> QED BY <1>1, <1>4, <1>5, <2>1 DEF Updates
<1>7. x \in Call
  BY DEF Call
<1>8. call'[c] = x
  BY <1>2, <1>5 DEF OneCall
<1>9. Stores(c)'
  BY <1>1, <1>6, <1>8, NoneAssumption DEF Stores, Used
<1>10. (Applies(c) /\ Updates(c))'
  BY <1>8 DEF Applies, Updates, At
<1>11. MapType' /\ boot' = {}
  BY <1>1, <1>3 DEF MapType
<1> HIDE DEF x
<1> QED BY <1>1, <1>2, <1>3, <1>5, <1>7, <1>9, <1>10, <1>11, MovesOn

LEMMA UnstoreAclStep ==
  ASSUME IInv, NEW c \in Client, UnstoreAcl(c)
  PROVE  IInv'
<1> USE DEF IInv
<1>1. /\ At(c, "unstoreAcl") /\ call[c] # None
      /\ dbAcl' = [dbAcl EXCEPT ![call[c].acl] = None]
      /\ call' = [call EXCEPT ![c] = None]
      /\ UNCHANGED <<aclTable, dbRule, rulesToAcls, aclKnown, boot>>
  BY DEF UnstoreAcl, Return, At, saiVars, mgrVars
<1>2. c \in Thread
  BY DEF Thread
<1>3. Alone(c) /\ boot = {} /\ \A b, s : ~Removing(b, s)
  BY <1>1, <1>2, AtAlone DEF At
<1>4. MapType' /\ boot' = {}
  BY <1>1, <1>3 DEF MapType
<1>5. call'[c] = None
  BY <1>1, <1>2 DEF OneCall
<1>6. (Stores(c) /\ Applies(c) /\ Updates(c))'
  BY <1>5, KnowsNothing
<1> QED BY <1>1, <1>2, <1>3, <1>4, <1>6, MovesOn

LEMMA StoreAclStep ==
  ASSUME IInv, NEW c \in Thread, StoreAcl(c)
  PROVE  IInv'
<1> USE DEF IInv
<1>1. /\ At(c, "nextRule") /\ call[c] # None
      /\ dbAcl' = [dbAcl EXCEPT ![call[c].acl] = call[c].rules]
      /\ call' = [call EXCEPT ![c] = None]
      /\ UNCHANGED <<aclTable, dbRule, rulesToAcls, aclKnown, boot>>
  BY DEF StoreAcl, Return, At, saiVars, mgrVars
<1>2. /\ Alone(c)
      /\ c \in Client => boot = {}
      /\ \A b, s : ~Removing(b, s)
  BY <1>1, AtAlone DEF At
<1>3. call[c].acl \in Acl /\ call[c].rules \in SUBSET Rule
  BY <1>1, NextFields
<1>4. MapType'
  BY <1>1, <1>3 DEF MapType
<1>5. boot' \subseteq {a \in Acl : dbAcl'[a] # None}
  BY <1>1, <1>3, NoneCallAssumption DEF MapType, OneCall
<1>6. call'[c] = None
  BY <1>1 DEF OneCall
<1>7. (Stores(c) /\ Applies(c) /\ Updates(c))'
  BY <1>6, KnowsNothing
<1> QED BY <1>1, <1>2, <1>4, <1>5, <1>7, MovesOn

LEMMA LookupRuleStep ==
  ASSUME IInv, NEW c \in Thread, LookupRule(c)
  PROVE  IInv'
<1> USE DEF IInv
<1>1. /\ At(c, "lookup") /\ call[c] # None
      /\ UNCHANGED <<aclTable, dbRule, dbAcl, rulesToAcls, aclKnown, boot>>
  BY DEF LookupRule, At, saiVars, dbVars, mgrVars
<1>2. /\ Alone(c)
      /\ c \in Client => boot = {}
      /\ \A b, s : ~Removing(b, s)
  BY <1>1, AtAlone DEF At
<1>3. PICK r \in Rule, a \in Acl, rules \in SUBSET Rule, add \in SUBSET Rule,
           del \in SUBSET Rule :
        call[c].rule = r /\ call[c].acl = a /\ call[c].rules = rules
          /\ call[c].add = add /\ call[c].del = del
  BY <1>1, NextFields, RuleFields
<1> DEFINE x == [at |-> "apply", acl |-> a, rules |-> rules, add |-> add \ {r},
                 del |-> del, rule |-> r, content |-> dbRule[r]]
<1>4. \/ call' = [call EXCEPT ![c] = None]
      \/ dbRule[r] # None /\ call' = [call EXCEPT ![c] = x]
  BY <1>3 DEF LookupRule, Return
<1>5. Attached(r, a) /\ a \in aclKnown
  <2>1. Applies(c)
    BY DEF CallsKnow
  <2> QED BY <1>1, <1>3, <2>1 DEF Applies
<1>6. MapType' /\ boot' \subseteq {b \in Acl : dbAcl'[b] # None}
  BY <1>1 DEF MapType, OneCall
<1>7. CASE call' = [call EXCEPT ![c] = None]
  <2>1. call'[c] = None
    BY <1>7 DEF OneCall
  <2>2. (Stores(c) /\ Applies(c) /\ Updates(c))'
    BY <2>1, KnowsNothing
  <2> QED BY <1>1, <1>2, <1>6, <1>7, <2>2, MovesOn
<1>8. CASE dbRule[r] # None /\ call' = [call EXCEPT ![c] = x]
  <2>1. x \in Call
    BY <1>8 DEF Call, MapType
  <2>2. call'[c] = x
    BY <1>8 DEF OneCall
  <2>3. Applies(c)'
    BY <1>1, <1>5, <1>8, <2>2 DEF Applies, Attached
  <2>4. (Stores(c) /\ Updates(c))'
    BY <2>2 DEF Stores, Updates, At
  <2> HIDE DEF x
  <2> QED BY <1>1, <1>2, <1>6, <1>8, <2>1, <2>3, <2>4, MovesOn
<1> QED BY <1>4, <1>7, <1>8

\* The ACL is appended to the list of the rule.
LEMMA WithAclAdds ==
  ASSUME NEW acls \in Seq(Acl) \cup {None}, NEW a \in Acl
  PROVE  /\ WithAcl(acls, a) \in Seq(Acl)
         /\ Listed(WithAcl(acls, a), a)
         /\ acls # None => \A b : Listed(acls, b) => Listed(WithAcl(acls, a), b)
<1>1. CASE acls = None
  <2>1. WithAcl(acls, a) = <<a>> /\ <<a>> \in Seq(Acl) /\ Len(<<a>>) = 1 /\ <<a>>[1] = a
    BY <1>1 DEF WithAcl
  <2>2. 1 \in 1..Len(<<a>>)
    BY <2>1
  <2> QED BY <1>1, <2>1, <2>2 DEF Listed
<1>2. CASE acls # None
  <2>1. acls \in Seq(Acl) /\ WithAcl(acls, a) = Append(acls, a)
    BY <1>2 DEF WithAcl
  <2>2. /\ Append(acls, a) \in Seq(Acl)
        /\ Len(Append(acls, a)) = Len(acls) + 1
        /\ \A i \in 1..Len(acls) : Append(acls, a)[i] = acls[i]
        /\ Append(acls, a)[Len(acls) + 1] = a
    BY <2>1, AppendProperties
  <2>3. Len(acls) \in Nat
    BY <2>1, LenProperties
  <2>4. 1..Len(acls) \subseteq 1..Len(Append(acls, a))
        /\ Len(acls) + 1 \in 1..Len(Append(acls, a))
    BY <2>2, <2>3
  <2> QED BY <2>1, <2>2, <2>4 DEF Listed
<1> QED BY <1>1, <1>2

LEMMA AttachRuleStep ==
  ASSUME IInv, NEW c \in Thread, NEW r \in Rule, AttachRule(c, r)
  PROVE  IInv'
<1> USE DEF IInv
<1>1. /\ At(c, "nextRule") /\ call[c] # None
      /\ UNCHANGED <<aclTable, dbRule, dbAcl, boot>>
  BY DEF AttachRule, At, saiVars, dbVars
<1>2. /\ Alone(c)
      /\ c \in Client => boot = {}
      /\ \A b, s : ~Removing(b, s)
  BY <1>1, AtAlone DEF At
<1>3. PICK a \in Acl, rules \in SUBSET Rule, add \in SUBSET Rule, del \in SUBSET Rule :
        call[c].acl = a /\ call[c].rules = rules /\ call[c].add = add /\ call[c].del = del
  BY <1>1, NextFields
<1> DEFINE x == [at |-> "lookup", acl |-> a, rules |-> rules, add |-> add, del |-> del,
                 rule |-> r]
<1>4. /\ call' = [call EXCEPT ![c] = x]
      /\ rulesToAcls' = [rulesToAcls EXCEPT ![r] = WithAcl(@, a)]
      /\ aclKnown' = aclKnown \cup {a}
  BY <1>3 DEF AttachRule
<1>5. x \in Call
  BY DEF Call
<1>6. OneCall' /\ call'[c] = x /\ \A d \in Thread \ {c} : call'[d] = None
  <2>1. boot' \subseteq {b \in Acl : dbAcl'[b] # None}
    BY <1>1 DEF OneCall
  <2> HIDE DEF x
  <2> QED BY <1>1, <1>2, <1>4, <1>5, <2>1, CallStep
<1>7. TableType' /\ TablesReachable' /\ NoNewEntries
  BY <1>1, <1>4, TablesStay
<1>8. /\ MapType'
      /\ Attached(r, a)'
      /\ \A s \in Rule, b \in Acl : Attached(s, b) => Attached(s, b)'
  <2>1. /\ WithAcl(rulesToAcls[r], a) \in Seq(Acl)
        /\ Listed(WithAcl(rulesToAcls[r], a), a)
        /\ rulesToAcls[r] # None => \A b : Listed(rulesToAcls[r], b)
             => Listed(WithAcl(rulesToAcls[r], a), b)
    BY WithAclAdds DEF MapType
  <2>2. \A s \in Rule : rulesToAcls'[s] = IF s = r THEN WithAcl(rulesToAcls[r], a)
                                          ELSE rulesToAcls[s]
    BY <1>4 DEF MapType
  <2>3. MapType'
    BY <1>1, <1>4, <2>1 DEF MapType
  <2> QED BY <2>1, <2>2, <2>3, NoneCallAssumption DEF Attached
<1>9. Held'
  <2>1. KeepsRules /\ KeepsAttached
    BY <1>1, <1>2, <1>8 DEF KeepsRules, KeepsAttached
  <2> QED BY <1>7, <2>1, HeldStays
<1>10. Applies(c)'
  BY <1>4, <1>6, <1>8 DEF Applies, At
<1>11. (Stores(c) /\ Updates(c))'
  BY <1>6 DEF Stores, Updates, At
<1> QED BY <1>6, <1>7, <1>8, <1>9, <1>10, <1>11, OthersKnow

LEMMA ApplyRuleStep ==
  ASSUME Prefix = {}, IInv, NEW c \in Thread, ApplyRule(c)
  PROVE  IInv'
<1> USE DEF IInv
<1>1. /\ At(c, "apply") /\ call[c] # None
      /\ UNCHANGED <<dbRule, dbAcl, rulesToAcls, aclKnown, boot>>
  BY DEF ApplyRule, At, dbVars
<1>2. /\ Alone(c)
      /\ c \in Client => boot = {}
      /\ \A b, s : ~Removing(b, s)
  BY <1>1, AtAlone DEF At
<1>3. PICK r \in Rule, content \in Content, a \in Acl, rules \in SUBSET Rule,
           add \in SUBSET Rule, del \in SUBSET Rule :
        /\ call[c].rule = r /\ call[c].content = content /\ call[c].acl = a
        /\ call[c].rules = rules /\ call[c].add = add /\ call[c].del = del
  BY <1>1, NextFields, RuleFields
<1> DEFINE x == [at |-> "nextRule", acl |-> a, rules |-> rules, add |-> add, del |-> del]
<1>4. \/ SaiProcessAcl(a, r, content) /\ call' = [call EXCEPT ![c] = x]
      \/ UNCHANGED aclTable /\ call' = [call EXCEPT ![c] = None]
  BY <1>3 DEF ApplyRule, NextRule, Return, SaiProcessAclFails, saiVars
<1>5. Attached(r, a) /\ a \in aclKnown /\ dbRule[r] # None
  <2>1. Applies(c)
    BY DEF CallsKnow
  <2> QED BY <1>1, <1>3, <2>1 DEF Applies
<1>6. MapType' /\ boot' \subseteq {b \in Acl : dbAcl'[b] # None}
  BY <1>1 DEF MapType, OneCall
<1>7. CASE UNCHANGED aclTable /\ call' = [call EXCEPT ![c] = None]
  <2>1. call'[c] = None
    BY <1>7 DEF OneCall
  <2>2. (Stores(c) /\ Applies(c) /\ Updates(c))'
    BY <2>1, KnowsNothing
  <2> QED BY <1>1, <1>2, <1>6, <1>7, <2>2, MovesOn
<1>8. CASE SaiProcessAcl(a, r, content) /\ call' = [call EXCEPT ![c] = x]
  <2>1. x \in Call /\ x.at = "nextRule"
    BY DEF Call
  <2> HIDE DEF x
  <2>2. OneCall' /\ call'[c] = x /\ \A d \in Thread \ {c} : call'[d] = None
    BY <1>1, <1>2, <1>6, <1>8, <2>1, CallStep
  <2>3. /\ TableType' /\ TablesReachable'
        /\ EntriesFrom(a, [rule |-> r, content |-> content])
    BY <1>1, <1>5, <1>8, ProcessEffect
  <2>4. Held'
    <3>1. KeepsRules /\ KeepsAttached /\ Attached(r, a)' /\ dbRule'[r] # None
      BY <1>1, <1>2, <1>5 DEF KeepsRules, KeepsAttached, Attached
    <3> QED BY <2>3, <3>1, HeldGrows
  <2>5. (Stores(c) /\ Applies(c) /\ Updates(c))'
    BY <2>1, <2>2, KnowsNothing
  <2> QED BY <1>6, <2>2, <2>3, <2>4, <2>5, OthersKnow
<1> QED BY <1>4, <1>7, <1>8

LEMMA DetachRuleStep ==
  ASSUME IInv, NEW c \in Thread, NEW r \in Rule, DetachRule(c, r)
  PROVE  IInv'
<1> USE DEF IInv
<1>1. /\ At(c, "nextRule") /\ call[c] # None
      /\ UNCHANGED <<aclTable, dbRule, dbAcl, aclKnown, boot>>
  BY DEF DetachRule, At, saiVars, dbVars
<1>2. /\ Alone(c)
      /\ c \in Client => boot = {}
      /\ \A b, s : ~Removing(b, s)
  BY <1>1, AtAlone DEF At
<1>3. PICK a \in Acl, rules \in SUBSET Rule, del \in SUBSET Rule :
        call[c].acl = a /\ call[c].rules = rules /\ call[c].del = del
  BY <1>1, NextFields
<1> DEFINE x == [at |-> "remove", acl |-> a, rules |-> rules, add |-> {},
                 del |-> del \ {r}, rule |-> r]
<1>4. /\ call' = [call EXCEPT ![c] = x]
      /\ rulesToAcls' = [rulesToAcls EXCEPT ![r] =
                           IF @ = None THEN @ ELSE WithoutAcl(@, a)]
  BY <1>3 DEF DetachRule
<1>5. x \in Call
  BY DEF Call
<1>6. OneCall' /\ call'[c] = x /\ \A d \in Thread \ {c} : call'[d] = None
  <2>1. boot' \subseteq {b \in Acl : dbAcl'[b] # None}
    BY <1>1 DEF OneCall
  <2> HIDE DEF x
  <2> QED BY <1>1, <1>2, <1>4, <1>5, <2>1, CallStep
<1>7. TableType' /\ TablesReachable' /\ NoNewEntries
  BY <1>1, TablesStay
<1>8. /\ MapType'
      /\ \A s \in Rule, b \in Acl :
           (Attached(s, b) /\ ~(s = r /\ b = a)) => Attached(s, b)'
  <2>1. \A s \in Rule : rulesToAcls'[s] =
          IF s # r \/ rulesToAcls[s] = None THEN rulesToAcls[s]
          ELSE WithoutAcl(rulesToAcls[s], a)
    BY <1>4 DEF MapType
  <2>2. CASE rulesToAcls[r] = None
    BY <1>1, <1>4, <2>1, <2>2 DEF MapType, Attached
  <2>3. CASE rulesToAcls[r] # None
    <3>1. /\ WithoutAcl(rulesToAcls[r], a) \in Seq(Acl)
          /\ \A b \in Acl \ {a} : Listed(rulesToAcls[r], b)
               => Listed(WithoutAcl(rulesToAcls[r], a), b)
      BY <2>3, WithoutAclKeeps DEF MapType
    <3>2. MapType'
      BY <1>1, <1>4, <2>3, <3>1 DEF MapType
    <3> QED BY <2>1, <3>1, <3>2, NoneCallAssumption DEF Attached
  <2> QED BY <2>2, <2>3
<1>9. Held'
  <2>1. Removing(a, r)'
    BY <1>6, <1>5, NoneCallAssumption DEF Removing, At
  <2>2. KeepsRules /\ KeepsAttached
    BY <1>1, <1>2, <1>8, <2>1 DEF KeepsRules, KeepsAttached
  <2> QED BY <1>7, <2>2, HeldStays
<1>10. (Stores(c) /\ Applies(c) /\ Updates(c))'
  BY <1>6, KnowsNothing
<1> QED BY <1>6, <1>7, <1>8, <1>9, <1>10, OthersKnow

LEMMA RemoveRuleStep ==
  ASSUME Prefix = {}, IInv, NEW c \in Thread, RemoveRule(c)
  PROVE  IInv'
<1> USE DEF IInv
<1>1. /\ At(c, "remove") /\ call[c] # None
      /\ UNCHANGED <<dbRule, dbAcl, rulesToAcls, aclKnown, boot>>
  BY DEF RemoveRule, At, dbVars, mgrVars
<1>2. PICK r \in Rule, a \in Acl, rules \in SUBSET Rule, add \in SUBSET Rule,
           del \in SUBSET Rule :
        /\ call[c].rule = r /\ call[c].acl = a
        /\ call[c].rules = rules /\ call[c].add = add /\ call[c].del = del
  BY <1>1, NextFields, RuleFields
<1>3. /\ Alone(c)
      /\ c \in Client => boot = {}
      /\ \A b, s : Removing(b, s) => b = a /\ s = r
  BY <1>1, <1>2, AtAlone
<1> DEFINE x == [at |-> "nextRule", acl |-> a, rules |-> rules, add |-> add, del |-> del]
<1>4. \/ /\ dbRule[r] = None /\ UNCHANGED aclTable
         /\ call' = [call EXCEPT ![c] = x]
      \/ SaiDeleteAclRuleFromAcl(a, r) /\ call' = [call EXCEPT ![c] = x]
      \/ /\ Found(a) = {} /\ UNCHANGED aclTable
         /\ call' = [call EXCEPT ![c] = None]
  BY <1>2 DEF RemoveRule, NextRule, Return, saiVars
<1>5. MapType' /\ boot' \subseteq {b \in Acl : dbAcl'[b] # None}
  BY <1>1 DEF MapType, OneCall
<1>6. x \in Call /\ x.at = "nextRule"
  BY DEF Call
<1> HIDE DEF x
<1>7. CASE /\ dbRule[r] = None /\ UNCHANGED aclTable
           /\ call' = [call EXCEPT ![c] = x]
  <2>1. \A b \in Acl, s \in Rule : Removing(b, s) => ~InHw(b, s)
    BY <1>3, <1>7 DEF Held
  <2>2. (Stores(c) /\ Applies(c) /\ Updates(c))'
    BY <1>6, <1>7, KnowsNothing DEF OneCall
  <2> QED BY <1>1, <1>3, <1>5, <1>6, <1>7, <2>1, <2>2, MovesOn
<1>8. CASE SaiDeleteAclRuleFromAcl(a, r) /\ call' = [call EXCEPT ![c] = x]
  <2>1. OneCall' /\ call'[c] = x /\ \A d \in Thread \ {c} : call'[d] = None
    BY <1>1, <1>3, <1>5, <1>6, <1>8, CallStep
  <2>2. /\ TableType' /\ TablesReachable'
        /\ \A i \in 1..MaxTable, j \in 1..MaxEntry : Used(i, j)' =>
             /\ Used(i, j)
             /\ aclTable'[i].name = aclTable[i].name
             /\ aclTable'[i].entries[j] = aclTable[i].entries[j]
             /\ aclTable[i].name = a => aclTable[i].entries[j].rule # r
    BY <1>1, <1>8, DeleteRuleEffect
  <2>3. Held'
    <3> SUFFICES ASSUME NEW b \in Acl, NEW s \in Rule, InHw(b, s)'
                 PROVE  dbRule'[s] # None /\ Attached(s, b)'
      BY DEF Held
    <3>1. InHw(b, s) /\ ~(b = a /\ s = r)
      BY <2>2 DEF InHw, Used
    <3>2. dbRule[s] # None /\ Attached(s, b)
      BY <1>3, <3>1 DEF Held
    <3> QED BY <1>1, <3>2 DEF Attached
  <2>4. (Stores(c) /\ Applies(c) /\ Updates(c))'
    BY <1>6, <2>1, KnowsNothing
  <2> QED BY <1>5, <2>1, <2>2, <2>3, <2>4, OthersKnow
<1>9. CASE /\ Found(a) = {} /\ UNCHANGED aclTable
           /\ call' = [call EXCEPT ![c] = None]
  <2>1. ~InHw(a, r)
    BY <1>9, NotFound DEF InHw
  <2>2. \A b \in Acl, s \in Rule : Removing(b, s) => ~InHw(b, s)
    BY <1>3, <2>1
  <2>3. (Stores(c) /\ Applies(c) /\ Updates(c))'
    BY <1>9, KnowsNothing DEF OneCall
  <2> QED BY <1>1, <1>3, <1>5, <1>9, <2>2, <2>3, MovesOn
<1> QED BY <1>4, <1>7, <1>8, <1>9

-----------------------------------------------------------------------------
(***************************************************************************)
(* The process starts again.                                               *)
(***************************************************************************)
LEMMA RestartStep ==
  ASSUME IInv, Restart
  PROVE  IInv'
<1> USE DEF IInv
<1>1. /\ aclTable' = [i \in 1..MaxTable |-> None]
      /\ rulesToAcls' = RestoredRules /\ aclKnown' = {}
      /\ call' = [c \in Thread |-> None]
      /\ boot' = {a \in Acl : dbAcl[a] # None}
      /\ UNCHANGED <<dbRule, dbAcl>>
  BY DEF Restart, Thread, dbVars
<1>2. TableType' /\ TablesReachable'
  BY <1>1 DEF TableType, TablesReachable
<1>3. MapType'
  <2>1. << >> \in Seq(Acl)
    OBVIOUS
  <2> QED BY <1>1, <2>1 DEF MapType, RestoredRules
<1>4. Held'
  BY <1>1 DEF Held, InHw
<1>5. OneCall'
  BY <1>1 DEF OneCall, Thread
<1>6. CallsKnow'
  BY <1>1 DEF CallsKnow, Stores, Applies, Updates, At
<1> QED BY <1>2, <1>3, <1>4, <1>5, <1>6

LEMMA RestoreAclStep ==
  ASSUME IInv, NEW a \in Acl, RestoreAcl(a)
  PROVE  IInv'
<1> USE DEF IInv
<1>1. /\ a \in boot /\ call[Boot] = None /\ boot' = boot \ {a}
      /\ UNCHANGED <<aclTable, dbRule, dbAcl, rulesToAcls>>
  BY DEF RestoreAcl, saiVars, dbVars
<1>2. Boot \in Thread /\ Boot \notin Client /\ \A c \in Thread : call[c] = None
  BY <1>1, BootAssumption DEF OneCall, Thread
<1>3. Alone(Boot) /\ \A b, s : ~Removing(b, s)
  BY <1>2 DEF Alone, Removing, At
<1> DEFINE x == AclCall(a, dbAcl[a], {})
<1>4. PICK y \in Call \cup {None} :
        /\ call' = [call EXCEPT ![Boot] = y]
        /\ y = None \/ y.at = "nextRule"
        /\ aclKnown' = aclKnown \/ aclKnown' = aclKnown \cup {a}
  <2>1. CASE dbAcl[a] = {} /\ UNCHANGED <<aclKnown, call>>
    <3>1. call' = [call EXCEPT ![Boot] = None]
      BY <1>1, <1>2, <2>1 DEF OneCall
    <3> QED BY <2>1, <3>1
  <2>2. CASE /\ dbAcl[a] # {} /\ aclKnown' = aclKnown \cup {a}
             /\ call' = [call EXCEPT ![Boot] = x]
    <3>1. dbAcl[a] \in SUBSET Rule
      BY <1>1 DEF MapType, OneCall
    <3>2. x \in Call /\ x.at = "nextRule"
      BY <3>1 DEF Call, AclCall
    <3> QED BY <2>2, <3>2
  <2> QED BY <2>1, <2>2 DEF RestoreAcl
<1>5. call'[Boot] = y
  BY <1>2, <1>4 DEF OneCall
<1>6. (Stores(Boot) /\ Applies(Boot) /\ Updates(Boot))'
  BY <1>4, <1>5, KnowsNothing
<1>7. MapType' /\ aclKnown \subseteq aclKnown'
  BY <1>1, <1>4 DEF MapType
<1>8. boot' \subseteq {b \in Acl : dbAcl'[b] # None}
  BY <1>1 DEF OneCall
<1> QED BY <1>1, <1>2, <1>3, <1>4, <1>6, <1>7, <1>8, MovesOn

-----------------------------------------------------------------------------
(***************************************************************************)
(* The theorems.                                                           *)
(***************************************************************************)
LEMMA InitIInv ==
  ASSUME Init
  PROVE  IInv
<1>1. /\ aclTable = [i \in 1..MaxTable |-> None]
      /\ dbRule = [r \in Rule |-> None] /\ dbAcl = [a \in Acl |-> None]
      /\ rulesToAcls = [r \in Rule |-> None] /\ aclKnown = {}
      /\ call = [c \in Thread |-> None] /\ boot = {}
  BY DEF Init, SaiInitAcl, Thread
<1>2. TableType /\ MapType /\ OneCall
  BY <1>1 DEF TableType, MapType, OneCall
<1>3. TablesReachable /\ Held /\ CallsKnow
  BY <1>1 DEF TablesReachable, Held, InHw, CallsKnow, Stores, Applies, Updates, At
<1> QED BY <1>2, <1>3 DEF IInv

LEMMA NextIInv ==
  ASSUME Prefix = {}, Overlap = FALSE, IInv, [Next]_vars
  PROVE  IInv'
<1>1. ASSUME NEW c \in Client, NEW r \in Rule, NEW content \in Content,
             CreateAclRule(c, r, content) \/ UpdateAclRule(c, r, content)
      PROVE  IInv'
  BY <1>1, CreateAclRuleStep, UpdateAclRuleStep
<1>2. ASSUME NEW c \in Client, NEW r \in Rule, DeleteAclRule(c, r)
      PROVE  IInv'
  BY <1>2, DeleteAclRuleStep
<1>3. ASSUME NEW c \in Client, NEW a \in Acl, NEW rules \in SUBSET Rule,
             CreateAcl(c, a, rules) \/ UpdateAcl(c, a, rules)
      PROVE  IInv'
  BY <1>3, CreateAclStep
<1>4. ASSUME NEW c \in Client, NEW a \in Acl, DeleteAcl(c, a)
      PROVE  IInv'
  BY <1>4, DeleteAclStep
<1>5. ASSUME NEW c \in Client,
             StoreRule(c) \/ UpdateInNextAcl(c) \/ UpdatedInAcls(c) \/ UnstoreAcl(c)
      PROVE  IInv'
  BY <1>5, StoreRuleStep, UpdateInNextAclStep, UpdatedInAclsStep, UnstoreAclStep
<1>6. ASSUME NEW c \in Thread, NEW r \in Rule, AttachRule(c, r) \/ DetachRule(c, r)
      PROVE  IInv'
  BY <1>6, AttachRuleStep, DetachRuleStep
<1>7. ASSUME NEW c \in Thread,
             LookupRule(c) \/ ApplyRule(c) \/ RemoveRule(c) \/ StoreAcl(c)
      PROVE  IInv'
  BY <1>7, LookupRuleStep, ApplyRuleStep, RemoveRuleStep, StoreAclStep
<1>8. ASSUME NEW a \in Acl, RestoreAcl(a)
      PROVE  IInv'
  BY <1>8, RestoreAclStep
<1>9. CASE UNCHANGED vars
  <2>1. UNCHANGED <<aclTable, dbRule, dbAcl, rulesToAcls, aclKnown, call, boot>>
    BY <1>9 DEF vars, saiVars, dbVars, mgrVars
  <2>2. TableType' /\ MapType' /\ OneCall'
    BY <2>1 DEF IInv, TableType, MapType, OneCall
  <2>3. TablesReachable'
    BY <2>1 DEF IInv, TablesReachable
  <2>4. Held'
    BY <2>1 DEF IInv, Held, InHw, Attached, Removing, At
  <2>5. CallsKnow'
    BY <2>1 DEF IInv, CallsKnow, Stores, Applies, Updates, At, Used, Attached
  <2> QED BY <2>2, <2>3, <2>4, <2>5 DEF IInv
<1> QED BY <1>1, <1>2, <1>3, <1>4, <1>5, <1>6, <1>7, <1>8, <1>9, RestartStep
        DEF Next, Thread

\* When calls do not overlap and no name is a prefix of another, IInv holds.
LEMMA Inductive ==
  ASSUME Prefix = {}, Overlap = FALSE
  PROVE  Spec => []IInv
<1>1. Init => IInv
  BY InitIInv
<1>2. IInv /\ [Next]_vars => IInv'
  BY NextIInv
<1> QED BY <1>1, <1>2, PTL DEF Spec

\* SaiProcessAcl creates the table of an ACL once, after its name has entered
\* aclKeyToRulesMap, and DeleteAcl takes both away: every table can be reached.
THEOREM TablesAreReachable ==
  ASSUME Prefix = {}, Overlap = FALSE
  PROVE  Spec => []TablesReachable
<1>1. IInv => TablesReachable
  BY DEF IInv
<1> QED BY <1>1, Inductive, PTL

\* Whatever calls failed or were cut short by a restart: between calls a rule
\* with an entry in the ASIC is in the database and attached in
\* ruleToAclKeyMap, so that DeleteAclRule refuses it.
THEOREM RulesAreKept ==
  ASSUME Prefix = {}, Overlap = FALSE
  PROVE  Spec => []RulesInHwKept
<1>1. IInv => RulesInHwKept
  <2> SUFFICES ASSUME IInv, Quiet, NEW a \in Acl, NEW r \in Rule, InHw(a, r)
               PROVE  dbRule[r] # None /\ Attached(r, a)
    BY DEF RulesInHwKept, Attached, Listed
  <2>1. ~Removing(a, r)
    BY DEF Removing, At, Quiet, Thread
  <2> QED BY <2>1 DEF IInv, Held
<1> QED BY <1>1, Inductive, PTL

\* When the client stores an updated rule, UpdateAclRuleConfig has changed it in
\* every table that holds an entry of it.
THEOREM UpdatesAreApplied ==
  ASSUME Prefix = {}, Overlap = FALSE
  PROVE  Spec => UpdatesReachHw
<1> DEFINE Reaches ==
      \A r \in Rule : (None \notin {dbRule[r], dbRule'[r]} /\ dbRule[r] # dbRule'[r]) =>
        \A i \in 1..MaxTable, j \in 1..MaxEntry :
          (aclTable[i] # None /\ aclTable[i].entries[j] # None
             /\ aclTable[i].entries[j].rule = r)
            => aclTable[i].entries[j].content = dbRule'[r]
<1>1. ASSUME IInv, [Next]_vars
      PROVE  [Reaches]_vars
  <2>1. ASSUME NEW c \in Client, StoreRule(c)
        PROVE  Reaches
    <3> SUFFICES ASSUME NEW r \in Rule, None \notin {dbRule[r], dbRule'[r]},
                        dbRule[r] # dbRule'[r],
                        NEW i \in 1..MaxTable, NEW j \in 1..MaxEntry, Used(i, j),
                        aclTable[i].entries[j].rule = r
                 PROVE  aclTable[i].entries[j].content = dbRule'[r]
      BY DEF Used
    <3>1. /\ At(c, "storeRule")
          /\ dbRule' = [dbRule EXCEPT ![call[c].rule] = call[c].content]
      BY <2>1 DEF StoreRule
    <3>2. call[c].rule = r /\ call[c].content = dbRule'[r]
      BY <1>1, <3>1 DEF IInv, MapType
    <3>3. Stores(c)
      BY <1>1 DEF IInv, CallsKnow, Thread
    <3> QED BY <3>1, <3>2, <3>3 DEF Stores
  <2>2. CASE UNCHANGED dbRule
    BY <2>2
  <2>3. (\E c \in Client : StoreRule(c)) \/ UNCHANGED dbRule
    BY <1>1 DEF Next, vars, dbVars, CreateAclRule, UpdateAclRule, DeleteAclRule, CreateAcl,
           UpdateAcl, DeleteAcl, UpdateInNextAcl, UpdatedInAcls, UnstoreAcl, AttachRule,
           DetachRule, LookupRule, ApplyRule, RemoveRule, StoreAcl, Restart, RestoreAcl
  <2> QED BY <2>1, <2>2, <2>3
<1>2. UpdatesReachHw <=> [][Reaches]_vars
  BY DEF UpdatesReachHw
<1> QED BY <1>1, <1>2, Inductive, PTL DEF Spec

-----------------------------------------------------------------------------
(***************************************************************************)
(* What was configured is in the ASIC: the parts of the invariant.         *)
(***************************************************************************)
UsedPlaces == {i \in 1..MaxTable : aclTable[i] # None}

\* aclTableCount counts the tables, and since the last start those that are
\* gone as well.
Counted ==
  /\ aclTableCount \in 0..MaxTable
  /\ Cardinality(UsedPlaces) <= aclTableCount
  /\ Booting => aclTableCount = Cardinality(UsedPlaces)

Accepted(r) == dbRule[r] \notin Refused \cup {None}

\* Init can apply what is in the database.
Restorable ==
  \A a \in Acl : dbAcl[a] # None =>
    /\ IsFiniteSet(dbAcl[a]) /\ Cardinality(dbAcl[a]) <= MaxEntry
    /\ \A r \in dbAcl[a] : Accepted(r)

\* A call that applies or removes rules of an ACL.
Working(c) == call[c] # None /\ call[c].at \in {"nextRule", "lookup", "apply", "remove"}

\* The ACLs that need not be complete: Init has not applied them yet, or rules
\* are being removed.
Changing(a) ==
  \/ a \in boot
  \/ Working(Boot) /\ call[Boot].acl = a
  \/ \E c \in Client :
       /\ \/ At(c, "unstoreAcl")
          \/ (At(c, "nextRule") \/ At(c, "remove")) /\ call[c].add = {}
       /\ call[c].acl = a

Complete(a) ==
  dbAcl[a] \notin {None, {}} => a \in aclKnown /\ \A r \in dbAcl[a] : InHw(a, r)

Configured == \A a \in Acl : Complete(a) \/ Changing(a)

\* What a call on an ACL has done so far.
Works(c) == Working(c) =>
  /\ call[c].acl \in aclKnown
  /\ call[c].add \subseteq call[c].rules
  /\ call[c].del \cap call[c].rules = {}
  /\ At(c, "lookup") => call[c].rule \in call[c].add
  /\ At(c, "apply") => /\ call[c].rule \in call[c].rules \ call[c].add
                       /\ call[c].content = dbRule[call[c].rule]
  /\ At(c, "remove") => call[c].rule \notin call[c].rules /\ call[c].add = {}
  /\ (call[c].del # {} \/ At(c, "remove")) => Found(call[c].acl) # {}
  /\ \A r \in call[c].rules \ call[c].add :
       \/ At(c, "apply") /\ r = call[c].rule
       \/ InHw(call[c].acl, r) /\ Accepted(r)

InNoAcl(r) == \A a \in Acl : dbAcl[a] # None => r \notin dbAcl[a]

\* A content the plugin refuses is stored for no rule of a stored ACL.
Checks(c) ==
  /\ (At(c, "storeRule") /\ call[c].content \in Refused \cup {None})
       => InNoAcl(call[c].rule)
  /\ (At(c, "updateRule") /\ call[c].content \in Refused /\ call[c].acls = << >>)
       => InNoAcl(call[c].rule)

\* Init applies each ACL to an empty table, and each rule once.
Restoring ==
  /\ boot \cap aclKnown = {}
  /\ call[Boot] # None =>
       /\ call[Boot].at \in {"nextRule", "lookup", "apply"}
       /\ call[Boot].del = {}
       /\ call[Boot].rules = dbAcl[call[Boot].acl]
       /\ \A i \in 1..MaxTable, j \in 1..MaxEntry :
            (Used(i, j) /\ aclTable[i].name = call[Boot].acl) =>
              /\ aclTable[i].entries[j].rule \in call[Boot].rules \ call[Boot].add
              /\ At(Boot, "apply") => aclTable[i].entries[j].rule # call[Boot].rule
              /\ \A k \in 1..MaxEntry :
                   (Used(i, k) /\ aclTable[i].entries[k].rule = aclTable[i].entries[j].rule)
                     => k = j

CInv ==
  /\ Counted /\ Restorable /\ Configured /\ Restoring
  /\ \A c \in Thread : Works(c) /\ Checks(c)

-----------------------------------------------------------------------------
(***************************************************************************)
(* Places of tables and of entries.                                        *)
(***************************************************************************)
\* The places in use are finitely many, one more when one is taken.
LEMMA PlacesFinite ==
  /\ IsFiniteSet(UsedPlaces) /\ Cardinality(UsedPlaces) \in Nat
  /\ IsFiniteSet(1..MaxTable) /\ Cardinality(1..MaxTable) = MaxTable
  /\ IsFiniteSet(1..MaxEntry) /\ Cardinality(1..MaxEntry) = MaxEntry
<1>1. /\ IsFiniteSet(1..MaxTable) /\ Cardinality(1..MaxTable) = MaxTable
      /\ IsFiniteSet(1..MaxEntry) /\ Cardinality(1..MaxEntry) = MaxEntry
  BY SizeAssumption, FS_Interval
<1>2. UsedPlaces \in SUBSET (1..MaxTable)
  BY DEF UsedPlaces
<1> HIDE DEF UsedPlaces
<1>3. IsFiniteSet(UsedPlaces)
  BY <1>1, <1>2, FS_Subset
<1> QED BY <1>1, <1>3, FS_CardinalityType

\* While a table can be added there is a place for it.
LEMMA PlaceFree ==
  ASSUME Counted, ~AtTableLimit
  PROVE  First(FreePlaces) \in FreePlaces
<1>1. FreePlaces \in SUBSET Nat
  BY SizeAssumption DEF FreePlaces
<1>2. FreePlaces # {}
  <2> SUFFICES ASSUME FreePlaces = {}
               PROVE  FALSE
    OBVIOUS
  <2>1. UsedPlaces = 1..MaxTable
    BY DEF UsedPlaces, FreePlaces
  <2> QED BY <2>1, PlacesFinite, SizeAssumption DEF Counted, AtTableLimit
<1> QED BY <1>1, <1>2, FirstIsFound

\* The entry goes to a free place: the others stay.
LEMMA WithEntryAdds ==
  ASSUME NEW t \in Table, NEW r \in Rule, NEW content \in Content, FreeEntries(t) # {}
  PROVE  \E f \in FreeEntries(t) :
           /\ WithEntry(t, r, content).entries[f] = [rule |-> r, content |-> content]
           /\ \A j \in 1..MaxEntry \ {f} :
                WithEntry(t, r, content).entries[j] = t.entries[j]
<1> DEFINE e == [rule |-> r, content |-> content]
           f == First(FreeEntries(t))
<1>1. FreeEntries(t) \in SUBSET Nat
  BY SizeAssumption DEF FreeEntries
<1>2. f \in FreeEntries(t) /\ f \in 1..MaxEntry
  BY <1>1, FirstIsFound DEF FreeEntries
<1>3. WithEntry(t, r, content) = [t EXCEPT !.entries = [t.entries EXCEPT ![f] = e]]
  BY DEF WithEntry
<1> HIDE DEF e, f
<1>4. WithEntry(t, r, content).entries = [t.entries EXCEPT ![f] = e]
  BY <1>3 DEF Table
<1>5. [t.entries EXCEPT ![f] = e][f] = e
  BY <1>2 DEF Table
<1>6. \A j \in 1..MaxEntry \ {f} : [t.entries EXCEPT ![f] = e][j] = t.entries[j]
  BY DEF Table
<1> QED BY <1>2, <1>4, <1>5, <1>6 DEF e

LEMMA WithoutRuleLeaves ==
  ASSUME Prefix = {}, NEW t \in Table, NEW r \in Rule
  PROVE  \A j \in 1..MaxEntry : (t.entries[j] # None /\ t.entries[j].rule # r)
           => WithoutRule(t, r).entries[j] = t.entries[j]
<1> DEFINE es == [j \in 1..MaxEntry |->
                    IF t.entries[j] # None /\ Matches(r, t.entries[j].rule) THEN None
                    ELSE t.entries[j]]
<1>1. WithoutRule(t, r) = [t EXCEPT !.entries = es]
  BY DEF WithoutRule
<1>2. \A j \in 1..MaxEntry : (t.entries[j] # None /\ t.entries[j].rule # r)
        => es[j] = t.entries[j]
  BY DEF Matches
<1> HIDE DEF es
<1>3. WithoutRule(t, r).entries = es
  BY <1>1 DEF Table
<1> QED BY <1>2, <1>3
-----------------------------------------------------------------------------
(***************************************************************************)
(* What the plugin leaves in the tables.                                   *)
(***************************************************************************)
\* An entry of a table is there after the step.
Stays(i, j) ==
  /\ Used(i, j)'
  /\ aclTable'[i].name = aclTable[i].name
  /\ aclTable'[i].entries[j] = aclTable[i].entries[j]

\* r has an entry in a table of a, and has one after the step.
KeepsHw(a, r) == InHw(a, r) => InHw(a, r)'

LEMMA StaysKeepsHw ==
  ASSUME NEW a \in Acl, NEW r \in Rule,
         \A i \in 1..MaxTable, j \in 1..MaxEntry :
           (Used(i, j) /\ aclTable[i].name = a /\ aclTable[i].entries[j].rule = r)
             => Stays(i, j)
  PROVE  KeepsHw(a, r)
BY DEF KeepsHw, InHw, Used, Stays

\* The new entry takes a free place; the others stay, and none is new.
AddsOne(a, e) ==
  \E p \in 1..MaxTable, f \in 1..MaxEntry :
    /\ ~Used(p, f) /\ Used(p, f)'
    /\ aclTable'[p].name = a /\ aclTable'[p].entries[f] = e
    /\ \A i \in 1..MaxTable, j \in 1..MaxEntry :
         /\ Used(i, j) => Stays(i, j)
         /\ (Used(i, j)' /\ ~(i = p /\ j = f)) => Used(i, j)

LEMMA ProcessAdds ==
  ASSUME Prefix = {}, TableType, TablesReachable, Counted,
         NEW a \in Acl, NEW r \in Rule, NEW content \in Content,
         SaiProcessAcl(a, r, content)
  PROVE  /\ AddsOne(a, [rule |-> r, content |-> content])
         /\ Found(a)' # {}
         /\ UsedPlaces' = UsedPlaces \cup {TableForEntry(a)}
         /\ TableForEntry(a) \in UsedPlaces <=> Found(a) # {}
<1> DEFINE p == TableForEntry(a)
           t == TableOrEmpty(a)
           u == WithEntry(t, r, content)
           e == [rule |-> r, content |-> content]
<1>1. /\ aclTable' = [aclTable EXCEPT ![p] = u]
      /\ ~AtTableLimit /\ FreeEntries(t) # {}
  BY DEF SaiProcessAcl
<1>2. /\ p \in 1..MaxTable /\ t \in Table /\ t.name = a
      /\ \/ Found(a) = {} /\ aclTable[p] = None /\ \A j \in 1..MaxEntry : t.entries[j] = None
         \/ Found(a) # {} /\ aclTable[p] # None /\ aclTable[p] = t
  <2>1. CASE Found(a) = {}
    <3>1. p = First(FreePlaces) /\ t = EmptyTable(a)
      BY <2>1 DEF TableForEntry, TableOrEmpty
    <3>2. First(FreePlaces) \in FreePlaces
      BY <1>1, PlaceFree
    <3> QED BY <2>1, <3>1, <3>2, EmptyTableType DEF FreePlaces
  <2>2. CASE Found(a) # {}
    <3>1. p = SaiSearchAclTableId(a) /\ t = aclTable[SaiSearchAclTableId(a)]
      BY <2>2 DEF TableForEntry, TableOrEmpty
    <3> HIDE DEF p, t
    <3> QED BY <2>2, <3>1, FoundIsTheTable DEF TableType
  <2> QED BY <2>1, <2>2
<1> HIDE DEF p, t
<1>3. u \in Table /\ u.name = a
  BY <1>2, WithEntryEffect
<1>4. PICK f \in FreeEntries(t) :
        /\ u.entries[f] = e
        /\ \A j \in 1..MaxEntry \ {f} : u.entries[j] = t.entries[j]
  BY <1>1, <1>2, WithEntryAdds
<1>5. f \in 1..MaxEntry /\ t.entries[f] = None
  BY DEF FreeEntries
<1>6. e # None /\ u # None
  BY <1>3, NoneAssumption DEF Entry
<1> HIDE DEF u, e
<1>7. \A i \in 1..MaxTable : aclTable'[i] = IF i = p THEN u ELSE aclTable[i]
  BY <1>1 DEF TableType
<1>8. AddsOne(a, e)
  <2>. PICK q \in 1..MaxTable : q = p
    BY <1>2
  <2>1. ~Used(q, f) /\ Used(q, f)' /\ aclTable'[q].name = a /\ aclTable'[q].entries[f] = e
    BY <1>2, <1>3, <1>4, <1>5, <1>6, <1>7 DEF Used
  <2>2. ASSUME NEW i \in 1..MaxTable, NEW j \in 1..MaxEntry, Used(i, j)
        PROVE  Stays(i, j)
    BY <1>2, <1>3, <1>4, <1>5, <1>6, <1>7, <2>2 DEF Used, Stays
  <2>3. ASSUME NEW i \in 1..MaxTable, NEW j \in 1..MaxEntry,
               Used(i, j)', ~(i = p /\ j = f)
        PROVE  Used(i, j)
    <3>1. CASE i # p
      BY <1>7, <2>3, <3>1 DEF Used
    <3>2. CASE i = p
      <4>1. j # f /\ u.entries[j] # None
        BY <1>7, <2>3, <3>2 DEF Used
      <4>2. t.entries[j] # None
        BY <1>4, <4>1
      <4> QED BY <1>2, <3>2, <4>2 DEF Used
    <3> QED BY <3>1, <3>2
  <2>4. \A i \in 1..MaxTable, j \in 1..MaxEntry :
          /\ Used(i, j) => Stays(i, j)
          /\ (Used(i, j)' /\ ~(i = q /\ j = f)) => Used(i, j)
    BY <2>2, <2>3
  <2> QED BY <1>5, <2>1, <2>4 DEF AddsOne
<1>9. Found(a)' # {}
  BY <1>2, <1>3, <1>6, <1>7 DEF Found, Matches
<1>10. UsedPlaces' = UsedPlaces \cup {p} /\ (p \in UsedPlaces <=> Found(a) # {})
  BY <1>2, <1>6, <1>7 DEF UsedPlaces
<1> QED BY <1>8, <1>9, <1>10 DEF e, p

\* UpdateAclRule changes the entry of the rule in one table.
LEMMA UpdateKeeps ==
  ASSUME Prefix = {}, TableType, TablesReachable,
         NEW a \in Acl, NEW r \in Rule, NEW content \in Content,
         SaiUpdateAclRule(a, r, content)
  PROVE  /\ \A b \in Acl, s \in Rule : KeepsHw(b, s)
         /\ UsedPlaces' = UsedPlaces
<1> DEFINE p == SaiSearchAclTableId(a)
           t == WithoutRule(aclTable[p], r)
           u == WithEntry(t, r, content)
           e == [rule |-> r, content |-> content]
<1>1. aclTable' = [aclTable EXCEPT ![p] = u] /\ Found(a) # {} /\ FreeEntries(t) # {}
  BY DEF SaiUpdateAclRule
<1>2. p \in 1..MaxTable /\ aclTable[p] # None /\ aclTable[p].name = a
  BY <1>1, FoundIsTheTable
<1> HIDE DEF p
<1>3. aclTable[p] \in Table
  BY <1>2 DEF TableType
<1>4. t \in Table /\ t.name = a
  BY <1>2, <1>3, WithoutRuleEffect
<1>5. \A j \in 1..MaxEntry : (aclTable[p].entries[j] # None /\ aclTable[p].entries[j].rule # r)
        => t.entries[j] = aclTable[p].entries[j]
  BY <1>3, WithoutRuleLeaves
<1> HIDE DEF t
<1>6. u \in Table /\ u.name = a
  BY <1>4, WithEntryEffect
<1>7. PICK f \in FreeEntries(t) :
        /\ u.entries[f] = e
        /\ \A j \in 1..MaxEntry \ {f} : u.entries[j] = t.entries[j]
  BY <1>1, <1>4, WithEntryAdds
<1>8. f \in 1..MaxEntry /\ t.entries[f] = None
  BY DEF FreeEntries
<1>9. e # None /\ u # None /\ e.rule = r
  BY <1>6, NoneAssumption DEF Entry
<1> HIDE DEF u, e
<1>10. \A i \in 1..MaxTable : aclTable'[i] = IF i = p THEN u ELSE aclTable[i]
  BY <1>1 DEF TableType
<1>11. ASSUME NEW b \in Acl, NEW s \in Rule
       PROVE  KeepsHw(b, s)
  <2>1. CASE b = a /\ s = r
    BY <1>2, <1>6, <1>7, <1>8, <1>9, <1>10, <2>1 DEF KeepsHw, InHw
  <2>2. CASE ~(b = a /\ s = r)
    <3> SUFFICES ASSUME NEW i \in 1..MaxTable, NEW j \in 1..MaxEntry, Used(i, j),
                        aclTable[i].name = b, aclTable[i].entries[j].rule = s
                 PROVE  Stays(i, j)
      BY StaysKeepsHw
    <3>1. CASE i # p
      BY <1>10, <3>1 DEF Stays, Used
    <3>2. CASE i = p
      <4>1. s # r
        BY <1>2, <2>2, <3>2
      <4>2. t.entries[j] = aclTable[p].entries[j] /\ t.entries[j] # None
        BY <1>5, <3>2, <4>1 DEF Used
      <4>3. u.entries[j] = t.entries[j]
        BY <1>7, <1>8, <4>2
      <4> QED BY <1>2, <1>6, <1>9, <1>10, <3>2, <4>2, <4>3 DEF Stays, Used
    <3> QED BY <3>1, <3>2
  <2> QED BY <2>1, <2>2
<1>12. UsedPlaces' = UsedPlaces
  BY <1>2, <1>9, <1>10 DEF UsedPlaces
<1> QED BY <1>11, <1>12

\* DeleteAclRuleFromAcl takes the entries of one rule from one table.
LEMMA DeleteRuleKeeps ==
  ASSUME Prefix = {}, TableType, TablesReachable,
         NEW a \in Acl, NEW r \in Rule, SaiDeleteAclRuleFromAcl(a, r)
  PROVE  /\ \A b \in Acl, s \in Rule : ~(b = a /\ s = r) => KeepsHw(b, s)
         /\ UsedPlaces' = UsedPlaces
         /\ Found(a)' # {}
<1> DEFINE p == SaiSearchAclTableId(a)
           t == WithoutRule(aclTable[p], r)
<1>1. aclTable' = [aclTable EXCEPT ![p] = t] /\ Found(a) # {}
  BY DEF SaiDeleteAclRuleFromAcl
<1>2. p \in 1..MaxTable /\ aclTable[p] # None /\ aclTable[p].name = a
  BY <1>1, FoundIsTheTable
<1> HIDE DEF p
<1>3. aclTable[p] \in Table
  BY <1>2 DEF TableType
<1>4. t \in Table /\ t.name = a
  BY <1>2, <1>3, WithoutRuleEffect
<1>5. \A j \in 1..MaxEntry : (aclTable[p].entries[j] # None /\ aclTable[p].entries[j].rule # r)
        => t.entries[j] = aclTable[p].entries[j]
  BY <1>3, WithoutRuleLeaves
<1>6. t # None
  BY <1>4, NoneAssumption
<1> HIDE DEF t
<1>7. \A i \in 1..MaxTable : aclTable'[i] = IF i = p THEN t ELSE aclTable[i]
  BY <1>1 DEF TableType
<1>8. ASSUME NEW b \in Acl, NEW s \in Rule, ~(b = a /\ s = r)
      PROVE  KeepsHw(b, s)
  <2> SUFFICES ASSUME NEW i \in 1..MaxTable, NEW j \in 1..MaxEntry, Used(i, j),
                      aclTable[i].name = b, aclTable[i].entries[j].rule = s
               PROVE  Stays(i, j)
    BY StaysKeepsHw
  <2> QED BY <1>2, <1>4, <1>5, <1>6, <1>7, <1>8 DEF Stays, Used
<1>9. UsedPlaces' = UsedPlaces /\ Found(a)' # {}
  BY <1>2, <1>4, <1>6, <1>7 DEF UsedPlaces, Found, Matches
<1> QED BY <1>8, <1>9

LEMMA DeleteAclKeeps ==
  ASSUME Prefix = {}, TableType, TablesReachable, NEW a \in Acl, SaiDeleteAcl(a)
  PROVE  /\ \A b \in Acl, s \in Rule : b # a => KeepsHw(b, s)
         /\ UsedPlaces' \subseteq UsedPlaces
<1> DEFINE p == SaiSearchAclTableId(a)
<1>1. aclTable' = [aclTable EXCEPT ![p] = None] /\ Found(a) # {}
  BY DEF SaiDeleteAcl
<1>2. p \in 1..MaxTable /\ aclTable[p].name = a
  BY <1>1, FoundIsTheTable
<1> HIDE DEF p
<1>3. \A i \in 1..MaxTable : aclTable'[i] = IF i = p THEN None ELSE aclTable[i]
  BY <1>1 DEF TableType
<1>4. ASSUME NEW b \in Acl, NEW s \in Rule, b # a
      PROVE  KeepsHw(b, s)
  <2> SUFFICES ASSUME NEW i \in 1..MaxTable, NEW j \in 1..MaxEntry, Used(i, j),
                      aclTable[i].name = b, aclTable[i].entries[j].rule = s
               PROVE  Stays(i, j)
    BY StaysKeepsHw
  <2> QED BY <1>2, <1>3, <1>4 DEF Stays, Used
<1>5. UsedPlaces' \subseteq UsedPlaces
  BY <1>3 DEF UsedPlaces
<1> QED BY <1>4, <1>5
-----------------------------------------------------------------------------
(***************************************************************************)
(* What a step of a client needs.                                          *)
(***************************************************************************)
\* Nobody calls and Init has finished.
Idle == boot = {} /\ \A d \in Thread : call[d] = None

LEMMA ReadyIdle ==
  ASSUME Overlap = FALSE, OneCall, NEW c \in Client, Ready(c)
  PROVE  Idle /\ c \in Thread /\ Alone(c)
BY ReadyAlone DEF Idle

LEMMA IdleComplete ==
  ASSUME Idle, CInv, NEW a \in Acl
  PROVE  Complete(a)
<1>1. Boot \in Thread /\ Client \subseteq Thread
  BY DEF Thread
<1>2. ~Changing(a)
  BY <1>1 DEF Idle, Changing, At, Working
<1> QED BY <1>2 DEF CInv, Configured

LEMMA HwFound ==
  ASSUME NEW a \in Acl, NEW r \in Rule, InHw(a, r)
  PROVE  Found(a) # {}
BY DEF InHw, Found, Matches

LEMMA EmptyCard == Cardinality({}) = 0 /\ IsFiniteSet({})
BY FS_EmptySet

\* A rule that is attached nowhere is in no stored ACL.
LEMMA UnattachedInNoAcl ==
  ASSUME Idle, IInv, CInv, NEW r \in Rule, rulesToAcls[r] = << >>
  PROVE  InNoAcl(r)
<1> SUFFICES ASSUME NEW a \in Acl, dbAcl[a] # None, r \in dbAcl[a]
             PROVE  FALSE
  BY DEF InNoAcl
<1>1. InHw(a, r)
  BY IdleComplete DEF Complete
<1>2. ~Removing(a, r)
  BY DEF Removing, Idle, At
<1>3. ~Attached(r, a)
  BY DEF Attached, Listed
<1> QED BY <1>1, <1>2, <1>3 DEF IInv, Held

LEMMA CountStays ==
  ASSUME Counted, aclTableCount' = aclTableCount, UsedPlaces' \subseteq UsedPlaces
  PROVE  aclTableCount' \in 0..MaxTable /\ Cardinality(UsedPlaces') <= aclTableCount'
<1>1. Cardinality(UsedPlaces') <= Cardinality(UsedPlaces) /\ Cardinality(UsedPlaces') \in Nat
  <2>1. PICK S, T : S = UsedPlaces /\ T = UsedPlaces'
    OBVIOUS
  <2>2. IsFiniteSet(S) /\ Cardinality(S) \in Nat
    BY <2>1, PlacesFinite
  <2>3. IsFiniteSet(T) /\ Cardinality(T) <= Cardinality(S)
    BY <2>1, <2>2, FS_Subset
  <2>4. Cardinality(T) \in Nat
    BY <2>3, FS_CardinalityType
  <2> QED BY <2>1, <2>3, <2>4
<1>2. Cardinality(UsedPlaces) \in Nat
  BY PlacesFinite
<1> QED BY <1>1, <1>2, SizeAssumption DEF Counted

\* After a step of a client Init has nothing to do.
LEMMA ClientStep ==
  ASSUME NEW c \in Client, boot' = {}, \A d \in Thread \ {c} : call'[d] = None,
         aclTableCount' \in 0..MaxTable, Cardinality(UsedPlaces') <= aclTableCount',
         Restorable', Configured', Works(c)', Checks(c)'
  PROVE  CInv'
<1>1. Boot \in Thread \ {c} /\ c \in Thread
  BY BootAssumption DEF Thread
<1>2. Restoring' /\ ~Booting'
  BY <1>1 DEF Restoring, Booting
<1>3. Counted'
  BY <1>2 DEF Counted
<1>4. \A d \in Thread \ {c} : Works(d)' /\ Checks(d)'
  BY DEF Works, Working, Checks, At
<1> QED BY <1>2, <1>3, <1>4 DEF CInv

LEMMA NothingDone ==
  ASSUME NEW c, call'[c] = None
  PROVE  Works(c)' /\ Checks(c)'
BY DEF Works, Working, Checks, At

\* The tables stay.
LEMMA SameTables ==
  ASSUME UNCHANGED <<aclTable, aclTableCount>>
  PROVE  /\ UsedPlaces' = UsedPlaces
         /\ \A a, r : InHw(a, r)' <=> InHw(a, r)
         /\ \A a : Found(a)' = Found(a)
BY DEF UsedPlaces, InHw, Found

LEMMA CompleteStays ==
  ASSUME MapType, NEW a \in Acl, Complete(a), dbAcl'[a] = dbAcl[a],
         a \in aclKnown => a \in aclKnown',
         \A r \in Rule : KeepsHw(a, r)
  PROVE  Complete(a)'
BY DEF Complete, KeepsHw, MapType

-----------------------------------------------------------------------------
(***************************************************************************)
(* The calls on rules.                                                     *)
(***************************************************************************)
\* A call begins or ends and the tables, dbRule, dbAcl and aclKnown stay.
LEMMA RuleCallStep ==
  ASSUME IInv, CInv, NEW c \in Client, boot' = {},
         \A d \in Thread \ {c} : call'[d] = None,
         UNCHANGED <<aclTable, aclTableCount, dbRule, dbAcl, aclKnown>>,
         \A a \in Acl : Complete(a), Works(c)', Checks(c)'
  PROVE  CInv'
<1>1. /\ UsedPlaces' = UsedPlaces
      /\ \A a, r : InHw(a, r)' <=> InHw(a, r)
  BY SameTables
<1>2. aclTableCount' \in 0..MaxTable /\ Cardinality(UsedPlaces') <= aclTableCount'
  BY <1>1, CountStays DEF CInv
<1>3. Restorable'
  BY DEF CInv, Restorable, Accepted
<1>4. Configured'
  BY <1>1 DEF Configured, Complete
<1> QED BY <1>2, <1>3, <1>4, ClientStep

LEMMA CreateAclRuleConf ==
  ASSUME Overlap = FALSE, IInv, CInv, NEW c \in Client, NEW r \in Rule,
         NEW content \in Content, CreateAclRule(c, r, content)
  PROVE  CInv'
<1> DEFINE x == [at |-> "storeRule", rule |-> r, content |-> content]
<1>1. /\ Ready(c) /\ dbRule[r] = None
      /\ call' = [call EXCEPT ![c] = x]
      /\ UNCHANGED <<aclTable, aclTableCount, dbRule, dbAcl, aclKnown, boot>>
  BY DEF CreateAclRule, saiVars, dbVars
<1>2. Idle /\ c \in Thread
  BY <1>1, ReadyIdle DEF IInv
<1>3. call'[c] = x /\ \A d \in Thread \ {c} : call'[d] = None
  BY <1>1, <1>2 DEF IInv, OneCall, Idle
<1>4. InNoAcl(r)
  BY <1>1 DEF CInv, Restorable, Accepted, InNoAcl
<1>5. Works(c)' /\ Checks(c)'
  BY <1>1, <1>3, <1>4 DEF Works, Working, Checks, At, InNoAcl
<1>6. boot' = {} /\ \A a \in Acl : Complete(a)
  BY <1>1, <1>2, IdleComplete DEF Idle
<1> QED BY <1>1, <1>3, <1>5, <1>6, RuleCallStep

LEMMA UpdateAclRuleConf ==
  ASSUME Overlap = FALSE, IInv, CInv, NEW c \in Client, NEW r \in Rule,
         NEW content \in Content, UpdateAclRule(c, r, content)
  PROVE  CInv'
<1> DEFINE x == [at |-> "updateRule", rule |-> r, content |-> content,
                 acls |-> rulesToAcls[r]]
<1>1. /\ Ready(c)
      /\ call' = [call EXCEPT ![c] = x]
      /\ UNCHANGED <<aclTable, aclTableCount, dbRule, dbAcl, aclKnown, boot>>
  BY DEF UpdateAclRule, AclsOf, saiVars, dbVars, mgrVars
<1>2. Idle /\ c \in Thread
  BY <1>1, ReadyIdle DEF IInv
<1>3. call'[c] = x /\ \A d \in Thread \ {c} : call'[d] = None
  BY <1>1, <1>2 DEF IInv, OneCall, Idle
<1>4. rulesToAcls[r] = << >> => InNoAcl(r)
  BY <1>2, UnattachedInNoAcl
<1>5. Works(c)' /\ Checks(c)'
  BY <1>1, <1>3, <1>4 DEF Works, Working, Checks, At, InNoAcl
<1>6. boot' = {} /\ \A a \in Acl : Complete(a)
  BY <1>1, <1>2, IdleComplete DEF Idle
<1> QED BY <1>1, <1>3, <1>5, <1>6, RuleCallStep

LEMMA DeleteAclRuleConf ==
  ASSUME Overlap = FALSE, IInv, CInv, NEW c \in Client, NEW r \in Rule,
         DeleteAclRule(c, r)
  PROVE  CInv'
<1> DEFINE x == [at |-> "storeRule", rule |-> r, content |-> None]
<1>1. /\ Ready(c) /\ rulesToAcls[r] = << >>
      /\ call' = [call EXCEPT ![c] = x]
      /\ UNCHANGED <<aclTable, aclTableCount, dbRule, dbAcl, aclKnown, boot>>
  BY DEF DeleteAclRule, Deletable, saiVars, dbVars
<1>2. Idle /\ c \in Thread
  BY <1>1, ReadyIdle DEF IInv
<1>3. call'[c] = x /\ \A d \in Thread \ {c} : call'[d] = None
  BY <1>1, <1>2 DEF IInv, OneCall, Idle
<1>4. InNoAcl(r)
  BY <1>1, <1>2, UnattachedInNoAcl
<1>5. Works(c)' /\ Checks(c)'
  BY <1>1, <1>3, <1>4 DEF Works, Working, Checks, At, InNoAcl
<1>6. boot' = {} /\ \A a \in Acl : Complete(a)
  BY <1>1, <1>2, IdleComplete DEF Idle
<1> QED BY <1>1, <1>3, <1>5, <1>6, RuleCallStep

\* While a client stores or updates a rule every stored ACL is complete.
LEMMA RuleCallComplete ==
  ASSUME IInv, CInv, NEW c \in Client, At(c, "storeRule") \/ At(c, "updateRule")
  PROVE  /\ c \in Thread /\ boot = {} /\ Alone(c)
         /\ \A a \in Acl : Complete(a)
<1>1. c \in Thread /\ Boot \in Thread /\ Boot # c /\ Client \subseteq Thread
  BY BootAssumption DEF Thread
<1>2. boot = {} /\ \A d \in Thread \ {c} : call[d] = None
  BY <1>1, CallFields DEF IInv, At
<1>3. \A a \in Acl : ~Changing(a)
  BY <1>1, <1>2 DEF Changing, At, Working
<1> QED BY <1>1, <1>2, <1>3 DEF CInv, Configured, Alone

LEMMA StoreRuleConf ==
  ASSUME IInv, CInv, NEW c \in Client, StoreRule(c)
  PROVE  CInv'
<1>1. /\ At(c, "storeRule")
      /\ dbRule' = [dbRule EXCEPT ![call[c].rule] = call[c].content]
      /\ call' = [call EXCEPT ![c] = None]
      /\ UNCHANGED <<aclTable, aclTableCount, dbAcl, aclKnown, boot>>
  BY DEF StoreRule, Return, saiVars, mgrVars
<1>2. c \in Thread /\ boot = {} /\ Alone(c) /\ \A a \in Acl : Complete(a)
  BY <1>1, RuleCallComplete
<1>3. call'[c] = None /\ \A d \in Thread \ {c} : call'[d] = None
  BY <1>1, <1>2 DEF IInv, OneCall, Alone
<1>4. Restorable'
  <2> SUFFICES ASSUME NEW a \in Acl, dbAcl[a] # None, NEW r \in dbAcl[a]
               PROVE  Accepted(r)'
    BY <1>1 DEF CInv, Restorable
  <2>1. Accepted(r) /\ r \in Rule
    BY DEF CInv, Restorable, IInv, MapType
  <2>2. r = call[c].rule => call[c].content \notin Refused \cup {None}
    BY <1>1, <1>2 DEF CInv, Checks, InNoAcl
  <2> QED BY <1>1, <2>1, <2>2 DEF Accepted, IInv, MapType
<1>5. /\ UsedPlaces' = UsedPlaces
      /\ \A a, r : InHw(a, r)' <=> InHw(a, r)
  BY <1>1, SameTables
<1>6. aclTableCount' \in 0..MaxTable /\ Cardinality(UsedPlaces') <= aclTableCount'
  BY <1>1, <1>5, CountStays DEF CInv
<1>7. Configured'
  BY <1>1, <1>2, <1>5 DEF Configured, Complete
<1>8. Works(c)' /\ Checks(c)'
  BY <1>3, NothingDone
<1> QED BY <1>1, <1>2, <1>3, <1>4, <1>6, <1>7, <1>8, ClientStep

LEMMA UpdatedInAclsConf ==
  ASSUME IInv, CInv, NEW c \in Client, UpdatedInAcls(c)
  PROVE  CInv'
<1>1. /\ At(c, "updateRule") /\ call[c].acls = << >>
      /\ UNCHANGED <<aclTable, aclTableCount, dbRule, dbAcl, aclKnown, boot>>
  BY DEF UpdatedInAcls, saiVars, dbVars, mgrVars
<1>2. c \in Thread /\ boot = {} /\ Alone(c) /\ \A a \in Acl : Complete(a)
  BY <1>1, RuleCallComplete
<1>3. PICK r \in Rule, content \in Content, acls \in Seq(Acl) :
        call[c] = [at |-> "updateRule", rule |-> r, content |-> content, acls |-> acls]
  BY <1>1, <1>2, UpdateFields DEF IInv
<1> DEFINE x == [at |-> "storeRule", rule |-> r, content |-> content]
<1>4. call' = [call EXCEPT ![c] = x]
  BY <1>3 DEF UpdatedInAcls
<1>5. call'[c] = x /\ \A d \in Thread \ {c} : call'[d] = None
  BY <1>2, <1>4 DEF IInv, OneCall, Alone
<1>6. content \in Refused => InNoAcl(r)
  BY <1>1, <1>2, <1>3 DEF CInv, Checks
<1>7. Works(c)' /\ Checks(c)'
  BY <1>1, <1>5, <1>6, NoneAssumption DEF Works, Working, Checks, At, InNoAcl
<1> HIDE DEF x
<1> QED BY <1>1, <1>2, <1>5, <1>7, RuleCallStep

LEMMA UpdateInNextAclConf ==
  ASSUME Prefix = {}, IInv, CInv, NEW c \in Client, UpdateInNextAcl(c)
  PROVE  CInv'
<1>1. /\ At(c, "updateRule") /\ call[c].acls # << >>
      /\ UNCHANGED <<dbRule, dbAcl, rulesToAcls, aclKnown, boot>>
  BY DEF UpdateInNextAcl, dbVars, mgrVars
<1>2. c \in Thread /\ boot = {} /\ Alone(c) /\ \A a \in Acl : Complete(a)
  BY <1>1, RuleCallComplete
<1>3. PICK r \in Rule, content \in Content, acls \in Seq(Acl) :
        call[c] = [at |-> "updateRule", rule |-> r, content |-> content, acls |-> acls]
  BY <1>1, <1>2, UpdateFields DEF IInv
<1> DEFINE x == [at |-> "updateRule", rule |-> r, content |-> content, acls |-> Tail(acls)]
<1>4. CASE /\ UNCHANGED <<aclTable, aclTableCount>>
           /\ call' = [call EXCEPT ![c] = None]
  <2>1. call'[c] = None /\ \A d \in Thread \ {c} : call'[d] = None
    BY <1>2, <1>4 DEF IInv, OneCall, Alone
  <2>2. Works(c)' /\ Checks(c)'
    BY <2>1, NothingDone
  <2> QED BY <1>1, <1>2, <1>4, <2>1, <2>2, RuleCallStep
<1>5. CASE /\ SaiUpdateAclRule(Head(acls), r, content)
           /\ call' = [call EXCEPT ![c] = x]
  <2>1. call'[c] = x /\ \A d \in Thread \ {c} : call'[d] = None
    BY <1>2, <1>5 DEF IInv, OneCall, Alone
  <2>2. Head(acls) \in Acl
    BY <1>1, <1>3, HeadTailProperties
  <2>3. content \notin Refused /\ aclTableCount' = aclTableCount
    BY <1>5 DEF SaiUpdateAclRule, PluginAccepts
  <2>4. /\ \A b \in Acl, s \in Rule : KeepsHw(b, s)
        /\ UsedPlaces' = UsedPlaces
    BY <1>5, <2>2, UpdateKeeps DEF IInv
  <2>5. aclTableCount' \in 0..MaxTable /\ Cardinality(UsedPlaces') <= aclTableCount'
    BY <2>3, <2>4, CountStays DEF CInv
  <2>6. Works(c)' /\ Checks(c)'
    BY <2>1, <2>3 DEF Works, Working, Checks, At
  <2>7. Configured'
    BY <1>1, <1>2, <2>4, CompleteStays DEF Configured, IInv
  <2>8. Restorable'
    BY <1>1 DEF CInv, Restorable, Accepted
  <2> QED BY <1>1, <1>2, <2>1, <2>5, <2>6, <2>7, <2>8, ClientStep
<1> QED BY <1>3, <1>4, <1>5 DEF UpdateInNextAcl, SaiUpdateAclRuleFails, Return, saiVars
-----------------------------------------------------------------------------
(***************************************************************************)
(* The calls on ACLs.                                                      *)
(***************************************************************************)
LEMMA CreateAclConf ==
  ASSUME Overlap = FALSE, IInv, CInv, NEW c \in Client, NEW a \in Acl,
         NEW rules \in SUBSET Rule, CreateAcl(c, a, rules) \/ UpdateAcl(c, a, rules)
  PROVE  CInv'
<1>1. PICK old \in SUBSET Rule :
        /\ Ready(c)
        /\ call' = [call EXCEPT ![c] = AclCall(a, rules, old)]
        /\ aclKnown' = aclKnown \cup {a}
        /\ old # {} => old = dbAcl[a]
        /\ UNCHANGED <<aclTable, aclTableCount, dbRule, dbAcl, boot>>
  <2>1. CASE CreateAcl(c, a, rules)
    <3>1. {} \in SUBSET Rule
      OBVIOUS
    <3> QED BY <2>1, <3>1 DEF CreateAcl, saiVars, dbVars
  <2>2. CASE UpdateAcl(c, a, rules)
    <3>1. dbAcl[a] \in SUBSET Rule
      BY <2>2 DEF UpdateAcl, IInv, MapType
    <3> QED BY <2>2, <3>1 DEF UpdateAcl, saiVars, dbVars, mgrVars
  <2> QED BY <2>1, <2>2
<1> DEFINE x == [at |-> "nextRule", acl |-> a, rules |-> rules, add |-> rules \ old,
                 del |-> old \ rules]
<1>2. Idle /\ c \in Thread
  BY <1>1, ReadyIdle DEF IInv
<1>3. call'[c] = x /\ \A d \in Thread \ {c} : call'[d] = None
  BY <1>1, <1>2 DEF IInv, OneCall, Idle, AclCall
<1>4. boot' = {} /\ \A b \in Acl : Complete(b)
  BY <1>1, <1>2, IdleComplete DEF Idle
<1>5. /\ UsedPlaces' = UsedPlaces
      /\ \A b, r : InHw(b, r)' <=> InHw(b, r)
      /\ \A b : Found(b)' = Found(b)
  BY <1>1, SameTables
<1>6. \A r \in old : InHw(a, r) /\ Accepted(r)
  <2> SUFFICES ASSUME NEW r \in old
               PROVE  InHw(a, r) /\ Accepted(r)
    OBVIOUS
  <2>1. old = dbAcl[a] /\ dbAcl[a] \notin {None, {}}
    BY <1>1, NoneCallAssumption
  <2> QED BY <1>4, <2>1 DEF Complete, CInv, Restorable
<1>7. old # {} => Found(a) # {}
  BY <1>6, HwFound
<1>8. Works(c)'
  <2>1. x.acl \in aclKnown' /\ x.add \subseteq x.rules /\ x.del \cap x.rules = {}
    BY <1>1
  <2>2. x.del # {} => Found(x.acl) # {}
    BY <1>7
  <2>3. \A r \in x.rules \ x.add : InHw(x.acl, r)' /\ Accepted(r)'
    BY <1>1, <1>5, <1>6 DEF Accepted
  <2> QED BY <1>3, <1>5, <2>1, <2>2, <2>3 DEF Works, At
<1>9. Checks(c)'
  BY <1>3 DEF Checks, At
<1>10. aclTableCount' \in 0..MaxTable /\ Cardinality(UsedPlaces') <= aclTableCount'
  BY <1>1, <1>5, CountStays DEF CInv
<1>11. Configured'
  BY <1>1, <1>4, <1>5 DEF Configured, Complete
<1>12. Restorable'
  BY <1>1 DEF CInv, Restorable, Accepted
<1> QED BY <1>3, <1>4, <1>8, <1>9, <1>10, <1>11, <1>12, ClientStep

LEMMA DeleteAclConf ==
  ASSUME Prefix = {}, Overlap = FALSE, IInv, CInv, NEW c \in Client, NEW a \in Acl,
         DeleteAcl(c, a)
  PROVE  CInv'
<1> DEFINE x == [at |-> "unstoreAcl", acl |-> a]
<1>1. /\ Ready(c) /\ SaiDeleteAcl(a)
      /\ aclKnown' = aclKnown \ {a}
      /\ call' = [call EXCEPT ![c] = x]
      /\ UNCHANGED <<dbRule, dbAcl, rulesToAcls, boot>>
  BY DEF DeleteAcl, RemoveAcl, dbVars
<1>2. Idle /\ c \in Thread
  BY <1>1, ReadyIdle DEF IInv
<1>3. call'[c] = x /\ \A d \in Thread \ {c} : call'[d] = None
  BY <1>1, <1>2 DEF IInv, OneCall, Idle
<1>4. boot' = {} /\ \A b \in Acl : Complete(b)
  BY <1>1, <1>2, IdleComplete DEF Idle
<1>5. /\ \A b \in Acl, s \in Rule : b # a => KeepsHw(b, s)
      /\ UsedPlaces' \subseteq UsedPlaces /\ aclTableCount' = aclTableCount
  BY <1>1, DeleteAclKeeps DEF IInv, SaiDeleteAcl
<1>6. aclTableCount' \in 0..MaxTable /\ Cardinality(UsedPlaces') <= aclTableCount'
  BY <1>5, CountStays DEF CInv
<1>7. Works(c)' /\ Checks(c)'
  BY <1>3 DEF Works, Working, Checks, At
<1>8. Configured'
  <2> SUFFICES ASSUME NEW b \in Acl
               PROVE  Complete(b)' \/ Changing(b)'
    BY DEF Configured
  <2>1. CASE b = a
    BY <1>3, <2>1, NoneCallAssumption DEF Changing, At, Call
  <2>2. CASE b # a
    BY <1>1, <1>4, <1>5, <2>2, CompleteStays DEF IInv
  <2> QED BY <2>1, <2>2
<1>9. Restorable'
  BY <1>1 DEF CInv, Restorable, Accepted
<1> QED BY <1>3, <1>4, <1>6, <1>7, <1>8, <1>9, ClientStep

LEMMA UnstoreAclConf ==
  ASSUME IInv, CInv, NEW c \in Client, UnstoreAcl(c)
  PROVE  CInv'
<1>1. /\ At(c, "unstoreAcl")
      /\ dbAcl' = [dbAcl EXCEPT ![call[c].acl] = None]
      /\ call' = [call EXCEPT ![c] = None]
      /\ UNCHANGED <<aclTable, aclTableCount, dbRule, aclKnown, boot>>
  BY DEF UnstoreAcl, Return, saiVars, mgrVars
<1>2. c \in Thread /\ Boot \in Thread /\ Boot # c /\ Client \subseteq Thread
  BY BootAssumption DEF Thread
<1>3. boot = {} /\ \A d \in Thread \ {c} : call[d] = None
  BY <1>1, <1>2, CallFields DEF IInv, At
<1>4. call'[c] = None /\ \A d \in Thread \ {c} : call'[d] = None
  BY <1>1, <1>2, <1>3 DEF IInv, OneCall
<1>5. /\ UsedPlaces' = UsedPlaces
      /\ \A b, r : InHw(b, r)' <=> InHw(b, r)
  BY <1>1, SameTables
<1>6. aclTableCount' \in 0..MaxTable /\ Cardinality(UsedPlaces') <= aclTableCount'
  BY <1>1, <1>5, CountStays DEF CInv
<1>7. Works(c)' /\ Checks(c)'
  BY <1>4, NothingDone
<1>8. Configured'
  <2> SUFFICES ASSUME NEW b \in Acl
               PROVE  Complete(b)'
    BY DEF Configured
  <2>1. CASE b = call[c].acl
    BY <1>1, <2>1 DEF Complete, IInv, MapType
  <2>2. CASE b # call[c].acl
    <3>1. ~Changing(b)
      BY <1>1, <1>2, <1>3, <2>2 DEF Changing, At, Working
    <3>2. Complete(b) /\ dbAcl'[b] = dbAcl[b]
      BY <1>1, <2>2, <3>1 DEF CInv, Configured, IInv, MapType
    <3> QED BY <1>1, <1>5, <3>2 DEF Complete
  <2> QED BY <2>1, <2>2
<1>9. Restorable'
  BY <1>1 DEF CInv, Restorable, Accepted, IInv, MapType
<1> QED BY <1>1, <1>3, <1>4, <1>6, <1>7, <1>8, <1>9, ClientStep

-----------------------------------------------------------------------------
(***************************************************************************)
(* The steps of a call on an ACL, of a client or of Init.                  *)
(***************************************************************************)
\* The facts about such a call.
LEMMA WorkFacts ==
  ASSUME IInv, CInv, NEW c \in Thread, Working(c)
  PROVE  /\ \A d \in Thread \ {c} : call[d] = None
         /\ c \in Client => boot = {}
         /\ c \notin Client => c = Boot
         /\ call[c].acl \in Acl /\ call[c].rules \in SUBSET Rule
         /\ call[c].add \in SUBSET Rule /\ call[c].del \in SUBSET Rule
<1>1. At(c, "nextRule") \/ At(c, "lookup") \/ At(c, "apply") \/ At(c, "remove")
  BY DEF Working, At
<1>2. /\ call[c].acl \in Acl /\ call[c].rules \in SUBSET Rule
      /\ call[c].add \in SUBSET Rule /\ call[c].del \in SUBSET Rule
  BY <1>1, NextFields DEF IInv
<1> QED BY <1>2, CallFields DEF IInv, Working, Thread

\* Of the ACLs that Init has not got to only the one of the call can change.
LEMMA ChangingWhich ==
  ASSUME IInv, CInv, NEW c \in Thread, Working(c), NEW a \in Acl, Changing(a)
  PROVE  \/ a \in boot
         \/ a = call[c].acl /\ (c = Boot \/ (~At(c, "lookup") /\ ~At(c, "apply") /\ call[c].add = {}))
<1>1. /\ \A d \in Thread \ {c} : call[d] = None
      /\ Boot \in Thread /\ Client \subseteq Thread
  BY WorkFacts DEF Thread
<1> QED BY <1>1 DEF Changing, Working, At

LEMMA WorkStep ==
  ASSUME NEW c \in Thread, boot' = boot, c \in Client => boot = {},
         \A d \in Thread \ {c} : call'[d] = None,
         Counted', Restorable', Configured', Works(c)', Checks(c)',
         c \in Client \/ Restoring'
  PROVE  CInv'
<1>1. c \in Client => Restoring'
  <2>1. c \in Client => Boot \in Thread \ {c}
    BY BootAssumption DEF Thread
  <2> QED BY <2>1 DEF Restoring
<1>2. \A d \in Thread \ {c} : Works(d)' /\ Checks(d)'
  BY DEF Works, Working, Checks, At
<1> QED BY <1>1, <1>2 DEF CInv

\* The tables stay, and a call on an ACL goes on.
LEMMA CountedOn ==
  ASSUME Counted, UNCHANGED <<aclTable, aclTableCount>>, Booting' => Booting
  PROVE  Counted'
<1>1. UsedPlaces' = UsedPlaces
  BY SameTables
<1> QED BY <1>1 DEF Counted

LEMMA AttachRuleConf ==
  ASSUME IInv, CInv, NEW c \in Thread, NEW r \in Rule, AttachRule(c, r)
  PROVE  CInv'
<1>1. /\ At(c, "nextRule") /\ Working(c) /\ r \in call[c].add
      /\ UNCHANGED <<aclTable, aclTableCount, dbRule, dbAcl, boot>>
  BY DEF AttachRule, At, Working, saiVars, dbVars
<1>2. PICK a \in Acl, rules \in SUBSET Rule, add \in SUBSET Rule, del \in SUBSET Rule :
        call[c].acl = a /\ call[c].rules = rules /\ call[c].add = add /\ call[c].del = del
  BY <1>1, WorkFacts
<1> DEFINE x == [at |-> "lookup", acl |-> a, rules |-> rules, add |-> add, del |-> del,
                 rule |-> r]
<1>3. /\ call' = [call EXCEPT ![c] = x]
      /\ aclKnown' = aclKnown \cup {a}
  BY <1>2 DEF AttachRule
<1>4. /\ \A d \in Thread \ {c} : call[d] = None
      /\ c \in Client => boot = {}
      /\ c \notin Client => c = Boot
  BY <1>1, WorkFacts
<1>5. call'[c] = x /\ \A d \in Thread \ {c} : call'[d] = None
  BY <1>3, <1>4 DEF IInv, OneCall
<1>6. /\ \A b, s : InHw(b, s)' <=> InHw(b, s)
      /\ \A b : Found(b)' = Found(b)
  BY <1>1, SameTables
<1>7. Works(c)
  BY DEF CInv
<1>8. aclKnown' = aclKnown
  BY <1>1, <1>2, <1>3, <1>7 DEF Works
<1>9. Works(c)'
  BY <1>1, <1>2, <1>5, <1>6, <1>7, <1>8 DEF Works, At, Accepted
<1>10. Checks(c)'
  BY <1>5 DEF Checks, At
<1>11. Counted'
  <2>1. Booting' => Booting
    BY <1>1, <1>4, <1>5 DEF Booting, Working, Thread
  <2> QED BY <1>1, <2>1, CountedOn DEF CInv
<1>12. Restorable'
  BY <1>1 DEF CInv, Restorable, Accepted
<1>13. Configured'
  <2> SUFFICES ASSUME NEW b \in Acl
               PROVE  Complete(b)' \/ Changing(b)'
    BY DEF Configured
  <2>1. CASE Complete(b)
    BY <1>1, <1>6, <1>8, <2>1 DEF Complete
  <2>2. CASE Changing(b)
    <3>1. b \in boot \/ (b = a /\ c = Boot)
      BY <1>1, <1>2, <2>2, ChangingWhich
    <3>2. c = Boot => Working(Boot)' /\ call'[Boot].acl = a
      BY <1>5, NoneCallAssumption DEF Working, Call
    <3> QED BY <1>1, <3>1, <3>2 DEF Changing
  <2> QED BY <2>1, <2>2 DEF CInv, Configured
<1>14. c = Boot => Restoring'
  <2> SUFFICES ASSUME c = Boot
               PROVE  Restoring'
    OBVIOUS
  <2>1. boot' \cap aclKnown' = {}
    BY <1>1, <1>8 DEF CInv, Restoring
  <2> QED BY <1>1, <1>2, <1>5, <2>1 DEF CInv, Restoring, Used, At, Working
<1> QED BY <1>1, <1>4, <1>5, <1>9, <1>10, <1>11, <1>12, <1>13, <1>14, WorkStep
LEMMA LookupRuleConf ==
  ASSUME IInv, CInv, NEW c \in Thread, LookupRule(c)
  PROVE  CInv'
<1>1. /\ At(c, "lookup") /\ Working(c)
      /\ UNCHANGED <<aclTable, aclTableCount, dbRule, dbAcl, aclKnown, boot>>
  BY DEF LookupRule, At, Working, saiVars, dbVars, mgrVars
<1>2. PICK a \in Acl, rules \in SUBSET Rule, add \in SUBSET Rule, del \in SUBSET Rule,
           r \in Rule :
        /\ call[c].acl = a /\ call[c].rules = rules /\ call[c].add = add
        /\ call[c].del = del /\ call[c].rule = r
  BY <1>1, WorkFacts, RuleFields DEF IInv
<1> DEFINE x == [at |-> "apply", acl |-> a, rules |-> rules, add |-> add \ {r},
                 del |-> del, rule |-> r, content |-> dbRule[r]]
<1>3. /\ \A d \in Thread \ {c} : call[d] = None
      /\ c \in Client => boot = {}
      /\ c \notin Client => c = Boot
  BY <1>1, WorkFacts
<1>4. /\ \A b, s : InHw(b, s)' <=> InHw(b, s)
      /\ \A b : Found(b)' = Found(b)
  BY <1>1, SameTables
<1>5. Works(c)
  BY DEF CInv
<1>6. Restorable'
  BY <1>1 DEF CInv, Restorable, Accepted
<1>7. \A d \in Thread \ {c} : call'[d] = None
  BY <1>3 DEF LookupRule, Return, IInv, OneCall
<1>8. Counted'
  <2>1. Booting' => Booting
    BY <1>1, <1>3, <1>7 DEF Booting, Working, Thread
  <2> QED BY <1>1, <2>1, CountedOn DEF CInv
<1>9. c = Boot => dbRule[r] # None
  <2> SUFFICES ASSUME c = Boot
               PROVE  dbRule[r] # None
    OBVIOUS
  <2>1. rules = dbAcl[a] /\ rules # None
    BY <1>1, <1>2, NoneCallAssumption DEF CInv, Restoring, Working
  <2>2. r \in rules
    BY <1>1, <1>2, <1>5 DEF Works
  <2> QED BY <2>1, <2>2 DEF CInv, Restorable, Accepted
<1>10. CASE dbRule[r] = None /\ call' = [call EXCEPT ![c] = None]
  <2>1. c \in Client /\ call'[c] = None
    BY <1>3, <1>9, <1>10 DEF IInv, OneCall
  <2>2. Works(c)' /\ Checks(c)'
    BY <2>1, NothingDone
  <2>3. Configured'
    <3> SUFFICES ASSUME NEW b \in Acl
                 PROVE  Complete(b)'
      BY DEF Configured
    <3>1. ~Changing(b)
      BY <1>1, <1>3, <2>1, ChangingWhich, BootAssumption
    <3> QED BY <1>1, <1>4, <3>1 DEF CInv, Configured, Complete
  <2> QED BY <1>1, <1>3, <1>6, <1>7, <1>8, <2>1, <2>2, <2>3, WorkStep
<1>11. CASE dbRule[r] # None /\ call' = [call EXCEPT ![c] = x]
  <2>1. call'[c] = x
    BY <1>11 DEF IInv, OneCall
  <2>2. Works(c)'
    BY <1>1, <1>2, <1>4, <1>5, <2>1 DEF Works, Working, At, Accepted
  <2>3. Checks(c)'
    BY <2>1 DEF Checks, At
  <2>4. Configured'
    <3> SUFFICES ASSUME NEW b \in Acl
                 PROVE  Complete(b)' \/ Changing(b)'
      BY DEF Configured
    <3>1. CASE Complete(b)
      BY <1>1, <1>4, <3>1 DEF Complete
    <3>2. CASE Changing(b)
      <4>1. b \in boot \/ (b = a /\ c = Boot)
        BY <1>1, <1>2, <3>2, ChangingWhich
      <4>2. c = Boot => Working(Boot)' /\ call'[Boot].acl = a
        <5>1. x # None
          BY <1>11, NoneCallAssumption DEF Call, IInv, MapType
        <5> QED BY <2>1, <5>1 DEF Working
      <4> QED BY <1>1, <4>1, <4>2 DEF Changing
    <3> QED BY <3>1, <3>2 DEF CInv, Configured
  <2>5. c = Boot => Restoring'
    <3> SUFFICES ASSUME c = Boot
                 PROVE  Restoring'
      OBVIOUS
    <3>1. \A i \in 1..MaxTable, j \in 1..MaxEntry :
            (Used(i, j) /\ aclTable[i].name = a) =>
              /\ aclTable[i].entries[j].rule \in rules \ add
              /\ \A k \in 1..MaxEntry :
                   (Used(i, k) /\ aclTable[i].entries[k].rule = aclTable[i].entries[j].rule)
                     => k = j
      BY <1>1, <1>2 DEF CInv, Restoring, Working
    <3>2. r \in add
      BY <1>1, <1>2, <1>5 DEF Works
    <3>3. boot \cap aclKnown = {} /\ del = {} /\ rules = dbAcl[a]
      BY <1>1, <1>2 DEF CInv, Restoring, Working
    <3> QED BY <1>1, <2>1, <3>1, <3>2, <3>3 DEF Restoring, Used, At
  <2> QED BY <1>1, <1>3, <1>6, <1>7, <1>8, <2>2, <2>3, <2>4, <2>5, WorkStep
<1> QED BY <1>2, <1>10, <1>11 DEF LookupRule, Return

\* While Init applies the ACLs there are fewer tables than ACL_MAX_TABLE.
LEMMA BootRoom ==
  ASSUME IInv, CInv, Booting, IsFiniteSet(Acl), Cardinality(Acl) < MaxTable
  PROVE  ~AtTableLimit
<1> DEFINE f == [i \in UsedPlaces |-> aclTable[i].name]
<1>1. f \in Injection(UsedPlaces, Acl)
  <2>1. \A i \in UsedPlaces : aclTable[i] \in Table
    BY DEF UsedPlaces, IInv, TableType
  <2>2. \A i \in UsedPlaces : aclTable[i].name \in Acl
    BY <2>1 DEF Table
  <2>3. \A i, j \in UsedPlaces : aclTable[i].name = aclTable[j].name => i = j
    BY DEF UsedPlaces, IInv, TablesReachable
  <2> QED BY <2>2, <2>3 DEF Injection, IsInjective
<1> HIDE DEF f
<1>2. Cardinality(UsedPlaces) <= Cardinality(Acl)
  <2>1. PICK S, g : S = UsedPlaces /\ g = f
    OBVIOUS
  <2>2. g \in Injection(S, Acl)
    BY <1>1, <2>1
  <2>3. Cardinality(S) <= Cardinality(Acl)
    BY <2>2, FS_Injection
  <2> QED BY <2>1, <2>3
<1>3. Cardinality(Acl) \in Nat /\ Cardinality(UsedPlaces) \in Nat
  BY FS_CardinalityType, PlacesFinite
<1> QED BY <1>2, <1>3, SizeAssumption DEF CInv, Counted, AtTableLimit

\* The table Init fills has an entry left for every rule still to apply.
LEMMA BootFreeEntry ==
  ASSUME Prefix = {}, IInv, CInv, At(Boot, "apply")
  PROVE  FreeEntries(TableOrEmpty(call[Boot].acl)) # {}
<1>1. Boot \in Thread /\ Working(Boot)
  BY DEF Thread, At, Working
<1>2. PICK a \in Acl, S \in SUBSET Rule, r \in Rule :
        call[Boot].acl = a /\ call[Boot].rules = S /\ call[Boot].rule = r
  BY <1>1, WorkFacts, RuleFields DEF IInv
<1>3. /\ S = dbAcl[a] /\ S # None /\ r \in S
      /\ \A i \in 1..MaxTable, j \in 1..MaxEntry :
            (Used(i, j) /\ aclTable[i].name = a) =>
              /\ aclTable[i].entries[j].rule \in S \ {r}
              /\ \A k \in 1..MaxEntry :
                   (Used(i, k) /\ aclTable[i].entries[k].rule = aclTable[i].entries[j].rule)
                     => k = j
  <2>1. Works(Boot)
    BY <1>1 DEF CInv
  <2>2. S = dbAcl[a] /\ S # None /\ r \in S
    BY <1>1, <1>2, <2>1, NoneCallAssumption DEF CInv, Restoring, Works, Working
  <2> QED BY <1>1, <1>2, <2>2 DEF CInv, Restoring, Working
<1>4. IsFiniteSet(S) /\ Cardinality(S) <= MaxEntry
  BY <1>3 DEF CInv, Restorable
<1>5. CASE Found(a) = {}
  <2>1. \A j \in 1..MaxEntry : EmptyTable(a).entries[j] = None
    BY EmptyTableType
  <2>2. 1 \in FreeEntries(EmptyTable(a))
    BY <2>1, SizeAssumption DEF FreeEntries
  <2> QED BY <1>2, <1>5, <2>2 DEF TableOrEmpty
<1>6. CASE Found(a) # {}
  <2>1. PICK p \in 1..MaxTable : p = SaiSearchAclTableId(a)
    BY <1>6, FoundIsTheTable DEF IInv
  <2>2. /\ TableOrEmpty(a) = aclTable[p]
        /\ aclTable[p] # None /\ aclTable[p].name = a
    BY <1>6, <2>1, FoundIsTheTable DEF IInv, TableOrEmpty
  <2> SUFFICES ASSUME FreeEntries(aclTable[p]) = {}
               PROVE  FALSE
    BY <1>2, <2>2
  <2>3. \A j \in 1..MaxEntry : Used(p, j)
    BY <2>2 DEF FreeEntries, Used
  <2>4. /\ \A j \in 1..MaxEntry : aclTable[p].entries[j].rule \in S \ {r}
        /\ \A j, k \in 1..MaxEntry :
             aclTable[p].entries[j].rule = aclTable[p].entries[k].rule => j = k
    BY <1>3, <2>2, <2>3
  <2> DEFINE f == [j \in 1..MaxEntry |-> aclTable[p].entries[j].rule]
  <2>5. f \in Injection(1..MaxEntry, S \ {r})
    BY <2>4 DEF Injection, IsInjective
  <2> HIDE DEF f
  <2>6. IsFiniteSet(S \ {r}) /\ Cardinality(S \ {r}) = Cardinality(S) - 1
    BY <1>3, <1>4, FS_RemoveElement
  <2>7. PICK T : T = S \ {r}
    OBVIOUS
  <2>8. Cardinality(1..MaxEntry) <= Cardinality(T)
    <3>1. f \in Injection(1..MaxEntry, T) /\ IsFiniteSet(T)
      BY <2>5, <2>6, <2>7
    <3> QED BY <3>1, FS_Injection
  <2>9. Cardinality(1..MaxEntry) = MaxEntry /\ Cardinality(S) \in Nat
    BY <1>4, PlacesFinite, FS_CardinalityType
  <2> QED BY <1>4, <2>6, <2>7, <2>8, <2>9, SizeAssumption
<1> QED BY <1>5, <1>6

LEMMA CountedGrows ==
  ASSUME Prefix = {}, IInv, CInv, NEW a \in Acl, NEW r \in Rule, NEW content \in Content,
         SaiProcessAcl(a, r, content), Booting' => Booting
  PROVE  Counted'
<1>1. /\ UsedPlaces' = UsedPlaces \cup {TableForEntry(a)}
      /\ TableForEntry(a) \in UsedPlaces <=> Found(a) # {}
  BY ProcessAdds DEF IInv, CInv
<1>2. PICK S, T, p : S = UsedPlaces /\ T = UsedPlaces' /\ p = TableForEntry(a)
  OBVIOUS
<1>3. IsFiniteSet(S) /\ Cardinality(S) \in Nat
  BY <1>2, PlacesFinite
<1>4. Cardinality(S \cup {p}) = IF p \in S THEN Cardinality(S) ELSE Cardinality(S) + 1
  BY <1>3, FS_AddElement
<1>5. Cardinality(T) = IF Found(a) # {} THEN Cardinality(S) ELSE Cardinality(S) + 1
  BY <1>1, <1>2, <1>4
<1>6. /\ aclTableCount # MaxTable
      /\ aclTableCount' = IF Found(a) = {} THEN aclTableCount + 1 ELSE aclTableCount
  BY DEF SaiProcessAcl, AtTableLimit
<1>7. /\ aclTableCount \in 0..MaxTable /\ Cardinality(S) <= aclTableCount
      /\ Booting => aclTableCount = Cardinality(S)
  BY <1>2 DEF CInv, Counted
<1>8. /\ aclTableCount' \in 0..MaxTable /\ Cardinality(T) <= aclTableCount'
      /\ Booting' => aclTableCount' = Cardinality(T)
  BY <1>3, <1>5, <1>6, <1>7, SizeAssumption
<1> QED BY <1>2, <1>8 DEF Counted

LEMMA ApplyRuleConf ==
  ASSUME Prefix = {}, IsFiniteSet(Acl), Cardinality(Acl) < MaxTable,
         IInv, CInv, NEW c \in Thread, ApplyRule(c)
  PROVE  CInv'
<1>1. /\ At(c, "apply") /\ Working(c)
      /\ UNCHANGED <<dbRule, dbAcl, aclKnown, boot>>
  BY DEF ApplyRule, At, Working, dbVars
<1>2. PICK a \in Acl, rules \in SUBSET Rule, add \in SUBSET Rule, del \in SUBSET Rule,
           r \in Rule, content \in Content :
        /\ call[c].acl = a /\ call[c].rules = rules /\ call[c].add = add
        /\ call[c].del = del /\ call[c].rule = r /\ call[c].content = content
  BY <1>1, WorkFacts, RuleFields DEF IInv
<1> DEFINE x == [at |-> "nextRule", acl |-> a, rules |-> rules, add |-> add, del |-> del]
<1>3. /\ \A d \in Thread \ {c} : call[d] = None
      /\ c \in Client => boot = {}
      /\ c \notin Client => c = Boot
  BY <1>1, WorkFacts
<1>4. /\ r \in rules \ add /\ content = dbRule[r] /\ a \in aclKnown
      /\ add \subseteq rules /\ del \cap rules = {}
      /\ \A s \in rules \ add : s # r => InHw(a, s) /\ Accepted(s)
  <2>1. Works(c)
    BY DEF CInv
  <2> QED BY <1>1, <1>2, <2>1 DEF Works
<1>5. Restorable'
  BY <1>1 DEF CInv, Restorable, Accepted
<1>6. \A d \in Thread \ {c} : call'[d] = None
  BY <1>3 DEF ApplyRule, Return, IInv, OneCall
<1>7. Booting' => Booting
  BY <1>1, <1>3, <1>6 DEF Booting, Working, Thread
<1>8. CASE SaiProcessAclFails(a, r, content) /\ call' = [call EXCEPT ![c] = None]
  <2>1. c # Boot
    <3> SUFFICES ASSUME c = Boot
                 PROVE  FALSE
      OBVIOUS
    <3>1. content \notin Refused
      <4>1. rules = dbAcl[a] /\ rules # None
        BY <1>1, <1>2, NoneCallAssumption DEF CInv, Restoring, Working
      <4> QED BY <1>4, <4>1 DEF CInv, Restorable, Accepted
    <3>2. ~AtTableLimit
      BY <1>1, BootRoom DEF Booting, Working
    <3>3. FreeEntries(TableOrEmpty(a)) # {}
      BY <1>1, <1>2, BootFreeEntry
    <3> QED BY <1>8, <3>1, <3>2, <3>3 DEF SaiProcessAclFails, PluginAccepts
  <2>2. c \in Client /\ call'[c] = None
    BY <1>3, <1>8, <2>1 DEF IInv, OneCall
  <2>3. UNCHANGED <<aclTable, aclTableCount>>
    BY <1>8 DEF SaiProcessAclFails, saiVars
  <2>4. Works(c)' /\ Checks(c)'
    BY <2>2, NothingDone
  <2>5. Counted'
    BY <1>7, <2>3, CountedOn DEF CInv
  <2>6. Configured'
    <3> SUFFICES ASSUME NEW b \in Acl
                 PROVE  Complete(b)'
      BY DEF Configured
    <3>1. ~Changing(b)
      BY <1>1, <1>3, <2>2, ChangingWhich, BootAssumption
    <3>2. \A s : InHw(b, s)' <=> InHw(b, s)
      BY <2>3, SameTables
    <3> QED BY <1>1, <3>1, <3>2 DEF CInv, Configured, Complete
  <2> QED BY <1>1, <1>3, <1>5, <1>6, <2>2, <2>4, <2>5, <2>6, WorkStep
<1>9. CASE SaiProcessAcl(a, r, content) /\ call' = [call EXCEPT ![c] = x]
  <2>1. call'[c] = x
    BY <1>9 DEF IInv, OneCall
  <2>2. AddsOne(a, [rule |-> r, content |-> content]) /\ Found(a)' # {}
    BY <1>9, ProcessAdds DEF IInv, CInv
  <2>3. PICK p \in 1..MaxTable, f \in 1..MaxEntry :
          /\ ~Used(p, f) /\ Used(p, f)'
          /\ aclTable'[p].name = a /\ aclTable'[p].entries[f].rule = r
          /\ \A i \in 1..MaxTable, j \in 1..MaxEntry :
               /\ Used(i, j) => Stays(i, j)
               /\ (Used(i, j)' /\ ~(i = p /\ j = f)) => Used(i, j)
    BY <2>2 DEF AddsOne
  <2>4. \A b \in Acl, s \in Rule : KeepsHw(b, s)
    BY <2>3, StaysKeepsHw
  <2>5. InHw(a, r)'
    BY <2>3 DEF InHw, Used
  <2>6. Accepted(r)'
    <3>1. content \notin Refused
      BY <1>9 DEF SaiProcessAcl, PluginAccepts
    <3> QED BY <1>1, <1>4, <3>1, NoneAssumption DEF Accepted
  <2>7. \A s \in rules \ add : InHw(a, s)' /\ Accepted(s)'
    BY <1>1, <1>4, <2>4, <2>5, <2>6 DEF KeepsHw, Accepted
  <2>8. Works(c)'
    BY <1>1, <1>4, <2>1, <2>2, <2>7 DEF Works, Working, At
  <2>9. Checks(c)'
    BY <2>1 DEF Checks, At
  <2>10. Counted'
    BY <1>7, <1>9, CountedGrows
  <2>11. Configured'
    <3> SUFFICES ASSUME NEW b \in Acl
                 PROVE  Complete(b)' \/ Changing(b)'
      BY DEF Configured
    <3>1. CASE Complete(b)
      BY <1>1, <2>4, <3>1, CompleteStays DEF IInv
    <3>2. CASE Changing(b)
      <4>1. b \in boot \/ (b = a /\ c = Boot)
        BY <1>1, <1>2, <3>2, ChangingWhich
      <4>2. c = Boot => Working(Boot)' /\ call'[Boot].acl = a
        BY <2>1, NoneCallAssumption DEF Working, Call
      <4> QED BY <1>1, <4>1, <4>2 DEF Changing
    <3> QED BY <3>1, <3>2 DEF CInv, Configured
  <2>12. c = Boot => Restoring'
    <3> SUFFICES ASSUME c = Boot
                 PROVE  Restoring'
      OBVIOUS
    <3>1. /\ boot \cap aclKnown = {} /\ del = {} /\ rules = dbAcl[a]
          /\ \A i \in 1..MaxTable, j \in 1..MaxEntry :
            (Used(i, j) /\ aclTable[i].name = a) =>
              /\ aclTable[i].entries[j].rule \in rules \ add
              /\ aclTable[i].entries[j].rule # r
              /\ \A k \in 1..MaxEntry :
                   (Used(i, k) /\ aclTable[i].entries[k].rule = aclTable[i].entries[j].rule)
                     => k = j
      BY <1>1, <1>2 DEF CInv, Restoring, Working
    <3>2. \A i \in 1..MaxTable, j \in 1..MaxEntry :
            (Used(i, j)' /\ aclTable'[i].name = a) =>
              \/ i = p /\ j = f /\ aclTable'[i].entries[j].rule = r
              \/ /\ Used(i, j) /\ aclTable[i].name = a
                 /\ aclTable'[i].entries[j] = aclTable[i].entries[j]
                 /\ aclTable'[i].entries[j].rule # r
      BY <2>3, <3>1 DEF Stays
    <3>3. ASSUME NEW i \in 1..MaxTable, NEW j \in 1..MaxEntry,
                 Used(i, j)', aclTable'[i].name = a
          PROVE  /\ aclTable'[i].entries[j].rule \in rules \ add
                 /\ \A k \in 1..MaxEntry :
                      (Used(i, k)' /\ aclTable'[i].entries[k].rule = aclTable'[i].entries[j].rule)
                        => k = j
      BY <1>4, <3>1, <3>2, <3>3
    <3> QED BY <1>1, <2>1, <3>1, <3>3 DEF Restoring, At
  <2> QED BY <1>1, <1>3, <1>5, <1>6, <2>8, <2>9, <2>10, <2>11, <2>12, WorkStep
<1> QED BY <1>2, <1>8, <1>9 DEF ApplyRule, NextRule, Return
\* Only a client detaches rules.
LEMMA DetachRuleConf ==
  ASSUME IInv, CInv, NEW c \in Thread, NEW r \in Rule, DetachRule(c, r)
  PROVE  CInv'
<1>1. /\ At(c, "nextRule") /\ Working(c) /\ call[c].add = {} /\ r \in call[c].del
      /\ UNCHANGED <<aclTable, aclTableCount, dbRule, dbAcl, aclKnown, boot>>
  BY DEF DetachRule, At, Working, saiVars, dbVars
<1>2. PICK a \in Acl, rules \in SUBSET Rule, del \in SUBSET Rule :
        call[c].acl = a /\ call[c].rules = rules /\ call[c].del = del
  BY <1>1, WorkFacts
<1> DEFINE x == [at |-> "remove", acl |-> a, rules |-> rules, add |-> {},
                 del |-> del \ {r}, rule |-> r]
<1>3. call' = [call EXCEPT ![c] = x]
  BY <1>2 DEF DetachRule
<1>4. c \in Client /\ boot = {} /\ \A d \in Thread \ {c} : call[d] = None
  BY <1>1, WorkFacts DEF CInv, Restoring, Working
<1>5. call'[c] = x /\ \A d \in Thread \ {c} : call'[d] = None
  BY <1>3, <1>4 DEF IInv, OneCall
<1>6. /\ UsedPlaces' = UsedPlaces
      /\ \A b, s : InHw(b, s)' <=> InHw(b, s)
      /\ \A b : Found(b)' = Found(b)
  BY <1>1, SameTables
<1>7. Works(c)
  BY DEF CInv
<1>8. Works(c)'
  BY <1>1, <1>2, <1>5, <1>6, <1>7 DEF Works, At, Accepted
<1>9. Checks(c)'
  BY <1>5 DEF Checks, At
<1>10. aclTableCount' \in 0..MaxTable /\ Cardinality(UsedPlaces') <= aclTableCount'
  BY <1>1, <1>6, CountStays DEF CInv
<1>11. Restorable'
  BY <1>1 DEF CInv, Restorable, Accepted
<1>12. Configured'
  <2> SUFFICES ASSUME NEW b \in Acl
               PROVE  Complete(b)' \/ Changing(b)'
    BY DEF Configured
  <2>1. CASE Complete(b)
    BY <1>1, <1>6, <2>1 DEF Complete
  <2>2. CASE Changing(b)
    <3>1. b = a
      BY <1>1, <1>2, <1>4, <2>2, ChangingWhich
    <3>2. At(c, "remove")' /\ call'[c].add = {} /\ call'[c].acl = a
      BY <1>5, NoneCallAssumption DEF At, Call
    <3> QED BY <1>4, <3>1, <3>2 DEF Changing
  <2> QED BY <2>1, <2>2 DEF CInv, Configured
<1> QED BY <1>1, <1>4, <1>5, <1>8, <1>9, <1>10, <1>11, <1>12, ClientStep

\* The table is there, so that the call does not fail with rules removed.
LEMMA RemoveRuleConf ==
  ASSUME Prefix = {}, IInv, CInv, NEW c \in Thread, RemoveRule(c)
  PROVE  CInv'
<1>1. /\ At(c, "remove") /\ Working(c)
      /\ UNCHANGED <<dbRule, dbAcl, aclKnown, boot>>
  BY DEF RemoveRule, At, Working, dbVars, mgrVars
<1>2. PICK a \in Acl, rules \in SUBSET Rule, add \in SUBSET Rule, del \in SUBSET Rule,
           r \in Rule :
        /\ call[c].acl = a /\ call[c].rules = rules /\ call[c].add = add
        /\ call[c].del = del /\ call[c].rule = r
  BY <1>1, WorkFacts, RuleFields DEF IInv
<1> DEFINE x == [at |-> "nextRule", acl |-> a, rules |-> rules, add |-> add, del |-> del]
<1>3. Works(c)
  BY DEF CInv
<1>4. /\ a \in aclKnown /\ add = {} /\ del \cap rules = {}
      /\ r \notin rules /\ Found(a) # {}
      /\ \A s \in rules : InHw(a, s) /\ Accepted(s)
  BY <1>1, <1>2, <1>3 DEF Works, At
<1>5. c \in Client /\ boot = {} /\ \A d \in Thread \ {c} : call[d] = None
  BY <1>1, WorkFacts DEF CInv, Restoring, At
<1>6. /\ call' = [call EXCEPT ![c] = x]
      /\ \/ UNCHANGED <<aclTable, aclTableCount>>
         \/ SaiDeleteAclRuleFromAcl(a, r)
  BY <1>2, <1>4 DEF RemoveRule, NextRule, saiVars
<1>7. call'[c] = x /\ \A d \in Thread \ {c} : call'[d] = None
  BY <1>5, <1>6 DEF IInv, OneCall
<1>8. /\ \A b \in Acl, s \in Rule : ~(b = a /\ s = r) => KeepsHw(b, s)
      /\ UsedPlaces' = UsedPlaces /\ aclTableCount' = aclTableCount
      /\ Found(a)' # {}
  <2>1. CASE UNCHANGED <<aclTable, aclTableCount>>
    BY <1>4, <2>1, SameTables DEF KeepsHw
  <2>2. CASE SaiDeleteAclRuleFromAcl(a, r)
    BY <2>2, DeleteRuleKeeps DEF IInv, SaiDeleteAclRuleFromAcl
  <2> QED BY <1>6, <2>1, <2>2
<1>9. Works(c)'
  <2>1. \A s \in rules : InHw(a, s)' /\ Accepted(s)'
    BY <1>1, <1>4, <1>8 DEF KeepsHw, Accepted
  <2> QED BY <1>1, <1>4, <1>7, <1>8, <2>1 DEF Works, At
<1>10. Checks(c)'
  BY <1>7 DEF Checks, At
<1>11. aclTableCount' \in 0..MaxTable /\ Cardinality(UsedPlaces') <= aclTableCount'
  BY <1>8, CountStays DEF CInv
<1>12. Restorable'
  BY <1>1 DEF CInv, Restorable, Accepted
<1>13. Configured'
  <2> SUFFICES ASSUME NEW b \in Acl
               PROVE  Complete(b)' \/ Changing(b)'
    BY DEF Configured
  <2>1. CASE b = a
    <3>1. At(c, "nextRule")' /\ call'[c].add = {} /\ call'[c].acl = a
      BY <1>4, <1>7, NoneCallAssumption DEF At, Call
    <3> QED BY <1>5, <2>1, <3>1 DEF Changing
  <2>2. CASE b # a
    <3>1. ~Changing(b)
      BY <1>1, <1>2, <1>5, <2>2, ChangingWhich
    <3>2. Complete(b)
      BY <3>1 DEF CInv, Configured
    <3> QED BY <1>1, <1>8, <2>2, <3>2, CompleteStays DEF IInv
  <2> QED BY <2>1, <2>2
<1> QED BY <1>1, <1>5, <1>7, <1>9, <1>10, <1>11, <1>12, <1>13, ClientStep

\* Rules that have entries under one name fit in a table.
LEMMA HwFits ==
  ASSUME Prefix = {}, IInv, NEW a \in Acl, NEW S \in SUBSET Rule, \A r \in S : InHw(a, r)
  PROVE  IsFiniteSet(S) /\ Cardinality(S) <= MaxEntry
<1>1. CASE S = {}
  BY <1>1, EmptyCard, SizeAssumption
<1>2. CASE S # {}
  <2>1. Found(a) # {}
    BY <1>2, HwFound
  <2>2. PICK p \in 1..MaxTable : p = SaiSearchAclTableId(a)
    BY <2>1, FoundIsTheTable DEF IInv
  <2>3. \A i \in 1..MaxTable : (aclTable[i] # None /\ aclTable[i].name = a) => i = p
    BY <2>1, <2>2, FoundIsTheTable DEF IInv
  <2>4. \A r \in S : \E j \in 1..MaxEntry :
          aclTable[p].entries[j] # None /\ aclTable[p].entries[j].rule = r
    BY <2>3 DEF InHw
  <2> DEFINE f == [r \in S |-> CHOOSE j \in 1..MaxEntry :
                     aclTable[p].entries[j] # None /\ aclTable[p].entries[j].rule = r]
  <2>5. \A r \in S : f[r] \in 1..MaxEntry /\ aclTable[p].entries[f[r]].rule = r
    BY <2>4
  <2>6. f \in [S -> 1..MaxEntry]
    BY <2>5
  <2> HIDE DEF f
  <2>7. f \in Injection(S, 1..MaxEntry)
    BY <2>5, <2>6 DEF Injection, IsInjective
  <2>8. PICK g : g = f
    OBVIOUS
  <2>9. IsFiniteSet(1..MaxEntry) /\ Cardinality(1..MaxEntry) = MaxEntry
    BY PlacesFinite
  <2>10. IsFiniteSet(S) /\ Cardinality(S) <= Cardinality(1..MaxEntry)
    BY <2>7, <2>9, FS_Injection
  <2> QED BY <2>9, <2>10
<1> QED BY <1>1, <1>2

LEMMA StoreAclConf ==
  ASSUME Prefix = {}, IInv, CInv, NEW c \in Thread, StoreAcl(c)
  PROVE  CInv'
<1>1. /\ At(c, "nextRule") /\ Working(c) /\ call[c].add = {}
      /\ dbAcl' = [dbAcl EXCEPT ![call[c].acl] = call[c].rules]
      /\ call' = [call EXCEPT ![c] = None]
      /\ UNCHANGED <<aclTable, aclTableCount, dbRule, aclKnown, boot>>
  BY DEF StoreAcl, Return, At, Working, saiVars, mgrVars
<1>2. PICK a \in Acl, rules \in SUBSET Rule : call[c].acl = a /\ call[c].rules = rules
  BY <1>1, WorkFacts
<1>3. /\ \A d \in Thread \ {c} : call[d] = None
      /\ c \in Client => boot = {}
      /\ c \notin Client => c = Boot
  BY <1>1, WorkFacts
<1>4. call'[c] = None /\ \A d \in Thread \ {c} : call'[d] = None
  BY <1>1, <1>3 DEF IInv, OneCall
<1>5. \A b, s : InHw(b, s)' <=> InHw(b, s)
  BY <1>1, SameTables
<1>6. a \in aclKnown /\ \A r \in rules : InHw(a, r) /\ Accepted(r)
  <2>1. Works(c)
    BY DEF CInv
  <2> QED BY <1>1, <1>2, <2>1 DEF Works, At
<1>7. \A b \in Acl : dbAcl'[b] = IF b = a THEN rules ELSE dbAcl[b]
  BY <1>1, <1>2 DEF IInv, MapType
<1>8. Works(c)' /\ Checks(c)'
  BY <1>4, NothingDone
<1>9. Counted'
  <2>1. Booting' => Booting
    BY <1>1, <1>3, <1>4 DEF Booting, Working, Thread
  <2> QED BY <1>1, <2>1, CountedOn DEF CInv
<1>10. Restorable'
  <2>1. IsFiniteSet(rules) /\ Cardinality(rules) <= MaxEntry
    BY <1>6, HwFits
  <2> QED BY <1>1, <1>6, <1>7, <2>1 DEF CInv, Restorable, Accepted
<1>11. Configured'
  <2> SUFFICES ASSUME NEW b \in Acl
               PROVE  Complete(b)' \/ Changing(b)'
    BY DEF Configured
  <2>1. CASE b = a
    BY <1>1, <1>5, <1>6, <1>7, <2>1 DEF Complete
  <2>2. CASE b # a
    <3>1. CASE Complete(b)
      BY <1>1, <1>5, <1>7, <2>2, <3>1 DEF Complete
    <3>2. CASE Changing(b)
      <4>1. b \in boot
        BY <1>1, <1>2, <2>2, <3>2, ChangingWhich
      <4> QED BY <1>1, <4>1 DEF Changing
    <3> QED BY <3>1, <3>2 DEF CInv, Configured
  <2> QED BY <2>1, <2>2
<1>12. c = Boot => Restoring'
  BY <1>1, <1>4 DEF CInv, Restoring
<1> QED BY <1>1, <1>3, <1>4, <1>8, <1>9, <1>10, <1>11, <1>12, WorkStep

-----------------------------------------------------------------------------
(***************************************************************************)
(* The restart, and the theorem.                                           *)
(***************************************************************************)
LEMMA RestartConf ==
  ASSUME CInv, Restart
  PROVE  CInv'
<1>1. /\ aclTable' = [i \in 1..MaxTable |-> None] /\ aclTableCount' = 0
      /\ aclKnown' = {}
      /\ call' = [c \in Thread |-> None]
      /\ boot' = {a \in Acl : dbAcl[a] # None}
      /\ UNCHANGED <<dbRule, dbAcl>>
  BY DEF Restart, Thread, dbVars
<1>2. \A c \in Thread : Works(c)' /\ Checks(c)'
  BY <1>1 DEF Works, Working, Checks, At
<1>3. Counted'
  <2>1. UsedPlaces' = {}
    BY <1>1 DEF UsedPlaces
  <2>2. Cardinality(UsedPlaces') = 0
    BY <2>1, EmptyCard
  <2> QED BY <1>1, <2>2, SizeAssumption DEF Counted
<1>4. Restorable'
  BY <1>1 DEF CInv, Restorable, Accepted
<1>5. Configured'
  BY <1>1 DEF Configured, Complete, Changing
<1>6. Restoring'
  <2>1. Boot \in Thread
    BY DEF Thread
  <2> QED BY <1>1, <2>1 DEF Restoring
<1> QED BY <1>2, <1>3, <1>4, <1>5, <1>6 DEF CInv

LEMMA RestoreAclConf ==
  ASSUME IInv, CInv, NEW a \in Acl, RestoreAcl(a)
  PROVE  CInv'
<1>1. /\ a \in boot /\ call[Boot] = None /\ boot' = boot \ {a}
      /\ UNCHANGED <<aclTable, aclTableCount, dbRule, dbAcl>>
  BY DEF RestoreAcl, saiVars, dbVars
<1>2. /\ Boot \in Thread /\ Client \subseteq Thread
      /\ \A d \in Thread : call[d] = None
      /\ a \notin aclKnown
  BY <1>1 DEF IInv, OneCall, CInv, Restoring, Thread
<1>3. PICK rules \in SUBSET Rule : rules = dbAcl[a]
  BY <1>1 DEF IInv, OneCall, MapType
<1> DEFINE x == [at |-> "nextRule", acl |-> a, rules |-> rules, add |-> rules, del |-> {}]
<1>4. \/ /\ rules = {}
         /\ UNCHANGED <<aclKnown, call>>
      \/ /\ aclKnown' = aclKnown \cup {a}
         /\ call' = [call EXCEPT ![Boot] = x]
  <2>1. rules \ {} = rules /\ {} \ rules = {}
    OBVIOUS
  <2> QED BY <1>3, <2>1 DEF RestoreAcl, AclCall
<1>5. /\ \A b, s : InHw(b, s)' <=> InHw(b, s)
  BY <1>1, SameTables
<1>6. Counted'
  <2>1. Booting' => Booting
    BY <1>1 DEF Booting
  <2> QED BY <1>1, <2>1, CountedOn DEF CInv
<1>7. Restorable'
  BY <1>1 DEF CInv, Restorable, Accepted
<1>8. \A b \in Acl \ {a} : Complete(b)' \/ Changing(b)'
  <2> SUFFICES ASSUME NEW b \in Acl \ {a}
               PROVE  Complete(b)' \/ Changing(b)'
    OBVIOUS
  <2>1. CASE Complete(b)
    BY <1>1, <1>4, <1>5, <2>1 DEF Complete
  <2>2. CASE Changing(b)
    BY <1>1, <1>2, <2>2 DEF Changing, Working, At
  <2> QED BY <2>1, <2>2 DEF CInv, Configured
<1>9. CASE rules = {} /\ UNCHANGED <<aclKnown, call>>
  <2>1. Complete(a)'
    BY <1>1, <1>3, <1>9 DEF Complete
  <2>2. Configured'
    BY <1>8, <2>1 DEF Configured
  <2>3. Restoring'
    BY <1>1, <1>9 DEF CInv, Restoring
  <2>4. \A c \in Thread : Works(c)' /\ Checks(c)'
    BY <1>2, <1>9 DEF Works, Working, Checks, At
  <2> QED BY <1>6, <1>7, <2>2, <2>3, <2>4 DEF CInv
<1>10. CASE /\ aclKnown' = aclKnown \cup {a}
            /\ call' = [call EXCEPT ![Boot] = x]
  <2>1. call'[Boot] = x /\ \A d \in Thread \ {Boot} : call'[d] = None
    BY <1>2, <1>10 DEF IInv, OneCall
  <2>2. Changing(a)'
    BY <2>1, NoneCallAssumption DEF Changing, Working, Call
  <2>3. Configured'
    BY <1>8, <2>2 DEF Configured
  <2>4. Restoring'
    <3>1. \A i \in 1..MaxTable : aclTable[i] # None => aclTable[i].name # a
      BY <1>2 DEF IInv, TablesReachable
    <3>2. boot' \cap aclKnown' = {}
      BY <1>1, <1>10 DEF CInv, Restoring
    <3> QED BY <1>1, <1>3, <2>1, <3>1, <3>2 DEF Restoring, Used
  <2>5. Works(Boot)' /\ Checks(Boot)'
    BY <1>10, <2>1 DEF Works, Checks, At
  <2>6. \A c \in Thread \ {Boot} : Works(c)' /\ Checks(c)'
    BY <2>1 DEF Works, Working, Checks, At
  <2> QED BY <1>6, <1>7, <2>3, <2>4, <2>5, <2>6 DEF CInv
<1> QED BY <1>4, <1>9, <1>10

LEMMA InitCInv ==
  ASSUME Init
  PROVE  CInv
<1>1. /\ aclTable = [i \in 1..MaxTable |-> None] /\ aclTableCount = 0
      /\ dbAcl = [a \in Acl |-> None]
      /\ call = [c \in Thread |-> None] /\ boot = {}
      /\ Boot \in Thread
  BY DEF Init, SaiInitAcl, Thread
<1>2. Counted
  <2>1. UsedPlaces = {}
    BY <1>1 DEF UsedPlaces
  <2>2. Cardinality(UsedPlaces) = 0
    BY <2>1, EmptyCard
  <2> QED BY <1>1, <2>2, SizeAssumption DEF Counted
<1>3. Restorable /\ Configured
  BY <1>1 DEF Restorable, Configured, Complete
<1>4. Restoring
  BY <1>1 DEF Restoring
<1>5. \A c \in Thread : Works(c) /\ Checks(c)
  BY <1>1 DEF Works, Working, Checks, At
<1> QED BY <1>2, <1>3, <1>4, <1>5 DEF CInv

LEMMA NextCInv ==
  ASSUME Prefix = {}, Overlap = FALSE, IsFiniteSet(Acl), Cardinality(Acl) < MaxTable,
         IInv, CInv, [Next]_vars
  PROVE  CInv'
<1>1. ASSUME NEW c \in Client, NEW r \in Rule, NEW content \in Content,
             CreateAclRule(c, r, content) \/ UpdateAclRule(c, r, content)
      PROVE  CInv'
  BY <1>1, CreateAclRuleConf, UpdateAclRuleConf
<1>2. ASSUME NEW c \in Client, NEW r \in Rule, DeleteAclRule(c, r)
      PROVE  CInv'
  BY <1>2, DeleteAclRuleConf
<1>3. ASSUME NEW c \in Client, NEW a \in Acl, NEW rules \in SUBSET Rule,
             CreateAcl(c, a, rules) \/ UpdateAcl(c, a, rules)
      PROVE  CInv'
  BY <1>3, CreateAclConf
<1>4. ASSUME NEW c \in Client, NEW a \in Acl, DeleteAcl(c, a)
      PROVE  CInv'
  BY <1>4, DeleteAclConf
<1>5. ASSUME NEW c \in Client,
             StoreRule(c) \/ UpdateInNextAcl(c) \/ UpdatedInAcls(c) \/ UnstoreAcl(c)
      PROVE  CInv'
  BY <1>5, StoreRuleConf, UpdateInNextAclConf, UpdatedInAclsConf, UnstoreAclConf
<1>6. ASSUME NEW c \in Thread, NEW r \in Rule, AttachRule(c, r) \/ DetachRule(c, r)
      PROVE  CInv'
  BY <1>6, AttachRuleConf, DetachRuleConf
<1>7. ASSUME NEW c \in Thread,
             LookupRule(c) \/ ApplyRule(c) \/ RemoveRule(c) \/ StoreAcl(c)
      PROVE  CInv'
  BY <1>7, LookupRuleConf, ApplyRuleConf, RemoveRuleConf, StoreAclConf
<1>8. ASSUME NEW a \in Acl, RestoreAcl(a)
      PROVE  CInv'
  BY <1>8, RestoreAclConf
<1>9. CASE UNCHANGED vars
  <2>1. UNCHANGED <<aclTable, aclTableCount, dbRule, dbAcl, aclKnown, call, boot>>
    BY <1>9 DEF vars, saiVars, dbVars, mgrVars
  <2>2. /\ UsedPlaces' = UsedPlaces
        /\ \A b, s : InHw(b, s)' <=> InHw(b, s)
        /\ \A b : Found(b)' = Found(b)
    BY <2>1, SameTables
  <2>3. Counted' /\ Restorable'
    BY <2>1, <2>2 DEF CInv, Counted, Restorable, Accepted, Booting
  <2>4. Configured'
    BY <2>1, <2>2 DEF CInv, Configured, Complete, Changing, Working, At
  <2>5. Restoring'
    BY <2>1 DEF CInv, Restoring, Used, At
  <2>6. \A c \in Thread : Works(c)' /\ Checks(c)'
    BY <2>1, <2>2 DEF CInv, Works, Working, Checks, At, Accepted, InNoAcl
  <2> QED BY <2>3, <2>4, <2>5, <2>6 DEF CInv
<1> QED BY <1>1, <1>2, <1>3, <1>4, <1>5, <1>6, <1>7, <1>8, <1>9, RestartConf
        DEF Next, Thread

\* With more places for tables than ACLs, CInv holds as well.
LEMMA ConfiguredInductive ==
  ASSUME Prefix = {}, Overlap = FALSE, IsFiniteSet(Acl), Cardinality(Acl) < MaxTable
  PROVE  Spec => [](IInv /\ CInv)
<1>1. Init => IInv /\ CInv
  BY InitIInv, InitCInv
<1>2. IInv /\ CInv /\ [Next]_vars => (IInv /\ CInv)'
  BY NextIInv, NextCInv
<1> QED BY <1>1, <1>2, PTL DEF Spec

\* With more places for tables than ACLs: whatever calls failed, and wherever
\* the process died, every rule of a stored ACL has an entry in the ASIC once
\* Init has applied the database and no call is in progress.
THEOREM ConfiguredAclsAreInHw ==
  ASSUME Prefix = {}, Overlap = FALSE, IsFiniteSet(Acl), Cardinality(Acl) < MaxTable
  PROVE  Spec => []ConfiguredInHw
<1>1. IInv /\ CInv => ConfiguredInHw
  <2> SUFFICES ASSUME CInv, Quiet, boot = {}, NEW a \in Acl
               PROVE  Complete(a)
    BY DEF ConfiguredInHw, Complete
  <2>1. Idle
    BY DEF Idle, Quiet, Thread
  <2> QED BY <2>1, IdleComplete
<1> QED BY <1>1, ConfiguredInductive, PTL
=============================================================================
