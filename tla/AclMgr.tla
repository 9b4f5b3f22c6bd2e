------------------------------- MODULE AclMgr -------------------------------
(***************************************************************************)
(* The ACL manager (src/pluginManager/aclMgr.go) and the configuration     *)
(* client, which stores an object in the database when the call for it has *)
(* succeeded, passes the stored object as "old", creates no object that    *)
(* exists and changes none that does not.                                  *)
(*                                                                         *)
(* Nothing in the manager is locked and every thrift connection has a      *)
(* goroutine: calls are cut at the accesses to the maps, to the database   *)
(* and to the ASIC.  The process may die at any step; it starts with empty *)
(* maps and an empty ASIC and applies the ACLs of the database, before     *)
(* clients connect.                                                        *)
(*                                                                         *)
(* Abstractions.  A list of rules is a set, taken in any order.  An        *)
(* interface name that does not resolve makes a call fail where a content  *)
(* does that the plugin refuses.  A content that the manager itself cannot *)
(* convert (aclMgr.go:299) is not told from one the plugin refuses: the    *)
(* call then fails also when no ACL holds the rule, and stores nothing.    *)
(* What aclKeyToRulesMap holds under a name is never read: it is the set   *)
(* of its names.  Left out: internal clients, which store their rules by   *)
(* themselves, the list of rule states that GetBulk walks, the statistics. *)
(***************************************************************************)
EXTENDS SaiAcl

CONSTANTS
  Client,      \* connections of the configuration client
  Boot,        \* the goroutine of Init
  Overlap,     \* whether calls run at the same time
  MaxAttach    \* no rule is added to an ACL while it is attached so often

ASSUME BootAssumption == Boot \notin Client
ASSUME OverlapAssumption == Overlap \in BOOLEAN
ASSUME MaxAttachAssumption == MaxAttach \in Nat

VARIABLES
  dbRule,       \* the rules in the database: "AclRule#..."
  dbAcl,        \* the ACLs in the database: their rules
  rulesToAcls,  \* ruleToAclKeyMap
  aclKnown,     \* the names in aclKeyToRulesMap
  call,         \* the call each client has in progress
  boot          \* the ACLs Init has still to apply

dbVars == <<dbRule, dbAcl>>
mgrVars == <<rulesToAcls, aclKnown>>

\* Where a call can be, and what it has in hand there.
Call ==
  [at : {"storeRule"}, rule : Rule, content : Content \cup {None}]
    \cup [at : {"updateRule"}, rule : Rule, content : Content, acls : Seq(Acl)]
    \cup [at : {"nextRule"}, acl : Acl, rules : SUBSET Rule, add : SUBSET Rule,
          del : SUBSET Rule]
    \cup [at : {"lookup", "remove"}, acl : Acl, rules : SUBSET Rule, add : SUBSET Rule,
          del : SUBSET Rule, rule : Rule]
    \cup [at : {"apply"}, acl : Acl, rules : SUBSET Rule, add : SUBSET Rule,
          del : SUBSET Rule, rule : Rule, content : Content]
    \cup [at : {"unstoreAcl"}, acl : Acl]

ASSUME NoneCallAssumption ==
  /\ None \notin Call
  /\ None \notin Seq(Acl)
  /\ \A rules \in SUBSET Rule : rules # None

vars == <<saiVars, dbVars, mgrVars, call, boot>>

Init ==
  /\ SaiInitAcl
  /\ dbRule = [r \in Rule |-> None]
  /\ dbAcl = [a \in Acl |-> None]
  /\ rulesToAcls = [r \in Rule |-> None]
  /\ aclKnown = {}
  /\ call = [c \in Client \cup {Boot} |-> None]
  /\ boot = {}

Booting == boot # {} \/ call[Boot] # None

\* A client may call the server.
Ready(c) ==
  /\ c \in Client
  /\ ~Booting
  /\ call[c] = None
  /\ Overlap \/ \A d \in Client : call[d] = None

At(c, step) == call[c] # None /\ call[c].at = step

Return(c) == call' = [call EXCEPT ![c] = None]

-----------------------------------------------------------------------------
(***************************************************************************)
(* Rules.  Creating one does not look at its content.                      *)
(***************************************************************************)
CreateAclRule(c, r, content) ==
  /\ Ready(c)
  /\ dbRule[r] = None
  /\ rulesToAcls' = [rulesToAcls EXCEPT ![r] = IF @ = None THEN << >> ELSE @]
  /\ call' = [call EXCEPT ![c] = [at |-> "storeRule", rule |-> r, content |-> content]]
  /\ UNCHANGED <<saiVars, dbVars, aclKnown, boot>>

\* The client stores the rule, or removes it (None).
StoreRule(c) ==
  /\ At(c, "storeRule")
  /\ dbRule' = [dbRule EXCEPT ![call[c].rule] = call[c].content]
  /\ Return(c)
  /\ UNCHANGED <<saiVars, dbAcl, mgrVars, boot>>

\* UpdateAclRuleConfig goes through the ACLs the rule is attached to.
\* (Mutant: but the last.)
AclsOfButLast(r) ==
  IF rulesToAcls[r] = << >> THEN << >>
  ELSE SubSeq(rulesToAcls[r], 1, Len(rulesToAcls[r]) - 1)

AclsOf(r) == rulesToAcls[r]

UpdateAclRule(c, r, content) ==
  /\ Ready(c)
  /\ dbRule[r] \notin {None, content}
  /\ rulesToAcls[r] # None
  /\ call' = [call EXCEPT ![c] = [at |-> "updateRule", rule |-> r, content |-> content,
                                  acls |-> AclsOf(r)]]
  /\ UNCHANGED <<saiVars, dbVars, mgrVars, boot>>

UpdateInNextAcl(c) ==
  LET acl == Head(call[c].acls)
  IN /\ At(c, "updateRule")
     /\ call[c].acls # << >>
     /\ \/ /\ SaiUpdateAclRule(acl, call[c].rule, call[c].content)
           /\ call' = [call EXCEPT ![c] =
                [at |-> "updateRule", rule |-> @.rule, content |-> @.content,
                 acls |-> Tail(@.acls)]]
        \/ /\ SaiUpdateAclRuleFails(acl, call[c].rule, call[c].content)
           /\ Return(c)
     /\ UNCHANGED <<dbVars, mgrVars, boot>>

UpdatedInAcls(c) ==
  /\ At(c, "updateRule")
  /\ call[c].acls = << >>
  /\ call' = [call EXCEPT ![c] =
       [at |-> "storeRule", rule |-> @.rule, content |-> @.content]]
  /\ UNCHANGED <<saiVars, dbVars, mgrVars, boot>>

\* (Mutant: the list is not looked at.)
DeletableIfListed(r) == rulesToAcls[r] # None

Deletable(r) == rulesToAcls[r] = << >>

DeleteAclRule(c, r) ==
  /\ Ready(c)
  /\ dbRule[r] # None
  /\ Deletable(r)
  /\ rulesToAcls' = [rulesToAcls EXCEPT ![r] = None]
  /\ call' = [call EXCEPT ![c] = [at |-> "storeRule", rule |-> r, content |-> None]]
  /\ UNCHANGED <<saiVars, dbVars, aclKnown, boot>>

-----------------------------------------------------------------------------
(***************************************************************************)
(* CreateAclConfig and UpdateAcl: new rules are attached and applied one   *)
(* by one, then the old ones that are gone are detached and removed.  The  *)
(* first failure ends the call with what was done so far.                  *)
(***************************************************************************)
\* (Mutant: the new rules and the old ones the other way round.)
AclCallSwapped(a, rules, old) ==
  [at |-> "nextRule", acl |-> a, rules |-> rules, add |-> old \ rules, del |-> rules \ old]

AclCall(a, rules, old) ==
  [at |-> "nextRule", acl |-> a, rules |-> rules, add |-> rules \ old, del |-> old \ rules]

RoomToAttach(rules) ==
  \A r \in rules : rulesToAcls[r] # None => Len(rulesToAcls[r]) < MaxAttach

CreateAcl(c, a, rules) ==
  /\ Ready(c)
  /\ dbAcl[a] = None
  /\ rules # {}
  /\ RoomToAttach(rules)
  /\ aclKnown' = aclKnown \cup {a}
  /\ call' = [call EXCEPT ![c] = AclCall(a, rules, {})]
  /\ UNCHANGED <<saiVars, dbVars, rulesToAcls, boot>>

UpdateAcl(c, a, rules) ==
  /\ Ready(c)
  /\ dbAcl[a] \notin {None, rules}
  /\ a \in aclKnown
  /\ RoomToAttach(rules \ dbAcl[a])
  /\ call' = [call EXCEPT ![c] = AclCall(a, rules, dbAcl[a])]
  /\ UNCHANGED <<saiVars, dbVars, mgrVars, boot>>

\* The start of processRuleFromAcl: before the rule is looked up.
WithAcl(acls, a) == IF acls = None THEN <<a>> ELSE Append(acls, a)

AttachRule(c, r) ==
  LET a == call[c].acl
  IN /\ At(c, "nextRule")
     /\ r \in call[c].add
     /\ rulesToAcls' = [rulesToAcls EXCEPT ![r] = WithAcl(@, a)]
     /\ aclKnown' = aclKnown \cup {a}
     /\ call' = [call EXCEPT ![c] = [at |-> "lookup", acl |-> a, rules |-> @.rules,
                                     add |-> @.add, del |-> @.del, rule |-> r]]
     /\ UNCHANGED <<saiVars, dbVars, boot>>

LookupRule(c) ==
  LET r == call[c].rule
  IN /\ At(c, "lookup")
     /\ \/ /\ dbRule[r] = None
           /\ Return(c)
        \/ /\ dbRule[r] # None
           /\ call' = [call EXCEPT ![c] =
                [at |-> "apply", acl |-> @.acl, rules |-> @.rules, add |-> @.add \ {r},
                 del |-> @.del, rule |-> r, content |-> dbRule[r]]]
     /\ UNCHANGED <<saiVars, dbVars, mgrVars, boot>>

NextRule(c) ==
  [at |-> "nextRule", acl |-> call[c].acl, rules |-> call[c].rules,
   add |-> call[c].add, del |-> call[c].del]

ApplyRule(c) ==
  LET r == call[c].rule
  IN /\ At(c, "apply")
     /\ \/ /\ SaiProcessAcl(call[c].acl, r, call[c].content)
           /\ call' = [call EXCEPT ![c] = NextRule(c)]
        \/ /\ SaiProcessAclFails(call[c].acl, r, call[c].content)
           /\ Return(c)
     /\ UNCHANGED <<dbVars, rulesToAcls, aclKnown, boot>>

\* DeleteAclRuleFromAclMap: one occurrence of the ACL goes.
WithoutAcl(acls, a) ==
  LET S == {i \in 1..Len(acls) : acls[i] = a}
  IN IF S = {} THEN acls
     ELSE SubSeq(acls, 1, First(S) - 1) \o SubSeq(acls, First(S) + 1, Len(acls))

DetachRule(c, r) ==
  /\ At(c, "nextRule")
  /\ call[c].add = {}
  /\ r \in call[c].del
  /\ rulesToAcls' = [rulesToAcls EXCEPT ![r] =
                       IF @ = None THEN @ ELSE WithoutAcl(@, call[c].acl)]
  /\ call' = [call EXCEPT ![c] = [at |-> "remove", acl |-> @.acl, rules |-> @.rules,
                                  add |-> {}, del |-> @.del \ {r}, rule |-> r]]
  /\ UNCHANGED <<saiVars, dbVars, aclKnown, boot>>

\* DeleteAclRuleFromAcl: a rule that is not in the database is no error.  Left
\* out are its other refusals (aclMgr.go:353-363 answers false without an error
\* and leaves the entry, saiIntf.go:940-950 fails).  While calls do not overlap
\* they cannot happen: a rule of a stored ACL was applied with the interfaces
\* and the content that are looked at again here, and an update of the rule that
\* the plugin refuses is not stored.
RemoveRule(c) ==
  LET r == call[c].rule
  IN /\ At(c, "remove")
     /\ \/ /\ dbRule[r] = None
           /\ call' = [call EXCEPT ![c] = NextRule(c)]
           /\ UNCHANGED saiVars
        \/ /\ dbRule[r] # None
           /\ SaiDeleteAclRuleFromAcl(call[c].acl, r)
           /\ call' = [call EXCEPT ![c] = NextRule(c)]
        \/ /\ dbRule[r] # None
           /\ Found(call[c].acl) = {}
           /\ Return(c)
           /\ UNCHANGED saiVars
     /\ UNCHANGED <<dbVars, mgrVars, boot>>

\* The call succeeds and the client stores the ACL.
StoreAcl(c) ==
  /\ At(c, "nextRule")
  /\ call[c].add = {} /\ call[c].del = {}
  /\ dbAcl' = [dbAcl EXCEPT ![call[c].acl] = call[c].rules]
  /\ Return(c)
  /\ UNCHANGED <<saiVars, dbRule, mgrVars, boot>>

(***************************************************************************)
(* DeleteAcl leaves the rules of the ACL attached to it.                   *)
(***************************************************************************)
\* (Mutant: the ASIC is not told.)
RemoveAclForgets(a) == UNCHANGED saiVars

RemoveAcl(a) == SaiDeleteAcl(a)

DeleteAcl(c, a) ==
  /\ Ready(c)
  /\ dbAcl[a] # None
  /\ a \in aclKnown
  /\ RemoveAcl(a)
  /\ aclKnown' = aclKnown \ {a}
  /\ call' = [call EXCEPT ![c] = [at |-> "unstoreAcl", acl |-> a]]
  /\ UNCHANGED <<dbVars, rulesToAcls, boot>>

UnstoreAcl(c) ==
  /\ At(c, "unstoreAcl")
  /\ dbAcl' = [dbAcl EXCEPT ![call[c].acl] = None]
  /\ Return(c)
  /\ UNCHANGED <<saiVars, dbRule, mgrVars, boot>>

-----------------------------------------------------------------------------
(***************************************************************************)
(* The process starts again: Init, RestoreAclRuleDB, then RestoreAclDB.    *)
(***************************************************************************)
RestoredRules == [r \in Rule |-> IF dbRule[r] = None THEN None ELSE << >>]

Restart ==
  /\ aclTable' = [i \in 1..MaxTable |-> None]
  /\ aclTableCount' = 0
  /\ rulesToAcls' = RestoredRules
  /\ aclKnown' = {}
  /\ call' = [c \in Client \cup {Boot} |-> None]
  /\ boot' = {a \in Acl : dbAcl[a] # None}
  /\ UNCHANGED dbVars

\* RestoreAclDB: an ACL without rules is refused.
RestoreAcl(a) ==
  /\ a \in boot
  /\ call[Boot] = None
  /\ boot' = boot \ {a}
  /\ \/ /\ dbAcl[a] = {}
        /\ UNCHANGED <<aclKnown, call>>
     \/ /\ dbAcl[a] # {}
        /\ aclKnown' = aclKnown \cup {a}
        /\ call' = [call EXCEPT ![Boot] = AclCall(a, dbAcl[a], {})]
  /\ UNCHANGED <<saiVars, dbVars, rulesToAcls>>

Next ==
  \/ \E c \in Client, r \in Rule, content \in Content :
       CreateAclRule(c, r, content) \/ UpdateAclRule(c, r, content)
  \/ \E c \in Client, r \in Rule : DeleteAclRule(c, r)
  \/ \E c \in Client, a \in Acl, rules \in SUBSET Rule :
       CreateAcl(c, a, rules) \/ UpdateAcl(c, a, rules)
  \/ \E c \in Client, a \in Acl : DeleteAcl(c, a)
  \/ \E c \in Client :
       StoreRule(c) \/ UpdateInNextAcl(c) \/ UpdatedInAcls(c) \/ UnstoreAcl(c)
  \/ \E c \in Client \cup {Boot}, r \in Rule : AttachRule(c, r) \/ DetachRule(c, r)
  \/ \E c \in Client \cup {Boot} :
       LookupRule(c) \/ ApplyRule(c) \/ RemoveRule(c) \/ StoreAcl(c)
  \/ Restart
  \/ \E a \in Acl : RestoreAcl(a)

Spec == Init /\ [][Next]_vars

-----------------------------------------------------------------------------
(***************************************************************************)
(* Properties.  Those of Quiet states need that calls do not overlap, and  *)
(* all need that no name is a prefix of another.                           *)
(***************************************************************************)
Quiet == \A c \in Client \cup {Boot} : call[c] = None

\* r has an entry in a table of a.
InHw(a, r) ==
  \E i \in 1..MaxTable, j \in 1..MaxEntry :
    /\ aclTable[i] # None
    /\ aclTable[i].name = a
    /\ aclTable[i].entries[j] # None
    /\ aclTable[i].entries[j].rule = r

\* DeleteAclRule refuses a rule that is attached, and the removal from the ASIC
\* (DeleteAclRuleFromAcl) needs the rule in the database: between calls a rule
\* with an entry in the ASIC is attached to the ACL of the entry, and stored.
RulesInHwKept ==
  Quiet => \A a \in Acl, r \in Rule :
    InHw(a, r) => /\ dbRule[r] # None
                  /\ rulesToAcls[r] # None
                  /\ \E k \in 1..Len(rulesToAcls[r]) : rulesToAcls[r][k] = a

\* CreateAclConfig, UpdateAcl, UpdateAclRule and a restart, failed calls and
\* crashes between them: what the client was told is configured is in the ASIC.
\* (Not with as many ACLs as there may be tables: once the last place is taken
\* SaiProcessAcl adds no entry to any table, and a restart takes them in
\* another order.)
ConfiguredInHw ==
  (Quiet /\ boot = {}) => \A a \in Acl :
    dbAcl[a] \notin {None, {}} =>
      /\ a \in aclKnown
      /\ \A r \in dbAcl[a] : InHw(a, r)

\* A table of the ASIC can be reached: its name is in aclKeyToRulesMap, without
\* which DeleteAcl and UpdateAcl refuse, and it is the only one of that name.
TablesReachable ==
  \A i \in 1..MaxTable : aclTable[i] # None =>
    /\ aclTable[i].name \in aclKnown
    /\ \A j \in 1..MaxTable \ {i} : aclTable[j] # None => aclTable[j].name # aclTable[i].name

\* UpdateAclRuleConfig visits the ACLs in ruleToAclKeyMap: when it succeeds, so
\* that the client stores the new rule, no table has an entry of the old one.
UpdatesReachHw ==
  [][\A r \in Rule : (None \notin {dbRule[r], dbRule'[r]} /\ dbRule[r] # dbRule'[r]) =>
       \A i \in 1..MaxTable, j \in 1..MaxEntry :
         (aclTable[i] # None /\ aclTable[i].entries[j] # None
            /\ aclTable[i].entries[j].rule = r)
           => aclTable[i].entries[j].content = dbRule'[r]]_vars
=============================================================================
