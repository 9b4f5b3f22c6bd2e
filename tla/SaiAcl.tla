------------------------------- MODULE SaiAcl -------------------------------
(***************************************************************************)
(* The ACL tables of the SAI plugin: aclTableIdList, aclTableCount and the *)
(* functions of sai/saiAcl.c, with the checks sai/saiIntf.go makes before  *)
(* it calls them.  The soft switch answers 0 to every ACL call.            *)
(*                                                                         *)
(* Abstractions.  The match fields of a rule are its content, which the    *)
(* plugin accepts or refuses.  A table of the ASIC holds MaxEntry entries, *)
(* no more than there are places in entryIdList; the ASIC accepts every    *)
(* other call.  So an update never stops between the removal of the old    *)
(* entry and the creation of the new one (saiAcl.c:252-279), where a call  *)
(* refused by the ASIC would leave the rule without an entry.  Ranges and  *)
(* the list of tables bound to a port, which every new entry overwrites,   *)
(* are left out.  Only ingress tables exist: the manager refuses the       *)
(* others.                                                                 *)
(***************************************************************************)
EXTENDS Integers, FiniteSets, Sequences

CONSTANTS
  Acl, Rule,    \* their names
  Prefix,       \* pairs of two names, the first a proper prefix of the second
  Content,      \* what a rule matches and does
  Refused,      \* the contents the plugin refuses
  MaxTable,     \* ACL_MAX_TABLE
  MaxEntry,     \* entries of a table, at most ACL_TABLE_SIZE
  None

ASSUME PrefixAssumption == Prefix \subseteq (Acl \X Acl) \cup (Rule \X Rule)
ASSUME RefusedAssumption == Refused \subseteq Content
ASSUME SizeAssumption == MaxTable \in Nat \ {0} /\ MaxEntry \in Nat \ {0}

Entry == [rule : Rule, content : Content]
Table == [name : Acl, entries : [1..MaxEntry -> Entry \cup {None}]]

ASSUME NoneAssumption == None \notin Entry \cup Table \cup Content

VARIABLES
  aclTable,      \* aclTableIdList, an unused place is None
  aclTableCount

saiVars == <<aclTable, aclTableCount>>

SaiInitAcl ==
  /\ aclTable = [i \in 1..MaxTable |-> None]
  /\ aclTableCount = 0

First(S) == CHOOSE i \in S : \A j \in S : i <= j

\* strncmp over the length of the name asked for.
Matches(name, stored) == stored = name \/ <<name, stored>> \in Prefix

Found(acl) == {i \in 1..MaxTable : aclTable[i] # None /\ Matches(acl, aclTable[i].name)}

SaiSearchAclTableId(acl) == First(Found(acl))

EmptyTable(acl) == [name |-> acl, entries |-> [i \in 1..MaxEntry |-> None]]

FreePlaces == {i \in 1..MaxTable : aclTable[i] = None}

FreeEntries(t) == {i \in 1..MaxEntry : t.entries[i] = None}

\* SaiCreateAclEntry and SaiPushAclEntryId.
WithEntry(t, rule, content) ==
  [t EXCEPT !.entries[First(FreeEntries(t))] = [rule |-> rule, content |-> content]]

-----------------------------------------------------------------------------
(***************************************************************************)
(* SaiPlugin.CreateAclConfig and SaiProcessAcl: the table is created if it *)
(* is not found, but none is once aclTableCount has reached the limit, and *)
(* then no entry is added to an old one either.                            *)
(***************************************************************************)
TableForEntry(acl) ==
  IF Found(acl) # {} THEN SaiSearchAclTableId(acl) ELSE First(FreePlaces)

TableOrEmpty(acl) ==
  IF Found(acl) # {} THEN aclTable[SaiSearchAclTableId(acl)] ELSE EmptyTable(acl)

\* CreateAclConfig up to the call of SaiProcessAcl.
PluginAccepts(content) == content \notin Refused

AtTableLimit == aclTableCount = MaxTable

SaiProcessAcl(acl, rule, content) ==
  LET t == TableOrEmpty(acl)
  IN /\ PluginAccepts(content)
     /\ ~AtTableLimit
     /\ FreeEntries(t) # {}
     /\ aclTable' = [aclTable EXCEPT ![TableForEntry(acl)] = WithEntry(t, rule, content)]
     /\ aclTableCount' = IF Found(acl) = {} THEN aclTableCount + 1 ELSE aclTableCount

\* (A table is never new and full: nothing is left behind.)
SaiProcessAclFails(acl, rule, content) ==
  /\ \/ ~PluginAccepts(content)
     \/ AtTableLimit
     \/ FreeEntries(TableOrEmpty(acl)) = {}
  /\ UNCHANGED saiVars

\* A place is given back, aclTableCount is not decremented.
SaiDeleteAcl(acl) ==
  /\ Found(acl) # {}
  /\ aclTable' = [aclTable EXCEPT ![SaiSearchAclTableId(acl)] = None]
  /\ UNCHANGED aclTableCount

\* Every entry whose rule name matches goes.
WithoutRule(t, rule) ==
  [t EXCEPT !.entries =
     [i \in 1..MaxEntry |->
        IF t.entries[i] # None /\ Matches(rule, t.entries[i].rule) THEN None
        ELSE t.entries[i]]]

SaiDeleteAclRuleFromAcl(acl, rule) ==
  LET i == SaiSearchAclTableId(acl)
  IN /\ Found(acl) # {}
     /\ aclTable' = [aclTable EXCEPT ![i] = WithoutRule(aclTable[i], rule)]
     /\ UNCHANGED aclTableCount

\* UpdateAclRule: an entry is created whether or not there was one.
SaiUpdateAclRule(acl, rule, content) ==
  LET i == SaiSearchAclTableId(acl)
      t == WithoutRule(aclTable[i], rule)
  IN /\ PluginAccepts(content)
     /\ Found(acl) # {}
     /\ FreeEntries(t) # {}
     /\ aclTable' = [aclTable EXCEPT ![i] = WithEntry(t, rule, content)]
     /\ UNCHANGED aclTableCount

\* Without a free entry nothing was deleted either.
SaiUpdateAclRuleFails(acl, rule, content) ==
  /\ \/ ~PluginAccepts(content)
     \/ Found(acl) = {}
     \/ /\ Found(acl) # {}
        /\ FreeEntries(WithoutRule(aclTable[SaiSearchAclTableId(acl)], rule)) = {}
  /\ UNCHANGED saiVars
=============================================================================
