---------------------------- MODULE Ipv6Proofs ----------------------------
(***************************************************************************)
(* Proofs about Ipv6Intf for any ports, addresses and scenes.              *)
(*                                                                         *)
(* First the pool of link local addresses, until the process dies: PoolInv *)
(* adds to the marks what the call at hand may still do to them.  An       *)
(* address is marked before its entry is stored and is unmarked after the  *)
(* entry is gone, in steps that other calls cannot enter; the address that *)
(* waits to be stored is in CallInv.                                       *)
(*                                                                         *)
(* Then the objects: ObjInv has for each port the phase of the call at     *)
(* hand, whose operations follow each other in a fixed order, so that the  *)
(* addresses of the port and its count are known in each.  The kernel may  *)
(* refuse an address in any phase, a create is undone, and a freed address *)
(* may be taken for the one in use: that puts the port among amiss, of     *)
(* which nothing is claimed, and touches no other port.                    *)
(*                                                                         *)
(* Last the restarts: Boot has what Init has done and still has on its     *)
(* list.  The operations are about different addresses, global ones first, *)
(* so that the manager accepts those that no other port's object shares    *)
(* and the kernel those it did not choose itself.  Nothing is assumed of   *)
(* the calls before, and the process may die in any of them or in Init.    *)
(***************************************************************************)
EXTENDS Ipv6Intf, FiniteSetTheorems, SequenceTheorems, TLAPS

-----------------------------------------------------------------------------
(***************************************************************************)
(* Calls.                                                                  *)
(***************************************************************************)
\* What is done with a global address names one.
Operations == {x \in Operation : x.do \in {"addGlobal", "delGlobal", "undo"} => x.object.ip # None}

Calls == [req : {"create", "update", "delete"}, intf : Port, object : Object \cup {None},
          todo : Seq(Operations), addr : Addr \cup {None}]

\* The operations and objects of a port.
OpsOf(i) == {x \in Operations : x.object.intf = i}
ObjectsOf(i) == {o \in Object : o.intf = i}

CfgOk == cfg \in [Port -> Object \cup {None}] /\ \A i \in Port : cfg[i] \in ObjectsOf(i) \cup {None}

\* A call is about one port, and the address that is being stored is in no
\* other place.
CallInv ==
  call # None =>
    /\ call \in Calls /\ call.todo \in Seq(OpsOf(call.intf))
    /\ call.object \in ObjectsOf(call.intf) \cup {None}
    /\ call.req # "delete" => call.object \in Object
    /\ call.req = "delete" => call.object = None
    /\ call.todo = <<>> => call.addr = None
    /\ call.addr # None =>
         \/ Head(call.todo).do = "addGlobal" /\ call.addr \in Global
         \/ /\ Head(call.todo).do = "addLink"
            /\ call.addr \in scene.pool /\ ~linkLocal[call.addr].used

Entries == [addr : Addr, intf : Port, admin : Admin]

Marks ==
  \A a \in scene.pool, i \in Port :
    Entry(a, i) # {} <=> linkLocal[a] = [intf |-> i, used |-> TRUE]

\* An address in use is in use by a port.
Named == \A a \in scene.pool : linkLocal[a].used => linkLocal[a].intf # None

PoolOk ==
  /\ CfgOk
  /\ ipv6DB \subseteq Entries
  /\ linkLocal \in [scene.pool -> [intf : Port \cup {None}, used : BOOLEAN]]
  /\ Named
  /\ CallInv
  /\ Marks

PoolInv == restarts \in Nat /\ scene \in Scenes /\ (restarts = 0 => PoolOk)

\* What a scene allows is in the constants.
LEMMA SceneFacts ==
  ASSUME scene \in Scenes
  PROVE  scene.config \subseteq Object /\ scene.pool \subseteq LinkLocal /\ scene.pool \cap Global = {}
BY SceneAssumption, AddrAssumption DEF SceneType

\* None is no call, no address and no object.
LEMMA NotNone ==
  /\ \A c \in Calls : c # None
  /\ \A a \in Addr : a # None
  /\ \A o \in Object : o # None
<1>1. Calls \subseteq [req : {"create", "update", "delete"}, intf : Port, object : Object \cup {None},
                       todo : Seq(Operation), addr : Addr \cup {None}]
  <2>1. Seq(Operations) \subseteq Seq(Operation)
    <3>1. Operations \subseteq Operation
      BY DEF Operations
    <3>2. ASSUME NEW s \in Seq(Operations)
          PROVE  s \in Seq(Operation)
      BY <3>1, <3>2, SeqDef
    <3> QED BY <3>2
  <2> QED BY <2>1 DEF Calls
<1> QED BY <1>1, NoneAssumption, AddrAssumption

\* An element before a sequence.
LEMMA ConsSeq ==
  ASSUME NEW S, NEW x \in S, NEW s \in Seq(S)
  PROVE  /\ <<x>> \o s \in Seq(S) /\ <<x>> \o s # <<>>
         /\ Head(<<x>> \o s) = x /\ Tail(<<x>> \o s) = s
<1>1. <<x>> \in Seq(S) /\ Len(<<x>>) = 1 /\ <<x>>[1] = x
  OBVIOUS
<1>2. PICK r : r = <<x>> \o s
  OBVIOUS
<1>3. /\ r \in Seq(S) /\ Len(r) = 1 + Len(s) /\ Len(s) \in Nat
      /\ \A i \in 1 .. Len(r) : r[i] = IF i <= 1 THEN <<x>>[i] ELSE s[i - 1]
  BY <1>1, <1>2, ConcatProperties, LenProperties
<1>4. r # <<>> /\ r[1] = x
  BY <1>1, <1>3
<1>5. Head(r) = x
  BY <1>4
<1>6. Tail(r) = s
  <2>1. /\ Tail(r) \in Seq(S) /\ Len(Tail(r)) = Len(s)
        /\ \A i \in 1 .. Len(s) : Tail(r)[i] = r[i + 1]
    BY <1>3, <1>4, HeadTailProperties
  <2>2. \A i \in 1 .. Len(s) : Tail(r)[i] = s[i]
    BY <1>3, <2>1
  <2> QED BY <2>1, <2>2, SeqEqual
<1> QED BY <1>2, <1>3, <1>4, <1>5, <1>6

\* One element and no more.
LEMMA OneMore ==
  ASSUME NEW S, NEW x \in S
  PROVE  <<x>> \in Seq(S) /\ <<x>> # <<>> /\ Head(<<x>>) = x /\ Tail(<<x>>) = <<>>
OBVIOUS

\* A sequence of a smaller set.
LEMMA SeqSubset ==
  ASSUME NEW S, NEW T, S \subseteq T, NEW s \in Seq(S)
  PROVE  s \in Seq(T)
BY SeqDef

\* What a call has to do at its start, for an object of its port.
LEMMA OpsTyped ==
  ASSUME NEW i, NEW o \in ObjectsOf(i), NEW s \in Seq(OpsOf(i))
  PROVE  /\ CreateOps(o) \in Seq(OpsOf(i)) /\ CreateOps(o) # <<>>
         /\ DeleteOps(o) \in Seq(OpsOf(i)) /\ DeleteOps(o) # <<>>
         /\ DeleteOps(o) \o s \in Seq(OpsOf(i)) /\ DeleteOps(o) \o s # <<>>
         /\ <<Op("setGlobal", o)>> \o LinkOp("setLink", o) \in Seq(OpsOf(i))
         /\ <<Op("setGlobal", o)>> \o LinkOp("setLink", o) # <<>>
<1>0. o \in Object /\ o.intf = i /\ (o.ip # None \/ o.link)
  BY DEF Object, ObjectsOf
<1>1. ASSUME NEW do \in {"addLink", "delLink", "setLink"}
      PROVE  LinkOp(do, o) \in Seq(OpsOf(i)) /\ (o.link => LinkOp(do, o) # <<>>)
  <2>1. Op(do, o) \in OpsOf(i)
    BY <1>0 DEF Op, Operations, Operation, OpsOf
  <2> QED BY <2>1 DEF LinkOp
<1>2. ASSUME NEW do \in {"addGlobal", "delGlobal"}
      PROVE  GlobalOp(do, o) \in Seq(OpsOf(i)) /\ (o.ip # None => GlobalOp(do, o) # <<>>)
  <2>1. o.ip # None => Op(do, o) \in OpsOf(i)
    BY <1>0 DEF Op, Operations, Operation, OpsOf
  <2> QED BY <2>1 DEF GlobalOp
<1>3. ASSUME NEW a \in Seq(OpsOf(i)), NEW b \in Seq(OpsOf(i)), a # <<>> \/ b # <<>>
      PROVE  a \o b \in Seq(OpsOf(i)) /\ a \o b # <<>>
  BY <1>3, ConcatProperties, EmptySeq, LenProperties
<1>4. CreateOps(o) \in Seq(OpsOf(i)) /\ CreateOps(o) # <<>>
  BY <1>0, <1>1, <1>2, <1>3 DEF CreateOps
<1>5. DeleteOps(o) \in Seq(OpsOf(i)) /\ DeleteOps(o) # <<>>
  BY <1>0, <1>1, <1>2, <1>3 DEF DeleteOps
<1>6. Op("setGlobal", o) \in OpsOf(i)
  BY <1>0 DEF Op, Operations, Operation, OpsOf
<1>7. LinkOp("setLink", o) \in Seq(OpsOf(i))
  BY <1>1
<1>8. /\ <<Op("setGlobal", o)>> \o LinkOp("setLink", o) \in Seq(OpsOf(i))
      /\ <<Op("setGlobal", o)>> \o LinkOp("setLink", o) # <<>>
  BY <1>6, <1>7, ConsSeq
<1> QED BY <1>3, <1>4, <1>5, <1>8

\* The same for the operations of an update.
LEMMA UpdateOpsTyped ==
  ASSUME NEW i, NEW o \in ObjectsOf(i), NEW new \in ObjectsOf(i)
  PROVE  UpdateOps(o, new) \in Seq(OpsOf(i)) /\ UpdateOps(o, new) # <<>>
<1>1. CreateOps(new) \in Seq(OpsOf(i))
  BY OpsTyped, EmptySeq
<1> QED BY <1>1, OpsTyped DEF UpdateOps

\* The next operation of a call, whatever the result of the last one.
LEMMA ProceedStep ==
  ASSUME CfgOk, CallInv, call # None, call.todo # <<>>,
         NEW ok \in BOOLEAN, NEW clean, ~ok => call.addr = None, Proceed(ok, clean)
  PROVE  CfgOk' /\ CallInv'
<1>1. /\ call \in Calls /\ call.todo \in Seq(OpsOf(call.intf)) /\ call.todo # <<>>
      /\ call.object \in ObjectsOf(call.intf) \cup {None}
      /\ call.req # "delete" => call.object \in Object
      /\ call.req = "delete" => call.object = None
  BY DEF CallInv
<1>2. CfgOk'
  BY DEF Proceed, CfgOk
<1>3. ASSUME NEW todo \in Seq(OpsOf(call.intf)), call' = [call EXCEPT !.todo = todo, !.addr = None]
      PROVE  CallInv'
  <2>1. todo \in Seq(Operations)
    BY SeqSubset DEF OpsOf
  <2>2. call' \in Calls /\ call'.todo = todo /\ call'.addr = None /\ call'.intf = call.intf
        /\ call'.req = call.req /\ call'.object = call.object
    BY <1>1, <1>3, <2>1 DEF Calls
  <2> QED BY <1>1, <1>3, <2>2 DEF CallInv
<1>4. CASE ~ok /\ Undone(Head(call.todo).do)
           /\ call' = [call EXCEPT !.todo = <<Op("undo", call.object)>>]
  <2>1. call.object \in Object /\ call.object.ip # None /\ call.object.intf = call.intf
    BY <1>1, <1>4, NotNone DEF Undone, ObjectsOf
  <2>2. Op("undo", call.object) \in OpsOf(call.intf)
    BY <2>1 DEF Op, Operations, Operation, OpsOf
  <2>3. PICK todo \in Seq(OpsOf(call.intf)) : todo = <<Op("undo", call.object)>>
    BY <2>2, OneMore
  <2>4. call' = [call EXCEPT !.todo = todo, !.addr = None]
    BY <1>1, <1>4, <2>3 DEF Calls
  <2> QED BY <1>2, <1>3, <2>4
<1>5. CASE call' = [call EXCEPT !.todo = Tail(call.todo), !.addr = None]
  <2>1. Tail(call.todo) \in Seq(OpsOf(call.intf))
    BY <1>1, HeadTailProperties
  <2> QED BY <1>2, <1>3, <1>5, <2>1
<1>6. CASE \E success \in BOOLEAN : Reply(success)
  <2>1. call' = None \/ call' = [call EXCEPT !.todo = <<>>, !.addr = None]
    BY <1>6 DEF Reply
  <2>2. <<>> \in Seq(OpsOf(call.intf))
    BY EmptySeq
  <2>3. call' = None => CallInv'
    BY DEF CallInv
  <2> QED BY <1>2, <1>3, <2>1, <2>2, <2>3
<1>7. (ok \/ (call.req = "update" /\ Head(call.todo).do # "undo")) \in BOOLEAN
  OBVIOUS
<1> QED BY <1>2, <1>4, <1>5, <1>6, <1>7 DEF Proceed

\* A call begins with something to do.
LEMMA StartStep ==
  ASSUME NEW req \in {"create", "update", "delete"}, NEW i \in Port,
         NEW object \in ObjectsOf(i) \cup {None}, req = "delete" <=> object = None,
         NEW ops \in Seq(OpsOf(i)), ops # <<>>, Start(req, i, object, ops)
  PROVE  CallInv'
<1>1. call' = [req |-> req, intf |-> i, object |-> object, todo |-> ops, addr |-> None]
  BY DEF Start
<1>2. ops \in Seq(Operations)
  BY SeqSubset DEF OpsOf
<1>3. call' \in Calls
  BY <1>1, <1>2 DEF Calls, ObjectsOf
<1> QED BY <1>1, <1>3 DEF CallInv, ObjectsOf

\* What a call's first operation is about.
LEMMA CurrentFacts ==
  ASSUME CallInv, call # None, call.todo # <<>>
  PROVE  /\ Head(call.todo) \in OpsOf(call.intf) /\ call.intf \in Port
         /\ Current \in Object /\ Current.intf = call.intf /\ Current.admin \in Admin
         /\ Current.ip \in Global \cup {None}
         /\ Head(call.todo).do \in {"addGlobal", "delGlobal", "undo"} => Current.ip \in Global
         /\ Head(call.todo).do # "addStored"
<1>1. call.todo \in Seq(OpsOf(call.intf)) /\ call.intf \in Port
  BY DEF CallInv, Calls
<1>2. Head(call.todo) \in OpsOf(call.intf)
  BY <1>1, HeadTailProperties
<1>3. /\ Current \in Object /\ Current.intf = call.intf
      /\ Head(call.todo).do \in {"addGlobal", "delGlobal", "undo"} => Current.ip # None
      /\ Head(call.todo).do # "addStored"
  BY <1>2 DEF Operations, Operation, Current, OpsOf
<1> QED BY <1>1, <1>2, <1>3 DEF Object

\* A call begins.
LEMMA CallBegins ==
  ASSUME scene \in Scenes, CfgOk, CreateIPv6Intf \/ UpdateIPv6Intf \/ DeleteIPv6Intf
  PROVE  CallInv' /\ CfgOk' /\ UNCHANGED <<ipv6DB, linkLocal, llStored>>
<1>1. ASSUME NEW req, NEW i, NEW o, NEW ops, Start(req, i, o, ops)
      PROVE  CfgOk' /\ UNCHANGED <<ipv6DB, linkLocal, llStored>>
  BY <1>1 DEF Start, CfgOk, mgrVars
<1>3. CASE CreateIPv6Intf
  <2>1. PICK new \in Object : Start("create", new.intf, new, CreateOps(new))
    BY <1>3, SceneFacts DEF CreateIPv6Intf
  <2>2. new.intf \in Port /\ new \in ObjectsOf(new.intf) /\ new # None
    BY NotNone DEF Object, ObjectsOf
  <2>3. PICK ops \in Seq(OpsOf(new.intf)) : ops = CreateOps(new) /\ ops # <<>>
    BY <2>2, OpsTyped, EmptySeq
  <2> QED BY <1>1, <2>1, <2>2, <2>3, StartStep
<1>4. CASE UpdateIPv6Intf
  <2>1. PICK new \in Object :
          cfg[new.intf] # None /\ Start("update", new.intf, new, UpdateOps(cfg[new.intf], new))
    BY <1>4, SceneFacts DEF UpdateIPv6Intf
  <2>2. new.intf \in Port /\ new \in ObjectsOf(new.intf) /\ new # None
    BY NotNone DEF Object, ObjectsOf
  <2>3. cfg[new.intf] \in ObjectsOf(new.intf)
    BY <2>1, <2>2 DEF CfgOk
  <2>4. PICK ops \in Seq(OpsOf(new.intf)) : ops = UpdateOps(cfg[new.intf], new) /\ ops # <<>>
    BY <2>2, <2>3, UpdateOpsTyped
  <2> QED BY <1>1, <2>1, <2>2, <2>4, StartStep
<1>5. CASE DeleteIPv6Intf
  <2>1. PICK i \in Port : cfg[i] # None /\ Start("delete", i, None, DeleteOps(cfg[i]))
    BY <1>5 DEF DeleteIPv6Intf
  <2>2. cfg[i] \in ObjectsOf(i)
    BY <2>1 DEF CfgOk
  <2>3. PICK ops \in Seq(OpsOf(i)) : ops = DeleteOps(cfg[i]) /\ ops # <<>>
    BY <2>2, OpsTyped, EmptySeq
  <2> QED BY <1>1, <2>1, <2>3, StartStep
<1> QED BY <1>3, <1>4, <1>5

\* The address CreateIPIntf is about to store, or the operation after it.
LEMMA CreateKeepsCall ==
  ASSUME CfgOk, CallInv, UNCHANGED scene, call # None, call.todo # <<>>, call.addr = None,
         NEW a \in Addr, CreateIPIntf(a),
         \/ Head(call.todo).do = "addGlobal" /\ a \in Global
         \/ Head(call.todo).do = "addLink" /\ a \in scene.pool /\ ~linkLocal[a].used
  PROVE  CfgOk' /\ CallInv' /\ UNCHANGED <<ipv6DB, linkLocal, llStored>>
<1>1. UNCHANGED <<ipv6DB, llStored>>
  BY DEF CreateIPIntf
<1>2. CASE \E clean \in BOOLEAN : Refused(a, Current.intf, clean)
  <2>1. linkLocal' = linkLocal /\ \E clean \in BOOLEAN : Proceed(FALSE, clean)
    BY <1>2 DEF Refused, Doing
  <2> QED BY <1>1, <2>1, ProceedStep
<1>3. CASE ToBeStored(a)
  <2>1. call' = [call EXCEPT !.addr = a] /\ UNCHANGED <<linkLocal, cfg>> /\ call \in Calls
    BY <1>3 DEF ToBeStored, CallInv
  <2>2. call' \in Calls /\ call'.todo = call.todo /\ call'.req = call.req /\ call'.intf = call.intf
        /\ call'.object = call.object /\ call'.addr = a
    BY <2>1 DEF Calls
  <2>3. CallInv'
    BY <2>1, <2>2 DEF CallInv
  <2>4. CfgOk'
    BY <2>1 DEF CfgOk
  <2> QED BY <1>1, <2>1, <2>3, <2>4
<1>4. First \in BOOLEAN /\ FALSE \in BOOLEAN
  BY DEF First, Undone
<1> QED BY <1>2, <1>3, <1>4 DEF CreateIPIntf

\* What AddGlobal and AddLink are about.
LEMMA AddFacts ==
  ASSUME scene \in Scenes, CallInv, AddGlobal \/ AddLink
  PROVE  /\ call # None /\ call.todo # <<>> /\ call.addr = None
         /\ \/ \E a \in Addr : /\ CreateIPIntf(a)
                               /\ \/ Head(call.todo).do = "addGlobal" /\ a \in Global
                                  \/ /\ Head(call.todo).do = "addLink"
                                     /\ a \in scene.pool /\ ~linkLocal[a].used
            \/ Proceed(FALSE, First) /\ UNCHANGED <<ipv6DB, linkLocal, llStored>>
<1>1. CASE AddGlobal
  <2>1. call # None /\ call.todo # <<>> /\ call.addr = None /\ Head(call.todo).do = "addGlobal"
    BY <1>1 DEF AddGlobal, Doing
  <2>2. PICK a \in Global : a = Current.ip
    BY <2>1, CurrentFacts
  <2> QED BY <1>1, <2>1, <2>2 DEF AddGlobal, Addr
<1>2. CASE AddLink
  <2>1. call # None /\ call.todo # <<>> /\ call.addr = None /\ Head(call.todo).do = "addLink"
    BY <1>2 DEF AddLink, Doing
  <2>2. scene.pool \subseteq Addr
    BY SceneFacts DEF Addr
  <2> QED BY <1>2, <2>1, <2>2 DEF AddLink, mgrVars
<1> QED BY <1>1, <1>2

-----------------------------------------------------------------------------
(***************************************************************************)
(* The pool of link local addresses.                                       *)
(***************************************************************************)
\* Two marks are equal if they are of one port and in one state.
LEMMA MarkEq ==
  ASSUME NEW i, NEW j, NEW u \in BOOLEAN, NEW v \in BOOLEAN
  PROVE  [intf |-> i, used |-> u] = [intf |-> j, used |-> v] <=> i = j /\ u = v
<1>1. [intf |-> i, used |-> u].intf = i /\ [intf |-> i, used |-> u].used = u
  OBVIOUS
<1>2. [intf |-> j, used |-> v].intf = j /\ [intf |-> j, used |-> v].used = v
  OBVIOUS
<1>3. [intf |-> i, used |-> u] = [intf |-> j, used |-> v] => i = j /\ u = v
  BY <1>1, <1>2
<1>4. i = j /\ u = v => [intf |-> i, used |-> u] = [intf |-> j, used |-> v]
  OBVIOUS
<1> QED BY <1>3, <1>4

\* Setting a mark keeps the type of the pool.
LEMMA MarkTyped ==
  ASSUME NEW S, NEW f \in [S -> [intf : Port \cup {None}, used : BOOLEAN]],
         NEW a \in S, NEW i \in Port, NEW u \in BOOLEAN
  PROVE  [f EXCEPT ![a] = [intf |-> i, used |-> u]] \in [S -> [intf : Port \cup {None}, used : BOOLEAN]]
<1>1. [intf |-> i, used |-> u] \in [intf : Port \cup {None}, used : BOOLEAN]
  OBVIOUS
<1>2. PICK m \in [intf : Port \cup {None}, used : BOOLEAN] : m = [intf |-> i, used |-> u]
  BY <1>1
<1>3. [f EXCEPT ![a] = m] \in [S -> [intf : Port \cup {None}, used : BOOLEAN]]
  OBVIOUS
<1> QED BY <1>2, <1>3

\* A mark is set with the port it is for.
LEMMA NamedStays ==
  ASSUME Named, linkLocal \in [scene.pool -> [intf : Port \cup {None}, used : BOOLEAN]],
         UNCHANGED scene, NEW a \in scene.pool, NEW i \in Port, NEW u \in BOOLEAN,
         linkLocal' = [linkLocal EXCEPT ![a] = [intf |-> i, used |-> u]]
  PROVE  Named'
<1>1. ASSUME NEW b \in scene.pool, linkLocal'[b].used
      PROVE  linkLocal'[b].intf # None
  <2>1. CASE a = b
    <3>1. linkLocal'[b] = [intf |-> i, used |-> u]
      BY <2>1
    <3> QED BY <3>1, AddrAssumption
  <2>2. CASE a # b
    <3>1. linkLocal'[b] = linkLocal[b]
      BY <2>2
    <3> QED BY <1>1, <3>1 DEF Named
  <2> QED BY <2>1, <2>2
<1> QED BY <1>1 DEF Named

\* A step that leaves the entries and the marks alone.
LEMMA MarksStay ==
  ASSUME PoolOk, UNCHANGED <<scene, ipv6DB, linkLocal>>,
         CfgOk', CallInv'
  PROVE  PoolOk'
BY DEF PoolOk, Marks, Named, Entry

\* The address CreateIPIntf is about to store.
LEMMA CreateKeepsPool ==
  ASSUME scene \in Scenes, PoolOk, UNCHANGED scene, call # None, call.todo # <<>>, call.addr = None,
         NEW a \in Addr, CreateIPIntf(a),
         \/ Head(call.todo).do = "addGlobal" /\ a \in Global
         \/ Head(call.todo).do = "addLink" /\ a \in scene.pool /\ ~linkLocal[a].used
  PROVE  PoolOk'
<1>1. CallInv /\ CfgOk
  BY DEF PoolOk
<1> QED BY <1>1, CreateKeepsCall, MarksStay

\* The address is stored, and marked if it is of the pool.
LEMMA StoreKeepsPool ==
  ASSUME scene \in Scenes, PoolOk, UNCHANGED scene, StoreAddress
  PROVE  PoolOk'
<1>1. /\ call # None /\ call.addr # None /\ Proceed(TRUE, TRUE)
      /\ ipv6DB' = ipv6DB \cup
           {[addr |-> call.addr, intf |-> Current.intf, admin |-> AdminOf(call.addr)]}
      /\ linkLocal' = IF Head(call.todo).do = "addLink"
                      THEN [linkLocal EXCEPT ![call.addr] = [intf |-> Current.intf, used |-> TRUE]]
                      ELSE linkLocal
  BY DEF StoreAddress
<1>2. /\ CallInv /\ CfgOk /\ ipv6DB \subseteq Entries /\ Marks /\ Named
      /\ linkLocal \in [scene.pool -> [intf : Port \cup {None}, used : BOOLEAN]]
      /\ scene \in Scenes
  BY DEF PoolOk
<1>3. scene.pool \subseteq LinkLocal /\ scene.pool \cap Global = {}
  BY <1>2, SceneFacts
<1>4. PICK i \in Port, a \in Addr : i = Current.intf /\ a = call.addr
  <2>1. call.todo # <<>> /\ call.addr \in Addr
    BY <1>1, <1>2 DEF CallInv, Calls
  <2> QED BY <1>1, <1>2, <2>1, CurrentFacts
<1>5. \/ Head(call.todo).do # "addLink" /\ a \in Global
      \/ Head(call.todo).do = "addLink" /\ a \in scene.pool /\ ~linkLocal[a].used
  BY <1>1, <1>2, <1>4 DEF CallInv
<1>6. AdminOf(a) \in Admin
  <2>1. call.todo # <<>>
    BY <1>1, <1>2 DEF CallInv
  <2> QED BY <1>1, <1>2, <2>1, CurrentFacts DEF AdminOf, Admin
<1>7. PICK e \in Entries : /\ e.addr = a /\ e.intf = i
                           /\ ipv6DB' = ipv6DB \cup {e}
  BY <1>1, <1>4, <1>6 DEF Entries
<1>8. CfgOk' /\ CallInv'
  <2>1. call.todo # <<>>
    BY <1>1, <1>2 DEF CallInv
  <2> QED BY <1>1, <1>2, <2>1, ProceedStep
<1>9. \/ /\ a \in scene.pool /\ ~linkLocal[a].used
         /\ linkLocal' = [linkLocal EXCEPT ![a] = [intf |-> i, used |-> TRUE]]
      \/ a \notin scene.pool /\ linkLocal' = linkLocal
  BY <1>1, <1>3, <1>4, <1>5
<1>10. linkLocal' \in [scene.pool -> [intf : Port \cup {None}, used : BOOLEAN]]
  <2>1. CASE a \in scene.pool /\ linkLocal' = [linkLocal EXCEPT ![a] = [intf |-> i, used |-> TRUE]]
    BY <1>2, <2>1, MarkTyped
  <2> QED BY <1>2, <1>9, <2>1
<1>11. ASSUME NEW b \in scene.pool, NEW j \in Port
       PROVE  Entry(b, j)' # {} <=> linkLocal'[b] = [intf |-> j, used |-> TRUE]
  <2>1. (\E f \in ipv6DB : f.addr = b /\ f.intf = j) <=> linkLocal[b] = [intf |-> j, used |-> TRUE]
    BY <1>2 DEF Marks, Entry
  <2>2. Entry(b, j)' # {} <=> (\E f \in ipv6DB : f.addr = b /\ f.intf = j) \/ (a = b /\ i = j)
    BY <1>7 DEF Entry
  <2>3. CASE a = b
    <3>1. ~linkLocal[b].used /\ linkLocal'[b] = [intf |-> i, used |-> TRUE]
      BY <1>2, <1>9, <2>3
    <3>2. linkLocal[b] # [intf |-> j, used |-> TRUE]
      BY <3>1
    <3>4. linkLocal'[b] = [intf |-> j, used |-> TRUE] <=> i = j
      BY <3>1, MarkEq
    <3> QED BY <2>1, <2>2, <2>3, <3>2, <3>4
  <2>4. CASE a # b
    <3>1. linkLocal'[b] = linkLocal[b]
      BY <1>2, <1>9, <2>4
    <3> QED BY <2>1, <2>2, <2>4, <3>1
  <2> QED BY <2>3, <2>4
<1>12. Marks'
  BY <1>11 DEF Marks
<1>13. Named'
  <2>1. CASE a \in scene.pool /\ linkLocal' = [linkLocal EXCEPT ![a] = [intf |-> i, used |-> TRUE]]
    BY <1>2, <2>1, NamedStays
  <2>2. CASE linkLocal' = linkLocal
    BY <1>2, <2>2 DEF Named
  <2> QED BY <1>9, <2>1, <2>2
<1> QED BY <1>2, <1>7, <1>8, <1>10, <1>12, <1>13 DEF PoolOk

\* Entries that are still there, perhaps with another admin state, and marks
\* that stay.
LEMMA EntriesStay ==
  ASSUME PoolOk, UNCHANGED <<scene, linkLocal>>, scene \in Scenes,
         CfgOk', CallInv', ipv6DB' \subseteq Entries,
         \A b \in scene.pool, j \in Port : Entry(b, j)' = {} <=> Entry(b, j) = {}
  PROVE  PoolOk'
<1>1. Marks'
  BY DEF PoolOk, Marks
<1> QED BY <1>1 DEF PoolOk, Named

\* An operation that fails at once.
LEMMA UntouchedKeepsPool ==
  ASSUME scene \in Scenes, PoolOk, UNCHANGED scene, call # None, call.todo # <<>>, call.addr = None,
         NEW clean, Proceed(FALSE, clean), UNCHANGED <<ipv6DB, linkLocal>>
  PROVE  PoolOk'
<1>1. UNCHANGED <<ipv6DB, linkLocal>>
  OBVIOUS
<1>2. CfgOk' /\ CallInv'
  BY <1>1, ProceedStep DEF PoolOk
<1> QED BY <1>1, <1>2, MarksStay

\* Deleting a global address leaves the pool as it is.
LEMMA DeleteGlobalKeepsPool ==
  ASSUME scene \in Scenes, PoolOk, UNCHANGED scene, DeleteGlobal
  PROVE  PoolOk'
<1>1. call # None /\ call.todo # <<>> /\ call.addr = None
      /\ Head(call.todo).do \in {"delGlobal", "undo"}
  BY DEF DeleteGlobal, Doing
<1>2. PoolOk /\ CallInv /\ scene \in Scenes /\ CfgOk
  BY DEF PoolOk
<1>3. Current.ip \in Global /\ scene.pool \cap Global = {}
  BY <1>1, <1>2, CurrentFacts, SceneFacts
<1>4. CASE Untouched
  BY <1>1, <1>4, UntouchedKeepsPool DEF Untouched, mgrVars
<1>5. CASE /\ DeleteIPIntf(Current.ip, Current.intf) /\ Proceed(TRUE, TRUE)
           /\ UNCHANGED <<linkLocal, llStored, kUp>>
  <2>1. ipv6DB' = ipv6DB \ Entry(Current.ip, Current.intf)
    BY <1>5 DEF DeleteIPIntf
  <2>2. CfgOk' /\ CallInv'
    BY <1>1, <1>2, <1>5, ProceedStep
  <2>3. ASSUME NEW b \in scene.pool, NEW j \in Port
        PROVE  Entry(b, j)' = Entry(b, j)
    BY <1>3, <2>1 DEF Entry
  <2>4. ipv6DB' \subseteq Entries
    BY <1>2, <2>1 DEF PoolOk
  <2> QED BY <1>2, <1>5, <2>2, <2>3, <2>4, EntriesStay
<1> QED BY <1>4, <1>5 DEF DeleteGlobal

\* An address is freed where it is taken out of the database.
LEMMA DeleteLinkKeepsPool ==
  ASSUME scene \in Scenes, PoolOk, UNCHANGED scene, DeleteLink
  PROVE  PoolOk'
<1>1. call # None /\ call.todo # <<>> /\ call.addr = None
  BY DEF DeleteLink, Doing
<1>2. /\ CallInv /\ CfgOk /\ ipv6DB \subseteq Entries /\ Marks /\ Named
      /\ linkLocal \in [scene.pool -> [intf : Port \cup {None}, used : BOOLEAN]]
      /\ scene \in Scenes
  BY DEF PoolOk
<1>3. CASE Untouched
  BY <1>1, <1>3, UntouchedKeepsPool DEF Untouched, mgrVars
<1>4. CASE \E a \in LinkLocalsOf(Current.intf) :
             /\ DeleteIPIntf(a, Current.intf) /\ linkLocal' = Freed(a, Current.intf)
             /\ Proceed(TRUE, Entry(a, Current.intf) # {})
  <2>1. PICK i \in Port : i = Current.intf
    BY <1>1, <1>2, CurrentFacts
  <2>2. PICK a \in scene.pool :
          /\ linkLocal[a].intf = i
          /\ DeleteIPIntf(a, i) /\ linkLocal' = Freed(a, i)
          /\ Proceed(TRUE, Entry(a, i) # {})
    BY <1>4, <2>1 DEF LinkLocalsOf
  <2>3. ipv6DB' = ipv6DB \ Entry(a, i)
    BY <2>2 DEF DeleteIPIntf
  <2>4. linkLocal' = [linkLocal EXCEPT ![a] = [intf |-> i, used |-> FALSE]]
    BY <2>2 DEF Freed
  <2>5. CfgOk' /\ CallInv'
    BY <1>1, <1>2, <2>2, ProceedStep
  <2>6. linkLocal' \in [scene.pool -> [intf : Port \cup {None}, used : BOOLEAN]]
    BY <1>2, <2>4, MarkTyped
  <2>7. ASSUME NEW b \in scene.pool, NEW j \in Port
        PROVE  Entry(b, j)' # {} <=> linkLocal'[b] = [intf |-> j, used |-> TRUE]
    <3>1. Entry(b, j) # {} <=> linkLocal[b] = [intf |-> j, used |-> TRUE]
      BY <1>2 DEF Marks
    <3>2. CASE a = b
      <4>1. linkLocal'[b] = [intf |-> i, used |-> FALSE]
        BY <1>2, <2>4, <3>2
      <4>2. linkLocal'[b] # [intf |-> j, used |-> TRUE]
        BY <4>1, MarkEq
      <4>3. Entry(b, j) # {} => i = j
        BY <2>2, <3>1, <3>2
      <4>4. Entry(b, j)' = {}
        BY <2>3, <3>2, <4>3 DEF Entry
      <4> QED BY <4>2, <4>4
    <3>3. CASE a # b
      <4>1. linkLocal'[b] = linkLocal[b]
        BY <1>2, <2>4, <3>3
      <4>2. Entry(b, j)' = Entry(b, j)
        BY <2>3, <3>3 DEF Entry
      <4> QED BY <3>1, <4>1, <4>2
    <3> QED BY <3>2, <3>3
  <2>8. Marks'
    BY <2>7 DEF Marks
  <2>9. Named'
    BY <1>2, <2>4, NamedStays
  <2> QED BY <1>2, <2>3, <2>5, <2>6, <2>8, <2>9 DEF PoolOk
<1> QED BY <1>3, <1>4 DEF DeleteLink

\* An entry keeps its address and its port when its admin state is set.
LEMMA SetAdminKeepsPool ==
  ASSUME scene \in Scenes, PoolOk, UNCHANGED scene, call # None, call.todo # <<>>, call.addr = None,
         NEW a, NEW i, SetAdmin(a, i)
  PROVE  PoolOk'
<1>1. PoolOk /\ CallInv /\ scene \in Scenes /\ CfgOk
      /\ ipv6DB \subseteq Entries
  BY DEF PoolOk
<1>2. PICK adm \in Admin : adm = Current.admin
  BY <1>1, CurrentFacts
<1>3. /\ ipv6DB' = (ipv6DB \ Entry(a, i)) \cup {[e EXCEPT !.admin = adm] : e \in Entry(a, i)}
      /\ Proceed(TRUE, Entry(a, i) # {}) /\ linkLocal' = linkLocal
  BY <1>2 DEF SetAdmin
<1>4. CfgOk' /\ CallInv'
  BY <1>1, <1>3, ProceedStep
<1>5. ASSUME NEW e \in Entries
      PROVE  /\ [e EXCEPT !.admin = adm] \in Entries
             /\ [e EXCEPT !.admin = adm].addr = e.addr /\ [e EXCEPT !.admin = adm].intf = e.intf
  BY DEF Entries
<1>6. Entry(a, i) \subseteq Entries
  BY <1>1 DEF Entry
<1>7. ipv6DB' \subseteq Entries
  BY <1>1, <1>3, <1>5, <1>6
<1>8. ASSUME NEW b \in scene.pool, NEW j \in Port
      PROVE  Entry(b, j)' = {} <=> Entry(b, j) = {}
  <2>1. ASSUME NEW e \in Entry(b, j) PROVE Entry(b, j)' # {}
    <3>1. e \in ipv6DB /\ e.addr = b /\ e.intf = j /\ e \in Entries
      BY <1>1 DEF Entry
    <3>2. CASE e \in Entry(a, i)
      <4>1. [e EXCEPT !.admin = adm] \in ipv6DB'
        BY <1>3, <3>2
      <4> QED BY <1>5, <3>1, <4>1 DEF Entry
    <3>3. CASE e \notin Entry(a, i)
      BY <1>3, <3>1, <3>3 DEF Entry
    <3> QED BY <3>2, <3>3
  <2>2. ASSUME NEW f \in Entry(b, j)' PROVE Entry(b, j) # {}
    <3>1. f \in ipv6DB' /\ f.addr = b /\ f.intf = j
      BY DEF Entry
    <3>2. CASE f \in ipv6DB
      BY <3>1, <3>2 DEF Entry
    <3>3. CASE \E e \in Entry(a, i) : f = [e EXCEPT !.admin = adm]
      <4>1. PICK e \in Entry(a, i) : f = [e EXCEPT !.admin = adm]
        BY <3>3
      <4>2. e \in ipv6DB /\ e.addr = b /\ e.intf = j
        BY <1>5, <1>6, <3>1, <4>1 DEF Entry
      <4> QED BY <4>2 DEF Entry
    <3> QED BY <1>3, <3>1, <3>2, <3>3
  <2> QED BY <2>1, <2>2
<1> QED BY <1>1, <1>3, <1>4, <1>7, <1>8, EntriesStay

\* No step but a restart breaks the invariant of the pool.
LEMMA NextKeepsPool ==
  ASSUME scene \in Scenes, PoolOk, Next, ~Restart
  PROVE  PoolOk'
<1>0. UNCHANGED scene
  BY DEF Next
<1>1. /\ PoolOk /\ CallInv /\ scene \in Scenes
      /\ CfgOk /\ scene.config \subseteq Object
  BY SceneFacts DEF PoolOk
<1>2. CASE CreateIPv6Intf \/ UpdateIPv6Intf \/ DeleteIPv6Intf
  BY <1>0, <1>1, <1>2, CallBegins, MarksStay
<1>3. CASE AddGlobal \/ AddLink
  BY <1>0, <1>1, <1>3, AddFacts, CreateKeepsPool, UntouchedKeepsPool
<1>4. CASE AddStored
  BY <1>1, <1>4, CurrentFacts DEF AddStored, Doing
<1>5. CASE StoreAddress
  BY <1>0, <1>5, StoreKeepsPool
<1>6. CASE DeleteGlobal
  BY <1>0, <1>6, DeleteGlobalKeepsPool
<1>7. CASE DeleteLink
  BY <1>0, <1>7, DeleteLinkKeepsPool
<1>8. CASE SetGlobal \/ SetLink
  <2>1. call # None /\ call.todo # <<>> /\ call.addr = None
    BY <1>8 DEF SetGlobal, SetLink, Doing
  <2>2. \/ \E clean : Proceed(FALSE, clean) /\ UNCHANGED <<ipv6DB, linkLocal>>
        \/ \E a, i : SetAdmin(a, i)
    BY <1>8 DEF SetGlobal, SetLink, Untouched, mgrVars
  <2> QED BY <1>0, <2>1, <2>2, UntouchedKeepsPool, SetAdminKeepsPool
<1>9. CASE \E i \in Port, state \in Admin : AdminPort(i, state)
  <2>1. UNCHANGED <<ipv6DB, linkLocal, cfg, call>>
    BY <1>9 DEF AdminPort, mgrVars
  <2>2. CallInv' /\ CfgOk'
    BY <1>0, <1>1, <2>1 DEF CallInv, CfgOk
  <2> QED BY <1>0, <1>1, <2>1, <2>2, MarksStay
<1>10. CASE StoreObject
  <2>1. /\ call # None /\ UNCHANGED <<ipv6DB, linkLocal>>
        /\ call' = None /\ cfg' = [cfg EXCEPT ![call.intf] = call.object]
    BY <1>10 DEF StoreObject, mgrVars
  <2>2. call.intf \in Port /\ call.object \in ObjectsOf(call.intf) \cup {None}
        /\ call.object \in Object \cup {None}
    BY <1>1, <2>1 DEF CallInv, Calls
  <2>3. CallInv' /\ CfgOk'
    BY <1>1, <2>1, <2>2 DEF CallInv, CfgOk
  <2> QED BY <1>0, <1>1, <2>1, <2>3, MarksStay
<1> QED BY <1>2, <1>3, <1>4, <1>5, <1>6, <1>7, <1>8, <1>9, <1>10 DEF Next

\* Every step but a restart leaves the count of restarts alone.
LEMMA RestartsStep ==
  ASSUME Next
  PROVE  restarts' = restarts \/ (Restart /\ restarts' = restarts + 1)
<1>1. ASSUME CreateIPv6Intf \/ UpdateIPv6Intf \/ DeleteIPv6Intf
      PROVE  restarts' = restarts
  BY <1>1 DEF CreateIPv6Intf, UpdateIPv6Intf, DeleteIPv6Intf, Start
<1>2. ASSUME AddGlobal \/ AddLink \/ AddStored
      PROVE  restarts' = restarts
  BY <1>2 DEF AddGlobal, AddLink, AddStored, CreateIPIntf, Refused, ToBeStored, Proceed
<1>3. ASSUME StoreAddress \/ DeleteGlobal \/ DeleteLink \/ SetGlobal \/ SetLink \/ StoreObject
      PROVE  restarts' = restarts
  BY <1>3 DEF StoreAddress, DeleteGlobal, DeleteLink, SetGlobal, SetLink, SetAdmin, Untouched,
            StoreObject, Proceed
<1>4. ASSUME NEW i, NEW state, AdminPort(i, state)
      PROVE  restarts' = restarts
  BY <1>4 DEF AdminPort
<1>5. ASSUME Restart
      PROVE  restarts' = restarts + 1
  BY <1>5 DEF Restart
<1> QED BY <1>1, <1>2, <1>3, <1>4, <1>5 DEF Next

\* Before the first restart there is none.
LEMMA NoRestart ==
  ASSUME Next, restarts \in Nat
  PROVE  restarts' \in Nat /\ (restarts' = 0 => restarts = 0 /\ ~Restart)
<1>1. Restart => restarts' = restarts + 1
  BY DEF Restart
<1> QED BY <1>1, RestartsStep

\* The empty database and the unmarked pool agree.
LEMMA PoolInvInit ==
  ASSUME Init
  PROVE  PoolInv
<1>1. scene \in Scenes /\ restarts = 0 /\ call = None /\ ipv6DB = {} /\ CfgOk
  BY DEF Init, CfgOk
<1>2. linkLocal = [a \in scene.pool |-> [intf |-> None, used |-> FALSE]]
  BY DEF Init, FreshPool
<1>3. linkLocal \in [scene.pool -> [intf : Port \cup {None}, used : BOOLEAN]]
  BY <1>2
<1>4. Marks
  <2>1. ASSUME NEW a \in scene.pool, NEW i \in Port
        PROVE  Entry(a, i) = {} /\ linkLocal[a] # [intf |-> i, used |-> TRUE]
    BY <1>1, <1>2, MarkEq DEF Entry
  <2> QED BY <2>1 DEF Marks
<1>5. Named
  BY <1>2 DEF Named
<1> QED BY <1>1, <1>3, <1>4, <1>5 DEF PoolInv, PoolOk, CallInv

\* The invariant of the pool is inductive.
LEMMA PoolInvNext ==
  ASSUME PoolInv, [Next]_vars
  PROVE  PoolInv'
<1>1. CASE UNCHANGED vars
  BY <1>1 DEF vars, mgrVars, linuxVars, PoolInv, PoolOk, CallInv, CfgOk, Named, Marks, Entry
<1>2. CASE Next
  <2>1. restarts \in Nat /\ scene \in Scenes /\ scene' = scene
    BY <1>2 DEF PoolInv, Next
  <2>2. restarts' \in Nat /\ (restarts' = 0 => restarts = 0 /\ ~Restart)
    BY <1>2, <2>1, NoRestart
  <2>3. restarts' = 0 => PoolOk'
    BY <1>2, <2>1, <2>2, NextKeepsPool DEF PoolInv
  <2> QED BY <2>1, <2>2, <2>3 DEF PoolInv
<1> QED BY <1>1, <1>2

\* The pool, the database and the call at hand fit together in every state
\* before the first restart, whatever the kernel refuses.
THEOREM PoolInductive == Spec => []PoolInv
<1>1. Init => PoolInv
  BY PoolInvInit
<1>2. PoolInv /\ [Next]_vars => PoolInv'
  BY PoolInvNext
<1> QED BY <1>1, <1>2, PTL DEF Spec

\* Through calls that are refused or undone, ports that change in the middle of
\* them and any number of ports that ask, an address of the pool is marked as
\* used exactly if it is in the database, on the interface it is marked for
\* (l3IntfMgr.go:763).
THEOREM PoolAlwaysAgrees == Spec => []PoolAgrees
<1>1. PoolInv => PoolAgrees
  BY DEF PoolInv, PoolOk, Marks, PoolAgrees
<1> QED BY <1>1, PoolInductive, PTL

-----------------------------------------------------------------------------
(***************************************************************************)
(* Objects and addresses.                                                  *)
(***************************************************************************)
Ip(o) == IF o = None THEN None ELSE o.ip
Count(g, l) == (IF g = None THEN 0 ELSE 1) + (IF l = None THEN 0 ELSE 1)
These(g, l) == {g, l} \ {None}

\* A port has the global address g and the link local address l, or none.
Has(i, g, l) ==
  /\ AddrsOf(i) = These(g, l)
  /\ refCount[i] = Count(g, l)
  /\ i \in sysVlan <=> Count(g, l) > 0

\* The same with another address on its way.
Gets(i, g) ==
  /\ AddrsOf(i) = These(g, None)
  /\ refCount[i] = Count(g, None)
  /\ i \in sysVlan

LinkIs(o, l) == IF o # None /\ o.link THEN l \in scene.pool ELSE l = None

\* The port is as an object says.
Settled(i, o) == \E l : LinkIs(o, l) /\ Has(i, Ip(o), l)

\* What comes after the deletions of a call.
Rest == IF call.req = "update" THEN CreateOps(call.object) ELSE << >>

\* The phases of a call for port i, where old is configured, on its way to new.
Done(i, new) == call.todo = <<>> /\ Settled(i, new)

DeletingGlobal(i, old) ==
  /\ call.req \in {"update", "delete"} /\ call.addr = None
  /\ old # None /\ old.ip # None
  /\ call.todo = <<Op("delGlobal", old)>> \o (LinkOp("delLink", old) \o Rest)
  /\ Settled(i, old)

DeletingLink(i, old) ==
  /\ call.req \in {"update", "delete"} /\ call.addr = None
  /\ old # None /\ old.link
  /\ call.todo = <<Op("delLink", old)>> \o Rest
  /\ \E l \in scene.pool : Has(i, None, l)

AddingFirst(i, old, new) ==
  /\ call.req \in {"create", "update"}
  /\ call.req = "create" => old = None
  /\ call.todo = CreateOps(new)
  /\ \/ call.addr = None /\ Has(i, None, None)
     \/ /\ call.addr # None
        /\ IF new.ip = None THEN call.addr \in scene.pool ELSE call.addr = new.ip
        /\ Gets(i, None)

AddingLink(i, new) ==
  /\ call.req \in {"create", "update"}
  /\ new.ip # None /\ new.link
  /\ call.todo = <<Op("addLink", new)>>
  /\ \/ call.addr = None /\ Has(i, new.ip, None)
     \/ call.addr \in scene.pool /\ call.addr # None /\ Gets(i, new.ip)

Setting(i, old, new) ==
  /\ call.req = "update" /\ call.addr = None
  /\ call.todo = <<Op("setGlobal", new)>> \o LinkOp("setLink", new)
  /\ Settled(i, old) /\ Settled(i, new)

SettingLink(i, new) ==
  /\ call.req = "update" /\ call.addr = None
  /\ call.todo = <<Op("setLink", new)>>
  /\ Settled(i, new)

PhaseOf(i, old, new) ==
  \/ Done(i, new)
  \/ DeletingGlobal(i, old) \/ DeletingLink(i, old)
  \/ AddingFirst(i, old, new) \/ AddingLink(i, new)
  \/ Setting(i, old, new) \/ SettingLink(i, new)

Phase(i) == PhaseOf(i, cfg[i], call.object)

Obj ==
  /\ refCount \in [Port -> Int]
  /\ \A i \in Port \ amiss :
       IF call # None /\ call.intf = i THEN Phase(i) ELSE Settled(i, cfg[i])

ObjInv == PoolInv /\ (restarts = 0 => Obj)

\* Taking an address out of the database takes it from one port.
LEMMA AddrsDel ==
  ASSUME NEW a, NEW i, NEW j, ipv6DB' = ipv6DB \ Entry(a, i)
  PROVE  AddrsOf(j)' = IF j = i THEN AddrsOf(j) \ {a} ELSE AddrsOf(j)
<1>1. \A x : x \in AddrsOf(j) <=> \E e \in ipv6DB : e.intf = j /\ e.addr = x
  BY DEF AddrsOf
<1>2. \A x : x \in AddrsOf(j)' <=> \E e \in ipv6DB' : e.intf = j /\ e.addr = x
  BY DEF AddrsOf
<1>3. \A e : e \in ipv6DB' <=> e \in ipv6DB /\ ~(e.addr = a /\ e.intf = i)
  BY DEF Entry
<1>4. CASE j = i
  <2>1. \A x : x \in AddrsOf(j)' <=> x \in AddrsOf(j) /\ x # a
    BY <1>1, <1>2, <1>3, <1>4
  <2> QED BY <1>4, <2>1
<1>5. CASE j # i
  <2>1. \A x : x \in AddrsOf(j)' <=> x \in AddrsOf(j)
    BY <1>1, <1>2, <1>3, <1>5
  <2> QED BY <1>5, <2>1
<1> QED BY <1>4, <1>5

\* Storing an address gives it to one port.
LEMMA AddrsAdd ==
  ASSUME NEW a, NEW i, NEW j, NEW e, e.addr = a, e.intf = i, ipv6DB' = ipv6DB \cup {e}
  PROVE  AddrsOf(j)' = IF j = i THEN AddrsOf(j) \cup {a} ELSE AddrsOf(j)
<1>1. \A x : x \in AddrsOf(j) <=> \E f \in ipv6DB : f.intf = j /\ f.addr = x
  BY DEF AddrsOf
<1>2. \A x : x \in AddrsOf(j)' <=> \E f \in ipv6DB' : f.intf = j /\ f.addr = x
  BY DEF AddrsOf
<1>3. CASE j = i
  <2>1. \A x : x \in AddrsOf(j)' <=> x \in AddrsOf(j) \/ x = a
    BY <1>1, <1>2, <1>3
  <2> QED BY <1>3, <2>1
<1>4. CASE j # i
  <2>1. \A x : x \in AddrsOf(j)' <=> x \in AddrsOf(j)
    BY <1>1, <1>2, <1>4
  <2> QED BY <1>4, <2>1
<1> QED BY <1>3, <1>4

\* Without a change of the database a port has the addresses it had.
LEMMA AddrsSame ==
  ASSUME NEW j, ipv6DB' = ipv6DB
  PROVE  AddrsOf(j)' = AddrsOf(j)
BY DEF AddrsOf

\* Nothing of port j changes.
Same(j) ==
  /\ AddrsOf(j)' = AddrsOf(j)
  /\ refCount'[j] = refCount[j]
  /\ j \in sysVlan' <=> j \in sysVlan

\* A port that does not change is as settled as it was.
LEMMA SameSettled ==
  ASSUME NEW j, NEW o, Same(j), UNCHANGED scene, Settled(j, o)
  PROVE  Settled(j, o)'
<1>1. PICK l : LinkIs(o, l) /\ Has(j, Ip(o), l)
  BY DEF Settled
<1>2. LinkIs(o, l)' /\ Has(j, Ip(o), l)'
  BY <1>1 DEF LinkIs, Has, Same, Ip
<1> QED BY <1>2 DEF Settled, Ip

\* What the operations of an object are, one by one.
LEMMA OpForms ==
  ASSUME NEW i, NEW o \in ObjectsOf(i), NEW s \in Seq(OpsOf(i))
  PROVE  /\ o.ip # None => /\ Op("delGlobal", o) \in OpsOf(i) /\ Op("addGlobal", o) \in OpsOf(i)
                           /\ DeleteOps(o) \o s = <<Op("delGlobal", o)>> \o (LinkOp("delLink", o) \o s)
                           /\ CreateOps(o) = <<Op("addGlobal", o)>> \o LinkOp("addLink", o)
         /\ o.ip = None => /\ o.link
                           /\ DeleteOps(o) \o s = <<Op("delLink", o)>> \o s
                           /\ CreateOps(o) = <<Op("addLink", o)>>
         /\ Op("delLink", o) \in OpsOf(i) /\ Op("addLink", o) \in OpsOf(i)
         /\ LinkOp("delLink", o) \o s \in Seq(OpsOf(i))
         /\ o.link => LinkOp("delLink", o) \o s = <<Op("delLink", o)>> \o s
         /\ ~o.link => LinkOp("delLink", o) \o s = s
<1>1. Op("delLink", o) \in OpsOf(i) /\ Op("addLink", o) \in OpsOf(i)
  BY DEF Op, Operations, Operation, OpsOf, ObjectsOf
<1>2. o.ip # None => Op("delGlobal", o) \in OpsOf(i) /\ Op("addGlobal", o) \in OpsOf(i)
  BY DEF Op, Operations, Operation, OpsOf, ObjectsOf
<1>3. LinkOp("delLink", o) \in Seq(OpsOf(i)) /\ LinkOp("addLink", o) \in Seq(OpsOf(i))
  BY <1>1, OneMore, EmptySeq DEF LinkOp
<1>4. LinkOp("delLink", o) \o s \in Seq(OpsOf(i))
  BY <1>3, ConcatProperties
<1>5. o.link => LinkOp("delLink", o) = <<Op("delLink", o)>> /\ LinkOp("addLink", o) = <<Op("addLink", o)>>
  BY DEF LinkOp
<1>6. ~o.link => LinkOp("delLink", o) = <<>>
  BY DEF LinkOp
<1>7. <<>> \o s = s
  BY ConcatEmptySeq
<1>8. ASSUME o.ip # None
      PROVE  DeleteOps(o) \o s = <<Op("delGlobal", o)>> \o (LinkOp("delLink", o) \o s)
  <2>1. PICK x \in OpsOf(i) : x = Op("delGlobal", o)
    BY <1>2, <1>8
  <2>2. DeleteOps(o) = <<x>> \o LinkOp("delLink", o)
    BY <1>8, <2>1 DEF DeleteOps, GlobalOp
  <2>3. (<<x>> \o LinkOp("delLink", o)) \o s = <<x>> \o (LinkOp("delLink", o) \o s)
    BY <1>3, OneMore, ConcatAssociative
  <2> QED BY <2>1, <2>2, <2>3
<1>9. ASSUME o.ip # None
      PROVE  CreateOps(o) = <<Op("addGlobal", o)>> \o LinkOp("addLink", o)
  BY <1>9 DEF CreateOps, GlobalOp
<1>10. ASSUME o.ip = None
       PROVE  /\ o.link /\ DeleteOps(o) \o s = <<Op("delLink", o)>> \o s
              /\ CreateOps(o) = <<Op("addLink", o)>>
  <2>1. o.link
    BY <1>10 DEF Object, ObjectsOf
  <2>2. DeleteOps(o) = LinkOp("delLink", o) /\ CreateOps(o) = LinkOp("addLink", o)
    BY <1>3, <1>10, ConcatEmptySeq DEF DeleteOps, CreateOps, GlobalOp
  <2> QED BY <1>5, <2>1, <2>2
<1> QED BY <1>1, <1>2, <1>4, <1>5, <1>6, <1>7, <1>8, <1>9, <1>10

\* The call goes on with Tail(call.todo) after a success; what a refusal does to
\* it is seen below.
LEMMA ProceedOk ==
  ASSUME call \in Calls, NEW clean, Proceed(TRUE, clean)
  PROVE  call' = [call EXCEPT !.todo = Tail(call.todo), !.addr = None]
<1>1. call.req # "boot"
  BY DEF Calls
<1>2. CASE Tail(call.todo) # <<>>
  BY <1>2, Zenon DEF Proceed
<1>3. CASE Tail(call.todo) = <<>>
  <2>1. Reply(TRUE)
    BY <1>3, Zenon DEF Proceed
  <2> QED BY <1>1, <1>3, <2>1 DEF Reply
<1> QED BY <1>2, <1>3

\* What an operation of a call leaves alone.
Stays ==
  /\ cfg' = cfg
  /\ amiss \subseteq amiss'
  /\ \/ call' = None
     \/ call' # None /\ call'.intf = call.intf /\ call'.object = call.object /\ call'.req = call.req

LEMMA ProceedStays ==
  ASSUME call \in Calls, NEW ok, NEW clean, Proceed(ok, clean)
  PROVE  Stays /\ (~clean => call.intf \in amiss')
<1>1. cfg' = cfg /\ amiss \subseteq amiss' /\ (~clean => call.intf \in amiss')
  BY DEF Proceed, Calls
<1>2. \/ call' = None
      \/ \E s : call' = [call EXCEPT !.todo = s] \/ call' = [call EXCEPT !.todo = s, !.addr = None]
  BY DEF Proceed, Reply
<1>3. ASSUME NEW s, call' = [call EXCEPT !.todo = s] \/ call' = [call EXCEPT !.todo = s, !.addr = None]
      PROVE  call'.intf = call.intf /\ call'.object = call.object /\ call'.req = call.req
  BY <1>3 DEF Calls
<1>4. call' # None \/ call' = None
  OBVIOUS
<1> QED BY <1>1, <1>2, <1>3, <1>4 DEF Stays

\* A call is not none.
LEMMA CallIs ==
  ASSUME PoolOk, call # None
  PROVE  /\ call \in Calls /\ call.intf \in Port /\ call.todo \in Seq(OpsOf(call.intf))
         /\ call.object \in ObjectsOf(call.intf) \cup {None}
         /\ cfg[call.intf] \in ObjectsOf(call.intf) \cup {None}
         /\ call.req \in {"create", "update", "delete"}
         /\ call.req # "delete" => call.object \in ObjectsOf(call.intf) /\ call.object # None
         /\ call.req = "delete" => call.object = None
         /\ call.todo = <<>> => call.addr = None
         /\ Rest \in Seq(OpsOf(call.intf))
<1>1. /\ call \in Calls /\ call.intf \in Port /\ call.todo \in Seq(OpsOf(call.intf))
      /\ call.object \in ObjectsOf(call.intf) \cup {None}
      /\ cfg[call.intf] \in ObjectsOf(call.intf) \cup {None}
      /\ call.req \in {"create", "update", "delete"}
      /\ call.req # "delete" => call.object \in Object
      /\ call.req = "delete" => call.object = None
      /\ call.todo = <<>> => call.addr = None
  BY DEF PoolOk, CallInv, CfgOk, Calls
<1>2. call.req # "delete" => call.object \in ObjectsOf(call.intf) /\ call.object # None
  BY <1>1, NotNone DEF ObjectsOf
<1>3. Rest \in Seq(OpsOf(call.intf))
  BY <1>1, <1>2, OpsTyped, EmptySeq DEF Rest
<1> QED BY <1>1, <1>2, <1>3

\* A step of the call that leaves its port in a phase, or as its object says.
LEMMA ObjStep ==
  ASSUME PoolOk, Obj, UNCHANGED scene, call # None, NEW i, i = call.intf, Stays,
         refCount' \in [Port -> Int], \A j \in Port \ {i} : Same(j),
         i \notin amiss' => IF call' = None THEN Settled(i, cfg[i])'
                           ELSE PhaseOf(i, cfg[i], call.object)'
  PROVE  Obj'
<1>1. ASSUME NEW j \in Port \ amiss'
      PROVE  IF call' # None /\ call'.intf = j THEN Phase(j)' ELSE Settled(j, cfg[j])'
  <2>1. CASE j = i
    <3>1. call' # None => call'.intf = j
      BY <2>1 DEF Stays
    <3>2. call' # None => Phase(j)'
      BY <1>1, <2>1, <3>1 DEF Phase
    <3>3. call' = None => Settled(j, cfg[j])'
      BY <1>1, <2>1
    <3> QED BY <3>1, <3>2, <3>3
  <2>2. CASE j # i
    <3>1. PICK o : o = cfg[j]
      OBVIOUS
    <3>2. j \in Port \ amiss /\ cfg'[j] = o
      BY <1>1, <3>1 DEF Stays
    <3>3. Settled(j, o)
      BY <2>2, <3>1, <3>2 DEF Obj
    <3>4. Settled(j, o)'
      BY <2>2, <3>3, SameSettled
    <3>5. Settled(j, cfg[j])'
      BY <3>2, <3>4
    <3> QED BY <2>2, <3>5 DEF Stays
  <2> QED BY <2>1, <2>2
<1> QED BY <1>1 DEF Obj

\* The phases by the operation that is next.
Upcoming(op, o, rest) == Head(call.todo) = Op(op, o) /\ Tail(call.todo) = rest

AtDeleteGlobal(i, old) == DeletingGlobal(i, old) /\ Upcoming("delGlobal", old, LinkOp("delLink", old) \o Rest)
AtDeleteLink(i, old) == DeletingLink(i, old) /\ Upcoming("delLink", old, Rest)
AtAddGlobal(i, old, new) ==
  new.ip # None /\ AddingFirst(i, old, new) /\ Upcoming("addGlobal", new, LinkOp("addLink", new))
AtAddOnly(i, old, new) ==
  new.ip = None /\ new.link /\ AddingFirst(i, old, new) /\ Upcoming("addLink", new, <<>>)
AtAddLink(i, new) == AddingLink(i, new) /\ Upcoming("addLink", new, <<>>)
AtSet(i, old, new) == Setting(i, old, new) /\ Upcoming("setGlobal", new, LinkOp("setLink", new))
AtSetLink(i, new) == SettingLink(i, new) /\ Upcoming("setLink", new, <<>>)

At(i, old, new) ==
  \/ AtDeleteGlobal(i, old) \/ AtDeleteLink(i, old)
  \/ AtAddGlobal(i, old, new) \/ AtAddOnly(i, old, new) \/ AtAddLink(i, new)
  \/ AtSet(i, old, new) \/ AtSetLink(i, new)

\* What is left to do tells the phase of the call.
LEMMA PhaseHead ==
  ASSUME PoolOk, call # None, call.todo # <<>>, NEW i, i = call.intf, NEW old, old = cfg[i],
         NEW new, new = call.object, PhaseOf(i, old, new)
  PROVE  /\ At(i, old, new)
         /\ call.req # "delete" => new \in ObjectsOf(i)
         /\ old # None => old \in ObjectsOf(i)
<1>1. /\ call.todo \in Seq(OpsOf(i)) /\ Rest \in Seq(OpsOf(i))
      /\ call.req # "delete" => new \in ObjectsOf(i)
      /\ old # None => old \in ObjectsOf(i)
  BY CallIs
<1>2. CASE DeletingGlobal(i, old)
  <2>1. PICK x \in OpsOf(i) : x = Op("delGlobal", old)
    BY <1>1, <1>2, OpForms DEF DeletingGlobal
  <2>2. PICK s \in Seq(OpsOf(i)) : s = LinkOp("delLink", old) \o Rest
    BY <1>1, <1>2, OpForms DEF DeletingGlobal
  <2>3. call.todo = <<x>> \o s
    BY <1>2, <2>1, <2>2 DEF DeletingGlobal
  <2>4. Head(call.todo) = x /\ Tail(call.todo) = s
    BY <2>3, ConsSeq
  <2> QED BY <1>1, <1>2, <2>1, <2>2, <2>4 DEF At, AtDeleteGlobal, Upcoming
<1>3. CASE DeletingLink(i, old)
  <2>1. PICK x \in OpsOf(i) : x = Op("delLink", old) /\ call.todo = <<x>> \o Rest
    BY <1>1, <1>3, OpForms DEF DeletingLink
  <2>2. Head(call.todo) = x /\ Tail(call.todo) = Rest
    BY <1>1, <2>1, ConsSeq
  <2> QED BY <1>1, <1>3, <2>1, <2>2 DEF At, AtDeleteLink, Upcoming
<1>4. CASE AddingFirst(i, old, new) /\ new.ip # None
  <2>1. Op("addGlobal", new) \in OpsOf(i) /\ Op("addLink", new) \in OpsOf(i)
        /\ CreateOps(new) = <<Op("addGlobal", new)>> \o LinkOp("addLink", new)
    BY <1>1, <1>4, OpForms DEF AddingFirst
  <2>2. PICK x \in OpsOf(i) : x = Op("addGlobal", new)
    BY <2>1
  <2>3. PICK s \in Seq(OpsOf(i)) : s = LinkOp("addLink", new)
    BY <2>1, OneMore, EmptySeq DEF LinkOp
  <2>4. call.todo = <<x>> \o s
    BY <1>4, <2>1, <2>2, <2>3 DEF AddingFirst
  <2>5. Head(call.todo) = x /\ Tail(call.todo) = s
    BY <2>4, ConsSeq
  <2> QED BY <1>1, <1>4, <2>2, <2>3, <2>5 DEF At, AtAddGlobal, Upcoming
<1>5. CASE AddingFirst(i, old, new) /\ new.ip = None
  <2>1. PICK x \in OpsOf(i) : x = Op("addLink", new) /\ call.todo = <<x>> /\ new.link
    BY <1>1, <1>5, OpForms DEF AddingFirst
  <2>2. Head(call.todo) = x /\ Tail(call.todo) = <<>>
    BY <2>1, OneMore
  <2> QED BY <1>1, <1>5, <2>1, <2>2 DEF At, AtAddOnly, Upcoming
<1>6. CASE AddingLink(i, new)
  <2>1. PICK x \in OpsOf(i) : x = Op("addLink", new) /\ call.todo = <<x>>
    BY <1>1, <1>6, OpForms DEF AddingLink
  <2>2. Head(call.todo) = x /\ Tail(call.todo) = <<>>
    BY <2>1, OneMore
  <2> QED BY <1>1, <1>6, <2>1, <2>2 DEF At, AtAddLink, Upcoming
<1>7. ASSUME call.req = "update"
      PROVE  /\ Op("setGlobal", new) \in OpsOf(i) /\ Op("setLink", new) \in OpsOf(i)
             /\ LinkOp("setLink", new) \in Seq(OpsOf(i))
  <2>1. Op("setGlobal", new) \in OpsOf(i) /\ Op("setLink", new) \in OpsOf(i)
    BY <1>1, <1>7 DEF Op, Operations, Operation, OpsOf, ObjectsOf
  <2> QED BY <2>1, OneMore, EmptySeq DEF LinkOp
<1>8. CASE Setting(i, old, new)
  <2>1. PICK x \in OpsOf(i) : x = Op("setGlobal", new)
    BY <1>7, <1>8 DEF Setting
  <2>2. PICK s \in Seq(OpsOf(i)) : s = LinkOp("setLink", new)
    BY <1>7, <1>8 DEF Setting
  <2>3. Head(call.todo) = x /\ Tail(call.todo) = s
    <3>1. call.todo = <<x>> \o s
      BY <1>8, <2>1, <2>2 DEF Setting
    <3> QED BY <3>1, ConsSeq
  <2> QED BY <1>1, <1>8, <2>1, <2>2, <2>3 DEF At, AtSet, Upcoming
<1>9. CASE SettingLink(i, new)
  <2>1. PICK x \in OpsOf(i) : x = Op("setLink", new) /\ call.todo = <<x>>
    BY <1>7, <1>9 DEF SettingLink
  <2>2. Head(call.todo) = x /\ Tail(call.todo) = <<>>
    BY <2>1, OneMore
  <2> QED BY <1>1, <1>9, <2>1, <2>2 DEF At, AtSetLink, Upcoming
<1> QED BY <1>2, <1>3, <1>4, <1>5, <1>6, <1>8, <1>9 DEF PhaseOf, Done

\* Only a call whose operations are done has none left.
LEMMA PhaseEmpty ==
  ASSUME PoolOk, call # None, call.todo = <<>>, NEW i, i = call.intf, NEW old, old = cfg[i],
         NEW new, new = call.object, PhaseOf(i, old, new)
  PROVE  Done(i, new)
<1>1. /\ Rest \in Seq(OpsOf(i))
      /\ call.req # "delete" => new \in ObjectsOf(i)
      /\ old # None => old \in ObjectsOf(i)
  BY CallIs
<1>2. ~DeletingGlobal(i, old)
  <2>1. ASSUME DeletingGlobal(i, old)
        PROVE  FALSE
    <3>1. PICK x \in OpsOf(i), s \in Seq(OpsOf(i)) : call.todo = <<x>> \o s
      BY <1>1, <2>1, OpForms DEF DeletingGlobal
    <3> QED BY <3>1, ConsSeq
  <2> QED BY <2>1
<1>3. ~DeletingLink(i, old)
  <2>1. ASSUME DeletingLink(i, old)
        PROVE  FALSE
    <3>1. PICK x \in OpsOf(i) : call.todo = <<x>> \o Rest
      BY <1>1, <2>1, OpForms DEF DeletingLink
    <3> QED BY <1>1, <3>1, ConsSeq
  <2> QED BY <2>1
<1>4. ~AddingFirst(i, old, new)
  BY <1>1, OpsTyped, EmptySeq DEF AddingFirst
<1>5. ~AddingLink(i, new) /\ ~SettingLink(i, new)
  BY DEF AddingLink, SettingLink
<1>6. ~Setting(i, old, new)
  BY <1>1, OpsTyped, EmptySeq DEF Setting
<1> QED BY <1>2, <1>3, <1>4, <1>5, <1>6 DEF PhaseOf

\* A create whose first operation is refused is refused.
LEMMA FirstRefused ==
  ASSUME call \in Calls, NEW clean, Proceed(FALSE, clean), First,
         \/ Head(call.todo).do = "addGlobal"
         \/ Head(call.todo).do = "addLink" /\ Tail(call.todo) = <<>>
  PROVE  call' = None
<1>1. call.req = "create" /\ ~Undone(Head(call.todo).do)
  BY DEF First
<1>2. Reply(FALSE) => call' = None
  BY DEF Reply
<1>3. CASE Head(call.todo).do = "addGlobal"
  <2>1. Ends(Head(call.todo).do)
    BY <1>1, <1>3 DEF Ends
  <2> QED BY <1>1, <1>2, <2>1 DEF Proceed
<1>4. CASE Head(call.todo).do = "addLink" /\ Tail(call.todo) = <<>>
  <2>1. ~Ends(Head(call.todo).do)
    BY <1>1, <1>4 DEF Ends
  <2>2. Reply(FALSE \/ (call.req = "update" /\ Head(call.todo).do # "undo"))
    BY <1>1, <1>4, <2>1 DEF Proceed
  <2>3. Reply(FALSE)
    BY <1>1, <2>2
  <2> QED BY <1>2, <2>3
<1> QED BY <1>3, <1>4

\* The phases of a call that adds an address.
LEMMA AddingPhase ==
  ASSUME PoolOk, call # None, call.todo # <<>>, call.addr = None, NEW i, i = call.intf,
         NEW old, old = cfg[i], NEW new, new = call.object, PhaseOf(i, old, new),
         Head(call.todo).do \in {"addGlobal", "addLink"}
  PROVE  /\ new \in ObjectsOf(i) /\ Current = new
         /\ \/ /\ IF Head(call.todo).do = "addGlobal" THEN new.ip # None
                  ELSE new.ip = None /\ Tail(call.todo) = <<>>
               /\ AddingFirst(i, old, new) /\ Has(i, None, None)
            \/ /\ Head(call.todo).do = "addLink"
               /\ AddingLink(i, new) /\ Has(i, new.ip, None)
<1>1. At(i, old, new) /\ (call.req # "delete" => new \in ObjectsOf(i))
  BY PhaseHead
<1>2. \/ AtAddGlobal(i, old, new) \/ AtAddOnly(i, old, new) \/ AtAddLink(i, new)
  <2>1. ~AtDeleteGlobal(i, old) /\ ~AtDeleteLink(i, old)
    BY DEF AtDeleteGlobal, AtDeleteLink, Upcoming, Op
  <2>2. ~AtSet(i, old, new) /\ ~AtSetLink(i, new)
    BY DEF AtSet, AtSetLink, Upcoming, Op
  <2> QED BY <1>1, <2>1, <2>2 DEF At
<1>3. CASE AtAddGlobal(i, old, new)
  BY <1>1, <1>3 DEF AtAddGlobal, Upcoming, Op, AddingFirst, Current
<1>4. CASE AtAddOnly(i, old, new)
  BY <1>1, <1>4 DEF AtAddOnly, Upcoming, Op, AddingFirst, Current
<1>5. CASE AtAddLink(i, new)
  <2>1. call.addr \notin scene.pool \/ call.addr = None
    OBVIOUS
  <2> QED BY <1>1, <1>5 DEF AtAddLink, Upcoming, Op, AddingLink, Current
<1> QED BY <1>2, <1>3, <1>4, <1>5

\* A refusal that leaves the tables alone.
LEMMA RefusedObj ==
  ASSUME PoolOk, Obj, UNCHANGED <<scene, ipv6DB, refCount, sysVlan>>,
         call # None, call.todo # <<>>, call.addr = None,
         Head(call.todo).do \in {"addGlobal", "addLink"}, Proceed(FALSE, First)
  PROVE  Obj'
<1>1. PICK i, old, new : i = call.intf /\ old = cfg[i] /\ new = call.object
  OBVIOUS
<1>2. call \in Calls /\ i \in Port
  BY <1>1, CallIs
<1>3. Stays /\ (~First => i \in amiss')
  <2>1. Proceed(FALSE, FALSE) \/ (First /\ Proceed(FALSE, TRUE))
    BY DEF Proceed
  <2> QED BY <1>1, <1>2, <2>1, ProceedStays
<1>4. \A j : Same(j)
  BY AddrsSame DEF Same
<1>5. refCount' \in [Port -> Int]
  BY DEF Obj
<1>6. ASSUME i \notin amiss'
      PROVE  call' = None /\ Settled(i, cfg[i])'
  <2>1. First /\ i \notin amiss
    BY <1>3, <1>6 DEF Stays
  <2>2. PhaseOf(i, old, new)
    BY <1>1, <1>2, <2>1 DEF Obj, Phase
  <2>3. call.req = "create" /\ ~Undone(Head(call.todo).do)
    BY <2>1 DEF First
  <2>4. /\ IF Head(call.todo).do = "addGlobal" THEN new.ip # None
           ELSE new.ip = None /\ Tail(call.todo) = <<>>
        /\ AddingFirst(i, old, new) /\ Has(i, None, None)
    BY <1>1, <2>2, <2>3, AddingPhase DEF Undone, AddingLink
  <2>5. call' = None
    BY <1>2, <2>1, <2>4, FirstRefused
  <2>6. old = None
    BY <2>3, <2>4 DEF AddingFirst
  <2>7. Settled(i, None)
    BY <2>4 DEF Settled, LinkIs, Ip
  <2>8. Settled(i, None)'
    BY <1>4, <2>7, SameSettled
  <2>9. cfg'[i] = None
    BY <1>1, <1>3, <2>6 DEF Stays
  <2> QED BY <2>5, <2>8, <2>9
<1> QED BY <1>1, <1>3, <1>4, <1>5, <1>6, ObjStep

\* The address is found and the kernel takes it, or not.
LEMMA CreateObj ==
  ASSUME PoolOk, Obj, UNCHANGED scene, call # None, call.todo # <<>>, call.addr = None,
         NEW a \in Addr, CreateIPIntf(a),
         \/ Head(call.todo).do = "addGlobal" /\ a = Current.ip
         \/ Head(call.todo).do = "addLink" /\ a \in scene.pool
  PROVE  Obj'
<1>1. PICK i, old, new : i = call.intf /\ old = cfg[i] /\ new = call.object
  OBVIOUS
<1>2. call \in Calls /\ i \in Port
  BY <1>1, CallIs
<1>3. Current.intf = i
  BY <1>1, CurrentFacts DEF PoolOk
<1>4. ipv6DB' = ipv6DB /\ refCount' = refCount
  BY DEF CreateIPIntf
<1>5. CASE Refused(a, i, First) /\ UNCHANGED sysVlan
  <2>1. Proceed(FALSE, First)
    BY <1>5 DEF Refused
  <2> QED BY <1>4, <1>5, <2>1, RefusedObj
<1>6. ASSUME sysVlan' = sysVlan \cup {i}
      PROVE  /\ refCount' \in [Port -> Int]
             /\ \A j \in Port \ {i} : Same(j)
  BY <1>4, <1>6, AddrsSame DEF Same, Obj
<1>7. CASE Refused(a, i, FALSE) /\ sysVlan' = sysVlan \cup {i}
  <2>1. Proceed(FALSE, FALSE)
    BY <1>7 DEF Refused
  <2>2. Stays /\ i \in amiss'
    BY <1>1, <1>2, <2>1, ProceedStays
  <2> QED BY <1>1, <1>6, <1>7, <2>2, ObjStep
<1>8. CASE ToBeStored(a) /\ sysVlan' = sysVlan \cup {i}
  <2>1. /\ call' = [call EXCEPT !.addr = a] /\ cfg' = cfg /\ amiss' = amiss
    BY <1>8 DEF ToBeStored
  <2>2. /\ call' \in Calls /\ call'.addr = a /\ call'.todo = call.todo
        /\ call'.intf = call.intf /\ call'.object = call.object /\ call'.req = call.req
    BY <1>2, <2>1 DEF Calls
  <2>3. call' # None
    BY <2>2, NotNone
  <2>4. Stays
    BY <2>1, <2>2, <2>3 DEF Stays
  <2>5. a # None
    BY NotNone
  <2>6. ASSUME i \notin amiss'
        PROVE  PhaseOf(i, old, new)'
    <3>1. PhaseOf(i, old, new)
      BY <1>1, <1>2, <2>1, <2>6 DEF Obj, Phase
    <3>2. /\ Current = new
          /\ \/ /\ IF Head(call.todo).do = "addGlobal" THEN new.ip # None
                   ELSE new.ip = None /\ Tail(call.todo) = <<>>
                /\ AddingFirst(i, old, new) /\ Has(i, None, None)
             \/ /\ Head(call.todo).do = "addLink"
                /\ AddingLink(i, new) /\ Has(i, new.ip, None)
      BY <1>1, <3>1, AddingPhase
    <3>3. ASSUME NEW g, Has(i, g, None)
          PROVE  Gets(i, g)'
      BY <1>4, <1>8, <3>3, AddrsSame DEF Has, Gets
    <3>4. CASE AddingFirst(i, old, new) /\ Has(i, None, None)
               /\ IF Head(call.todo).do = "addGlobal" THEN new.ip # None ELSE new.ip = None
      <4>1. Gets(i, None)'
        BY <3>3, <3>4
      <4>2. IF new.ip = None THEN a \in scene.pool ELSE a = new.ip
        BY <3>2, <3>4
      <4>3. AddingFirst(i, old, new)'
        BY <2>2, <2>5, <3>4, <4>1, <4>2 DEF AddingFirst
      <4> QED BY <4>3 DEF PhaseOf
    <3>5. CASE AddingLink(i, new) /\ Has(i, new.ip, None) /\ Head(call.todo).do = "addLink"
      <4>1. Gets(i, new.ip)'
        BY <3>3, <3>5
      <4>2. AddingLink(i, new)'
        BY <2>2, <2>5, <3>5, <4>1 DEF AddingLink
      <4> QED BY <4>2 DEF PhaseOf
    <3> QED BY <3>2, <3>4, <3>5
  <2>7. i \notin amiss' => PhaseOf(i, cfg[i], call.object)'
    <3>1. cfg'[i] = old /\ call'.object = new
      BY <1>1, <2>1, <2>2
    <3> QED BY <2>6, <3>1
  <2> QED BY <1>1, <1>6, <1>8, <2>3, <2>4, <2>7, ObjStep
<1> QED BY <1>3, <1>5, <1>7, <1>8 DEF CreateIPIntf

\* An operation that succeeded, and what the call has left.
LEMMA SuccessStep ==
  ASSUME PoolOk, call # None, call.todo # <<>>, NEW clean, Proceed(TRUE, clean)
  PROVE  /\ Stays /\ call' # None /\ call'.addr = None /\ call'.todo = Tail(call.todo)
         /\ call'.intf = call.intf /\ call'.object = call.object /\ call'.req = call.req
         /\ ~clean => call.intf \in amiss'
<1>1. call \in Calls /\ call.todo \in Seq(OpsOf(call.intf))
  BY CallIs
<1>2. Tail(call.todo) \in Seq(Operations)
  <2>1. Tail(call.todo) \in Seq(OpsOf(call.intf))
    BY <1>1, HeadTailProperties
  <2>2. PICK i : i = call.intf
    OBVIOUS
  <2>3. OpsOf(i) \subseteq Operations
    BY DEF OpsOf
  <2> QED BY <2>1, <2>2, <2>3, SeqSubset
<1>3. call' = [call EXCEPT !.todo = Tail(call.todo), !.addr = None]
  BY <1>1, ProceedOk
<1>4. call' \in Calls /\ call'.addr = None /\ call'.todo = Tail(call.todo)
      /\ call'.intf = call.intf /\ call'.object = call.object /\ call'.req = call.req
  BY <1>1, <1>2, <1>3 DEF Calls
<1>5. call' # None
  BY <1>4, NotNone
<1>6. Stays /\ (~clean => call.intf \in amiss')
  <2>1. (Proceed(TRUE, TRUE) /\ clean) \/ Proceed(TRUE, FALSE)
    BY DEF Proceed
  <2> QED BY <1>1, <2>1, ProceedStays
<1> QED BY <1>4, <1>5, <1>6

\* The object and what was configured stay the same.
LEMMA SamePhase ==
  ASSUME NEW i, NEW old, old = cfg[i], NEW new, new = call.object, Stays, call' # None,
         PhaseOf(i, old, new)'
  PROVE  PhaseOf(i, cfg[i], call.object)'
<1>1. cfg'[i] = old /\ call'.object = new
  BY DEF Stays
<1> QED BY <1>1

\* An address more.
LEMMA GetsHas ==
  ASSUME NEW i \in Port, NEW g, NEW a, a # None, Gets(i, g), refCount \in [Port -> Int],
         AddrsOf(i)' = AddrsOf(i) \cup {a}, refCount' = [refCount EXCEPT ![i] = @ + 1],
         sysVlan' = sysVlan
  PROVE  Has(i, g, a)' /\ (g = None => Has(i, a, None)')
<1>1. refCount'[i] = Count(g, None) + 1
  BY DEF Gets
<1>2. Count(g, a) = Count(g, None) + 1 /\ Count(g, a) > 0
  BY DEF Count
<1>3. AddrsOf(i)' = These(g, a)
  BY DEF Gets, These
<1>4. i \in sysVlan'
  BY DEF Gets
<1>5. Has(i, g, a)'
  BY <1>1, <1>2, <1>3, <1>4 DEF Has
<1>6. g = None => Count(a, None) = Count(g, a) /\ These(a, None) = These(g, a)
  BY DEF Count, These
<1>7. g = None => Has(i, a, None)'
  BY <1>1, <1>2, <1>3, <1>4, <1>6 DEF Has
<1> QED BY <1>5, <1>7

\* The address is stored, and the call has another to add or is done.
LEMMA StoreObj ==
  ASSUME scene \in Scenes, PoolOk, Obj, UNCHANGED scene, StoreAddress
  PROVE  Obj'
<1>1. PICK i, old, new, a : i = call.intf /\ old = cfg[i] /\ new = call.object /\ a = call.addr
  OBVIOUS
<1>2. /\ call # None /\ a # None /\ sysVlan' = sysVlan /\ Proceed(TRUE, TRUE)
  BY <1>1 DEF StoreAddress
<1>3. call \in Calls /\ i \in Port /\ call.todo # <<>>
  BY <1>1, <1>2, CallIs
<1>4. Current.intf = i
  BY <1>1, <1>2, <1>3, CurrentFacts DEF PoolOk
<1>5. refCount' = [refCount EXCEPT ![i] = @ + 1]
  BY <1>4 DEF StoreAddress
<1>6. PICK e : e.addr = a /\ e.intf = i /\ ipv6DB' = ipv6DB \cup {e}
  <2>1. ipv6DB' = ipv6DB \cup {[addr |-> a, intf |-> i, admin |-> AdminOf(a)]}
    BY <1>1, <1>4 DEF StoreAddress
  <2> QED BY <2>1
<1>7. /\ Stays /\ call' # None /\ call'.addr = None /\ call'.todo = Tail(call.todo)
      /\ call'.object = new /\ call'.req = call.req
  BY <1>1, <1>2, <1>3, SuccessStep
<1>8. refCount \in [Port -> Int]
  BY DEF Obj
<1>9. refCount' \in [Port -> Int] /\ \A j \in Port \ {i} : Same(j)
  <2>1. ASSUME NEW j \in Port \ {i}
        PROVE  Same(j)
    <3>1. AddrsOf(j)' = AddrsOf(j)
      BY <1>6, AddrsAdd
    <3> QED BY <1>2, <1>5, <1>8, <3>1 DEF Same
  <2> QED BY <1>3, <1>5, <1>8, <2>1
<1>10. AddrsOf(i)' = AddrsOf(i) \cup {a}
  BY <1>6, AddrsAdd
<1>11. ASSUME NEW g, Gets(i, g)
       PROVE  Has(i, g, a)' /\ (g = None => Has(i, a, None)')
  BY <1>2, <1>3, <1>5, <1>8, <1>10, <1>11, GetsHas
<1>12. ASSUME i \notin amiss'
       PROVE  PhaseOf(i, old, new)'
  <2>1. i \notin amiss
    BY <1>7, <1>12 DEF Stays
  <2>2. PhaseOf(i, old, new)
    BY <1>1, <1>2, <1>3, <2>1 DEF Obj, Phase
  <2>3. At(i, old, new) /\ (call.req # "delete" => new \in ObjectsOf(i))
    BY <1>1, <1>2, <1>3, <2>2, PhaseHead
  <2>4. AtAddGlobal(i, old, new) \/ AtAddOnly(i, old, new) \/ AtAddLink(i, new)
    BY <1>1, <1>2, <2>3 DEF At, AtDeleteGlobal, AtDeleteLink, AtSet, AtSetLink,
                            DeletingGlobal, DeletingLink, Setting, SettingLink
  <2>5. new # None /\ new.ip = Ip(new)
    BY <2>3, <2>4, NotNone DEF AtAddGlobal, AtAddOnly, AtAddLink, AddingFirst, AddingLink, ObjectsOf, Ip
  <2>6. CASE AtAddGlobal(i, old, new)
    <3>1. a = new.ip /\ Gets(i, None) /\ new.ip # None /\ call.req \in {"create", "update"}
          /\ Tail(call.todo) = LinkOp("addLink", new)
      BY <1>1, <1>2, <2>6 DEF AtAddGlobal, AddingFirst, Upcoming
    <3>2. Has(i, new.ip, None)'
      BY <1>11, <3>1
    <3>3. CASE new.link
      <4>1. call'.todo = <<Op("addLink", new)>>
        BY <1>7, <3>1, <3>3 DEF LinkOp
      <4>2. AddingLink(i, new)'
        BY <1>7, <3>1, <3>2, <3>3, <4>1 DEF AddingLink
      <4> QED BY <4>2 DEF PhaseOf
    <3>4. CASE ~new.link
      <4>1. call'.todo = <<>>
        BY <1>7, <3>1, <3>4 DEF LinkOp
      <4>2. LinkIs(new, None)'
        BY <3>4 DEF LinkIs
      <4>3. Settled(i, new)'
        BY <2>5, <3>2, <4>2 DEF Settled, Ip
      <4> QED BY <4>1, <4>3 DEF PhaseOf, Done
    <3> QED BY <3>3, <3>4
  <2>7. CASE AtAddOnly(i, old, new) \/ AtAddLink(i, new)
    <3>1. new.link /\ a \in scene.pool /\ Gets(i, new.ip) /\ Tail(call.todo) = <<>>
      BY <1>1, <1>2, <2>7 DEF AtAddOnly, AtAddLink, AddingFirst, AddingLink, Upcoming
    <3>2. Has(i, new.ip, a)'
      BY <1>11, <3>1
    <3>3. LinkIs(new, a)'
      BY <2>5, <3>1 DEF LinkIs
    <3>4. Settled(i, new)'
      BY <2>5, <3>2, <3>3 DEF Settled, Ip
    <3> QED BY <1>7, <3>1, <3>4 DEF PhaseOf, Done
  <2> QED BY <2>4, <2>6, <2>7
<1>13. i \notin amiss' => PhaseOf(i, cfg[i], call.object)'
  BY <1>1, <1>7, <1>12, SamePhase
<1> QED BY <1>1, <1>2, <1>7, <1>9, <1>13, ObjStep

\* An address less: the global one, or the last.
LEMMA DeleteHas ==
  ASSUME NEW i \in Port, NEW a, a # None, refCount \in [Port -> Int], DeleteIPIntf(a, i)
  PROVE  /\ refCount' \in [Port -> Int]
         /\ \A j \in Port \ {i} : Same(j)
         /\ \A l : l # a /\ Has(i, a, l) => Has(i, None, l)'
         /\ Has(i, None, a) => Has(i, None, None)'
<1>1. /\ ipv6DB' = ipv6DB \ Entry(a, i)
      /\ refCount' = IF i \in sysVlan THEN [refCount EXCEPT ![i] = @ - 1] ELSE refCount
      /\ sysVlan' = IF refCount[i] = 1 THEN sysVlan \ {i} ELSE sysVlan
  BY DEF DeleteIPIntf, LastAddress
<1>2. refCount' \in [Port -> Int]
  BY <1>1
<1>3. ASSUME NEW j \in Port \ {i}
      PROVE  Same(j)
  <2>1. AddrsOf(j)' = AddrsOf(j)
    BY <1>1, AddrsDel
  <2>2. refCount'[j] = refCount[j] /\ (j \in sysVlan' <=> j \in sysVlan)
    BY <1>1
  <2> QED BY <2>1, <2>2 DEF Same
<1>4. AddrsOf(i)' = AddrsOf(i) \ {a}
  BY <1>1, AddrsDel
<1>5. ASSUME NEW l, l # a, Has(i, a, l)
      PROVE  Has(i, None, l)'
  <2>1. Count(a, l) = Count(None, l) + 1 /\ Count(None, l) \in {0, 1}
    BY DEF Count
  <2>2. AddrsOf(i)' = These(None, l)
    BY <1>4, <1>5 DEF Has, These
  <2>3. refCount[i] = Count(None, l) + 1 /\ i \in sysVlan
    BY <1>5, <2>1 DEF Has
  <2>4. refCount'[i] = Count(None, l) /\ (i \in sysVlan' <=> Count(None, l) > 0)
    BY <1>1, <2>1, <2>3
  <2> QED BY <2>2, <2>4 DEF Has
<1>6. ASSUME Has(i, None, a)
      PROVE  Has(i, None, None)'
  <2>1. Count(None, a) = 1 /\ Count(None, None) = 0
    BY DEF Count
  <2>2. AddrsOf(i)' = These(None, None)
    BY <1>4, <1>6 DEF Has, These
  <2>3. refCount[i] = 1 /\ i \in sysVlan
    BY <1>6, <2>1 DEF Has
  <2>4. refCount'[i] = Count(None, None) /\ (i \in sysVlan' <=> Count(None, None) > 0)
    BY <1>1, <2>1, <2>3
  <2> QED BY <2>2, <2>4 DEF Has
<1> QED BY <1>2, <1>3, <1>5, <1>6

\* A port without addresses is as no object says.
LEMMA BareSettled ==
  ASSUME NEW i
  PROVE  Settled(i, None) <=> Has(i, None, None)
BY DEF Settled, LinkIs, Ip

\* The old addresses are gone; a delete is done and an update goes on.
LEMMA AfterDeletions ==
  ASSUME PoolOk, call # None, NEW i, NEW old, NEW new, new = call.object,
         call.req \in {"update", "delete"}, call'.req = call.req, call'.object = new,
         call'.todo = Rest, call'.addr = None, Has(i, None, None)'
  PROVE  PhaseOf(i, old, new)'
<1>1. CASE call.req = "delete"
  <2>1. new = None /\ call'.todo = <<>>
    BY <1>1, CallIs DEF Rest
  <2>2. Settled(i, None)'
    BY BareSettled, PTL
  <2>3. Settled(i, new)'
    BY <2>1, <2>2
  <2> QED BY <2>1, <2>3 DEF PhaseOf, Done
<1>2. CASE call.req = "update"
  <2>1. AddingFirst(i, old, new)'
    BY <1>2 DEF AddingFirst, Rest
  <2> QED BY <2>1 DEF PhaseOf
<1> QED BY <1>1, <1>2

\* Only a deletion is next where one is.
LEMMA DeletingPhase ==
  ASSUME PoolOk, call # None, call.todo # <<>>, NEW i, i = call.intf, NEW old, old = cfg[i],
         NEW new, new = call.object, PhaseOf(i, old, new)
  PROVE  /\ Head(call.todo).do \in {"delGlobal", "undo"} => AtDeleteGlobal(i, old)
         /\ Head(call.todo).do = "delLink" => AtDeleteLink(i, old)
         /\ Head(call.todo).do = "setGlobal" => AtSet(i, old, new)
         /\ Head(call.todo).do = "setLink" => AtSetLink(i, new)
<1>1. At(i, old, new)
  BY PhaseHead
<1> QED BY <1>1 DEF At, AtDeleteGlobal, AtDeleteLink, AtAddGlobal, AtAddOnly, AtAddLink,
                     AtSet, AtSetLink, Upcoming, Op

\* An operation that does nothing goes wrong half way.
LEMMA UntouchedObj ==
  ASSUME PoolOk, Obj, UNCHANGED scene, call # None, Untouched
  PROVE  Obj'
<1>1. PICK i : i = call.intf
  OBVIOUS
<1>2. call \in Calls /\ UNCHANGED <<ipv6DB, refCount, sysVlan>> /\ Proceed(FALSE, FALSE)
  BY CallIs DEF Untouched, mgrVars
<1>3. Stays /\ i \in amiss'
  BY <1>1, <1>2, ProceedStays
<1>4. \A j : Same(j)
  BY <1>2, AddrsSame DEF Same
<1>5. refCount' \in [Port -> Int]
  BY <1>2 DEF Obj
<1> QED BY <1>1, <1>3, <1>4, <1>5, ObjStep

\* The global address is deleted.
LEMMA DeleteGlobalObj ==
  ASSUME scene \in Scenes, PoolOk, Obj, UNCHANGED scene, DeleteGlobal
  PROVE  Obj'
<1>1. PICK i, old, new : i = call.intf /\ old = cfg[i] /\ new = call.object
  OBVIOUS
<1>2. /\ call # None /\ call.todo # <<>> /\ call.addr = None
      /\ Head(call.todo).do \in {"delGlobal", "undo"}
  BY DEF DeleteGlobal, Doing
<1>3. Current.intf = i /\ i \in Port /\ Current.ip \in Global
  BY <1>1, <1>2, CurrentFacts DEF PoolOk
<1>4. PICK a : a = Current.ip
  OBVIOUS
<1>5. CASE Untouched
  BY <1>2, <1>5, UntouchedObj
<1>6. CASE DeleteIPIntf(a, i) /\ Proceed(TRUE, TRUE)
  <2>1. a # None /\ refCount \in [Port -> Int]
    BY <1>3, <1>4, NotNone DEF Obj, Addr
  <2>2. /\ refCount' \in [Port -> Int]
        /\ \A j \in Port \ {i} : Same(j)
        /\ \A l : l # a /\ Has(i, a, l) => Has(i, None, l)'
    BY <1>3, <1>6, <2>1, DeleteHas
  <2>3. /\ Stays /\ call' # None /\ call'.addr = None /\ call'.todo = Tail(call.todo)
        /\ call'.object = new /\ call'.req = call.req
    BY <1>1, <1>2, <1>6, SuccessStep
  <2>4. ASSUME i \notin amiss'
        PROVE  PhaseOf(i, old, new)'
    <3>1. PhaseOf(i, old, new)
      BY <1>1, <1>2, <1>3, <2>3, <2>4 DEF Obj, Phase, Stays
    <3>2. AtDeleteGlobal(i, old)
      BY <1>1, <1>2, <3>1, DeletingPhase
    <3>3. /\ Current = old /\ Tail(call.todo) = LinkOp("delLink", old) \o Rest
          /\ call.req \in {"update", "delete"} /\ old # None /\ old.ip = a
      BY <1>4, <3>2 DEF AtDeleteGlobal, Upcoming, DeletingGlobal, Current, Op
    <3>4. PICK l : LinkIs(old, l) /\ Has(i, a, l)
      BY <3>2, <3>3 DEF AtDeleteGlobal, DeletingGlobal, Settled, Ip
    <3>5. l # a
      BY <1>3, <1>4, <2>1, <3>4, SceneFacts DEF LinkIs
    <3>6. Has(i, None, l)'
      BY <2>2, <3>4, <3>5
    <3>7. old \in ObjectsOf(i) /\ Rest \in Seq(OpsOf(i))
      BY <1>1, <1>2, <3>3, CallIs
    <3>8. CASE old.link
      <4>1. call'.todo = <<Op("delLink", old)>> \o Rest
        BY <2>3, <3>3, <3>7, <3>8, OpForms
      <4>2. Rest' = Rest
        BY <1>1, <2>3 DEF Rest
      <4>3. l \in scene'.pool
        BY <3>3, <3>4, <3>8 DEF LinkIs
      <4>4. DeletingLink(i, old)'
        BY <2>3, <3>3, <3>6, <3>8, <4>1, <4>2, <4>3 DEF DeletingLink
      <4> QED BY <4>4 DEF PhaseOf
    <3>9. CASE ~old.link
      <4>1. call'.todo = Rest
        <5>1. PICK r \in Seq(OpsOf(i)) : r = Rest
          BY <3>7
        <5>2. LinkOp("delLink", old) \o r = r
          BY <3>7, <3>9, <5>1, OpForms
        <5> QED BY <2>3, <3>3, <5>1, <5>2
      <4>2. l = None
        BY <3>4, <3>9 DEF LinkIs
      <4>3. Has(i, None, None)'
        BY <3>6, <4>2
      <4> QED BY <1>1, <1>2, <2>3, <3>3, <4>1, <4>3, AfterDeletions
    <3> QED BY <3>8, <3>9
  <2>5. i \notin amiss' => PhaseOf(i, cfg[i], call.object)'
    BY <1>1, <2>3, <2>4, SamePhase
  <2> QED BY <1>1, <1>2, <2>2, <2>3, <2>5, ObjStep
<1> QED BY <1>3, <1>4, <1>5, <1>6 DEF DeleteGlobal

\* The link local address is deleted.  Without an entry the call has found a
\* freed one.
LEMMA DeleteLinkObj ==
  ASSUME scene \in Scenes, PoolOk, Obj, UNCHANGED scene, DeleteLink
  PROVE  Obj'
<1>1. PICK i, old, new : i = call.intf /\ old = cfg[i] /\ new = call.object
  OBVIOUS
<1>2. call # None /\ call.todo # <<>> /\ call.addr = None /\ Head(call.todo).do = "delLink"
  BY DEF DeleteLink, Doing
<1>3. Current.intf = i /\ i \in Port
  BY <1>1, <1>2, CurrentFacts DEF PoolOk
<1>4. CASE Untouched
  BY <1>2, <1>4, UntouchedObj
<1>5. ASSUME NEW a \in scene.pool, DeleteIPIntf(a, i), Proceed(TRUE, Entry(a, i) # {})
      PROVE  Obj'
  <2>1. a # None /\ refCount \in [Port -> Int]
    BY SceneFacts, NotNone DEF Obj, Addr
  <2>2. /\ refCount' \in [Port -> Int]
        /\ \A j \in Port \ {i} : Same(j)
        /\ Has(i, None, a) => Has(i, None, None)'
    BY <1>3, <1>5, <2>1, DeleteHas
  <2>3. /\ Stays /\ call' # None /\ call'.addr = None /\ call'.todo = Tail(call.todo)
        /\ call'.object = new /\ call'.req = call.req
        /\ Entry(a, i) = {} => i \in amiss'
    <3>1. CASE Entry(a, i) # {}
      <4>1. Proceed(TRUE, TRUE)
        BY <1>5, <3>1 DEF Proceed
      <4> QED BY <1>1, <1>2, <3>1, <4>1, SuccessStep
    <3>2. CASE Entry(a, i) = {}
      <4>1. Proceed(TRUE, FALSE)
        BY <1>5, <3>2 DEF Proceed
      <4> QED BY <1>1, <1>2, <3>2, <4>1, SuccessStep
    <3> QED BY <3>1, <3>2
  <2>4. ASSUME i \notin amiss'
        PROVE  PhaseOf(i, old, new)'
    <3>1. PhaseOf(i, old, new)
      BY <1>1, <1>2, <1>3, <2>3, <2>4 DEF Obj, Phase, Stays
    <3>2. AtDeleteLink(i, old)
      BY <1>1, <1>2, <3>1, DeletingPhase
    <3>3. /\ Tail(call.todo) = Rest /\ call.req \in {"update", "delete"}
      BY <3>2 DEF AtDeleteLink, Upcoming, DeletingLink
    <3>4. PICK l : Has(i, None, l)
      BY <3>2 DEF AtDeleteLink, DeletingLink
    <3>5. a \in AddrsOf(i)
      BY <2>3, <2>4 DEF Entry, AddrsOf
    <3>6. a = l
      BY <2>1, <3>4, <3>5 DEF Has, These
    <3>7. Has(i, None, None)'
      BY <2>2, <3>4, <3>6
    <3>8. call'.todo = Rest
      BY <2>3, <3>3
    <3> QED BY <1>1, <1>2, <2>3, <3>3, <3>7, <3>8, AfterDeletions
  <2>5. i \notin amiss' => PhaseOf(i, cfg[i], call.object)'
    BY <1>1, <2>3, <2>4, SamePhase
  <2> QED BY <1>1, <1>2, <2>2, <2>3, <2>5, ObjStep
<1>6. \A a \in LinkLocalsOf(i) : a \in scene.pool
  BY DEF LinkLocalsOf
<1> QED BY <1>3, <1>4, <1>5, <1>6 DEF DeleteLink

\* A change of the admin state leaves the addresses.
LEMMA AddrsSet ==
  ASSUME PoolOk, NEW a, NEW i, NEW j, SetAdmin(a, i)
  PROVE  Same(j)
<1>1. PICK x : x = Current.admin
  OBVIOUS
<1>2. /\ ipv6DB' = (ipv6DB \ Entry(a, i)) \cup {[e EXCEPT !.admin = x] : e \in Entry(a, i)}
      /\ refCount' = refCount /\ sysVlan' = sysVlan
  BY <1>1 DEF SetAdmin
<1>3. \A y : y \in AddrsOf(j) <=> \E e \in ipv6DB : e.intf = j /\ e.addr = y
  BY DEF AddrsOf
<1>4. \A y : y \in AddrsOf(j)' <=> \E e \in ipv6DB' : e.intf = j /\ e.addr = y
  BY DEF AddrsOf
<1>5. \A e \in ipv6DB : [e EXCEPT !.admin = x].addr = e.addr /\ [e EXCEPT !.admin = x].intf = e.intf
  BY DEF PoolOk, Entries
<1>6. Entry(a, i) \subseteq ipv6DB
  BY DEF Entry
<1>7. ASSUME NEW e \in ipv6DB
      PROVE  \E f \in ipv6DB' : f.intf = e.intf /\ f.addr = e.addr
  <2>1. CASE e \in Entry(a, i)
    <3>1. [e EXCEPT !.admin = x] \in ipv6DB'
      BY <1>2, <2>1
    <3> QED BY <1>5, <3>1
  <2>2. CASE e \notin Entry(a, i)
    BY <1>2, <2>2
  <2> QED BY <2>1, <2>2
<1>8. ASSUME NEW f \in ipv6DB'
      PROVE  \E e \in ipv6DB : f.intf = e.intf /\ f.addr = e.addr
  <2>1. CASE f \in ipv6DB
    BY <2>1
  <2>2. CASE f \notin ipv6DB
    <3>1. PICK e \in Entry(a, i) : f = [e EXCEPT !.admin = x]
      BY <1>2, <2>2
    <3> QED BY <1>5, <1>6, <3>1
  <2> QED BY <2>1, <2>2
<1>9. \A y : y \in AddrsOf(j)' <=> y \in AddrsOf(j)
  BY <1>3, <1>4, <1>7, <1>8
<1>10. AddrsOf(j)' = AddrsOf(j)
  BY <1>9
<1> QED BY <1>2, <1>10 DEF Same

\* A change of the admin state in a call that goes on or is done.
LEMMA SetAdminObj ==
  ASSUME PoolOk, Obj, UNCHANGED scene, call # None, call.todo # <<>>,
         Head(call.todo).do \in {"setGlobal", "setLink"}, NEW a, NEW b, SetAdmin(a, b)
  PROVE  Obj'
<1>1. PICK i, old, new : i = call.intf /\ old = cfg[i] /\ new = call.object
  OBVIOUS
<1>2. i \in Port /\ refCount' \in [Port -> Int] /\ \A j : Same(j)
  <2>1. refCount' = refCount
    BY DEF SetAdmin
  <2> QED BY <1>1, <2>1, CallIs, AddrsSet DEF Obj
<1>3. /\ Stays /\ call' # None /\ call'.addr = None /\ call'.todo = Tail(call.todo)
      /\ call'.object = new /\ call'.req = call.req
  <2>1. Proceed(TRUE, TRUE) \/ Proceed(TRUE, FALSE)
    BY DEF SetAdmin, Proceed
  <2> QED BY <1>1, <2>1, SuccessStep
<1>4. ASSUME i \notin amiss'
      PROVE  PhaseOf(i, old, new)'
  <2>1. PhaseOf(i, old, new)
    BY <1>1, <1>2, <1>3, <1>4 DEF Obj, Phase, Stays
  <2>2. AtSet(i, old, new) \/ AtSetLink(i, new)
    BY <1>1, <2>1, DeletingPhase
  <2>3. Settled(i, new)'
    <3>1. Settled(i, new)
      BY <2>2 DEF AtSet, AtSetLink, Setting, SettingLink
    <3> QED BY <1>2, <3>1, SameSettled
  <2>4. CASE AtSet(i, old, new)
    <3>1. call'.todo = LinkOp("setLink", new) /\ call.req = "update"
      BY <1>3, <2>4 DEF AtSet, Upcoming, Setting
    <3>2. CASE new.link
      BY <1>3, <2>3, <3>1, <3>2 DEF PhaseOf, SettingLink, LinkOp
    <3>3. CASE ~new.link
      BY <2>3, <3>1, <3>3 DEF PhaseOf, Done, LinkOp
    <3> QED BY <3>2, <3>3
  <2>5. CASE AtSetLink(i, new)
    BY <1>3, <2>3, <2>5 DEF AtSetLink, Upcoming, PhaseOf, Done
  <2> QED BY <2>2, <2>4, <2>5
<1>5. i \notin amiss' => PhaseOf(i, cfg[i], call.object)'
  BY <1>1, <1>3, <1>4, SamePhase
<1> QED BY <1>1, <1>2, <1>3, <1>5, ObjStep

\* An object without a global address ends its update here.
LEMMA SetGlobalObj ==
  ASSUME PoolOk, Obj, UNCHANGED scene, SetGlobal
  PROVE  Obj'
<1>1. PICK i, old, new : i = call.intf /\ old = cfg[i] /\ new = call.object
  OBVIOUS
<1>2. call # None /\ call.todo # <<>> /\ call.addr = None /\ Head(call.todo).do = "setGlobal"
  BY DEF SetGlobal, Doing
<1>3. CASE \E a, b : SetAdmin(a, b)
  BY <1>2, <1>3, SetAdminObj
<1>4. CASE Proceed(FALSE, TRUE) /\ UNCHANGED <<ipv6DB, refCount, sysVlan>>
  <2>1. call \in Calls /\ i \in Port
    BY <1>1, <1>2, CallIs
  <2>2. Stays
    BY <1>4, <2>1, ProceedStays
  <2>3. \A j : Same(j)
    BY <1>4, AddrsSame DEF Same
  <2>4. ASSUME i \notin amiss'
        PROVE  call' = None /\ Settled(i, cfg[i])'
    <3>1. PhaseOf(i, old, new)
      BY <1>1, <1>2, <2>1, <2>2, <2>4 DEF Obj, Phase, Stays
    <3>2. AtSet(i, old, new)
      BY <1>1, <1>2, <3>1, DeletingPhase
    <3>3. call.req = "update" /\ Settled(i, old)
      BY <3>2 DEF AtSet, Setting
    <3>4. Ends("setGlobal") /\ ~Undone("setGlobal")
      BY <3>3 DEF Ends, Undone
    <3>5. Reply(FALSE)
      BY <1>2, <1>4, <3>4 DEF Proceed
    <3>6. call' = None
      BY <3>5 DEF Reply
    <3>7. Settled(i, old)' /\ cfg'[i] = old
      BY <1>1, <2>2, <2>3, <3>3, SameSettled DEF Stays
    <3> QED BY <3>6, <3>7
  <2>5. refCount' \in [Port -> Int]
    BY <1>4 DEF Obj
  <2> QED BY <1>1, <1>2, <2>2, <2>3, <2>4, <2>5, ObjStep
<1> QED BY <1>3, <1>4 DEF SetGlobal, mgrVars

\* The object is stored when its port is as it says.
LEMMA StoreObjectObj ==
  ASSUME PoolOk, Obj, UNCHANGED scene, StoreObject
  PROVE  Obj'
<1>1. PICK i, old, new : i = call.intf /\ old = cfg[i] /\ new = call.object
  OBVIOUS
<1>2. /\ call # None /\ call.todo = <<>> /\ cfg' = [cfg EXCEPT ![i] = new] /\ call' = None
      /\ UNCHANGED <<ipv6DB, refCount, sysVlan, amiss>>
  BY <1>1 DEF StoreObject, mgrVars
<1>3. i \in Port /\ cfg \in [Port -> Object \cup {None}]
  BY <1>1, <1>2, CallIs DEF PoolOk, CfgOk
<1>4. ASSUME NEW j \in Port \ amiss'
      PROVE  Settled(j, cfg[j])'
  <2>1. PICK o : o = cfg'[j]
    OBVIOUS
  <2>2. Same(j)
    BY <1>2, AddrsSame DEF Same
  <2>3. CASE j = i
    <3>1. PhaseOf(i, old, new) /\ o = new
      BY <1>1, <1>2, <1>3, <1>4, <2>1, <2>3 DEF Obj, Phase
    <3>2. Settled(i, new)
      BY <1>1, <1>2, <3>1, PhaseEmpty DEF Done
    <3> QED BY <2>1, <2>2, <2>3, <3>1, <3>2, SameSettled
  <2>4. CASE j # i
    <3>1. Settled(j, o)
      BY <1>1, <1>2, <1>3, <1>4, <2>1, <2>4 DEF Obj
    <3> QED BY <2>1, <2>2, <3>1, SameSettled
  <2> QED BY <2>3, <2>4
<1> QED BY <1>2, <1>4 DEF Obj

\* A call begins on a port that is as its object says.
LEMMA StartObj ==
  ASSUME Obj, UNCHANGED scene, NEW req, NEW i \in Port, NEW object, NEW ops,
         Start(req, i, object, ops), NEW old, old = cfg[i],
         i \notin amiss => PhaseOf(i, old, object)'
  PROVE  Obj'
<1>1. /\ call = None
      /\ call' = [req |-> req, intf |-> i, object |-> object, todo |-> ops, addr |-> None]
      /\ UNCHANGED <<ipv6DB, refCount, sysVlan, cfg, amiss>>
  BY DEF Start, mgrVars
<1>2. call'.intf = i /\ call'.object = object
  BY <1>1
<1>3. ASSUME NEW j \in Port \ amiss'
      PROVE  IF call' # None /\ call'.intf = j THEN Phase(j)' ELSE Settled(j, cfg[j])'
  <2>1. CASE j = i
    <3>1. PhaseOf(i, cfg[i], call.object)'
      BY <1>1, <1>2, <1>3, <2>1
    <3>2. Settled(j, cfg[j])' \/ call' # None
      <4>1. PICK o : o = cfg[j]
        OBVIOUS
      <4>2. Settled(j, o)
        BY <1>1, <1>3, <4>1 DEF Obj
      <4>3. Settled(j, o)'
        BY <1>1, <4>2, SameSettled, AddrsSame DEF Same
      <4> QED BY <1>1, <4>1, <4>3
    <3> QED BY <1>2, <2>1, <3>1, <3>2 DEF Phase
  <2>2. CASE j # i
    <3>1. PICK o : o = cfg[j]
      OBVIOUS
    <3>2. Settled(j, o)
      BY <1>1, <1>3, <3>1 DEF Obj
    <3>3. Settled(j, o)'
      BY <1>1, <3>2, SameSettled, AddrsSame DEF Same
    <3> QED BY <1>1, <1>2, <2>2, <3>1, <3>3
  <2> QED BY <2>1, <2>2
<1> QED BY <1>1, <1>3 DEF Obj

\* A create begins without addresses.
LEMMA CreateBegins ==
  ASSUME PoolOk, Obj, UNCHANGED scene, scene \in Scenes, CreateIPv6Intf
  PROVE  Obj'
<1>1. PICK new \in Object : cfg[new.intf] = None /\ Start("create", new.intf, new, CreateOps(new))
  BY SceneFacts DEF CreateIPv6Intf
<1>2. PICK i \in Port : i = new.intf
  BY <1>1 DEF Object
<1>3. /\ call = None /\ UNCHANGED <<ipv6DB, refCount, sysVlan>>
      /\ call'.req = "create" /\ call'.todo = CreateOps(new) /\ call'.addr = None
  BY <1>1 DEF Start, mgrVars
<1>4. ASSUME i \notin amiss
      PROVE  PhaseOf(i, None, new)'
  <2>1. Settled(i, None)
    BY <1>1, <1>2, <1>3, <1>4 DEF Obj
  <2>2. Has(i, None, None)'
    BY <1>3, <2>1, BareSettled, AddrsSame DEF Has
  <2> QED BY <1>3, <2>2 DEF PhaseOf, AddingFirst
<1> QED BY <1>1, <1>2, <1>4, StartObj

\* The deletions of a call begin with the addresses of the old object.
LEMMA DeletionsBegin ==
  ASSUME scene \in Scenes, UNCHANGED <<scene, ipv6DB, refCount, sysVlan>>, NEW i, NEW old \in ObjectsOf(i),
         NEW new, Settled(i, old), call'.req \in {"update", "delete"}, call'.addr = None,
         NEW s \in Seq(OpsOf(i)), call'.todo = DeleteOps(old) \o s, Rest' = s
  PROVE  PhaseOf(i, old, new)'
<1>1. old # None
  BY NotNone DEF ObjectsOf
<1>2. Same(i)
  BY AddrsSame DEF Same
<1>3. CASE old.ip # None
  <2>1. call'.todo = <<Op("delGlobal", old)>> \o (LinkOp("delLink", old) \o Rest')
    BY <1>3, OpForms
  <2>2. Settled(i, old)'
    BY <1>2, SameSettled
  <2>3. DeletingGlobal(i, old)'
    BY <1>1, <1>3, <2>1, <2>2 DEF DeletingGlobal
  <2> QED BY <2>3 DEF PhaseOf
<1>4. CASE old.ip = None
  <2>1. old.link /\ call'.todo = <<Op("delLink", old)>> \o Rest'
    BY <1>4, OpForms
  <2>2. PICK l : l \in scene.pool /\ Has(i, None, l)
    BY <1>1, <1>4, <2>1 DEF Settled, LinkIs, Ip
  <2>3. Has(i, None, l)'
    BY <1>2, <2>2 DEF Has, Same
  <2>4. DeletingLink(i, old)'
    BY <1>1, <2>1, <2>2, <2>3 DEF DeletingLink
  <2> QED BY <2>4 DEF PhaseOf
<1> QED BY <1>3, <1>4

\* A delete begins with both addresses.
LEMMA DeleteBegins ==
  ASSUME PoolOk, Obj, UNCHANGED scene, scene \in Scenes, DeleteIPv6Intf
  PROVE  Obj'
<1>0. PICK i \in Port : cfg[i] # None /\ Start("delete", i, None, DeleteOps(cfg[i]))
  BY DEF DeleteIPv6Intf
<1>1. PICK old : i \in Port /\ old = cfg[i] /\ old # None /\ Start("delete", i, None, DeleteOps(old))
  BY <1>0
<1>2. old \in ObjectsOf(i)
  BY <1>1 DEF PoolOk, CfgOk
<1>3. /\ call = None /\ UNCHANGED <<ipv6DB, refCount, sysVlan>>
      /\ call'.req = "delete" /\ call'.todo = DeleteOps(old) /\ call'.addr = None
  BY <1>1 DEF Start, mgrVars
<1>4. DeleteOps(old) \o <<>> = DeleteOps(old)
  BY <1>2, OpsTyped, EmptySeq, ConcatEmptySeq
<1>5. Rest' = <<>>
  BY <1>3 DEF Rest
<1>6. ASSUME i \notin amiss
      PROVE  PhaseOf(i, old, None)'
  <2>1. Settled(i, old)
    BY <1>1, <1>3, <1>6 DEF Obj
  <2> QED BY <1>2, <1>3, <1>4, <1>5, <2>1, EmptySeq, DeletionsBegin
<1> QED BY <1>1, <1>6, StartObj

\* An update begins with the addresses of the old object, which are those of the
\* new one if only the admin state changes.
LEMMA UpdateBegins ==
  ASSUME PoolOk, Obj, UNCHANGED scene, scene \in Scenes, UpdateIPv6Intf
  PROVE  Obj'
<1>1. PICK new \in Object :
        cfg[new.intf] # None /\ Start("update", new.intf, new, UpdateOps(cfg[new.intf], new))
  BY SceneFacts DEF UpdateIPv6Intf
<1>2. PICK i, old : i \in Port /\ i = new.intf /\ old = cfg[i]
  BY <1>1 DEF Object
<1>3. old \in ObjectsOf(i) /\ new \in ObjectsOf(i) /\ old # None
  BY <1>1, <1>2 DEF PoolOk, CfgOk, ObjectsOf
<1>4. /\ call = None /\ UNCHANGED <<ipv6DB, refCount, sysVlan>> /\ call'.object = new
      /\ call'.req = "update" /\ call'.todo = UpdateOps(old, new) /\ call'.addr = None
  BY <1>1, <1>2 DEF Start, mgrVars
<1>5. ASSUME i \notin amiss
      PROVE  PhaseOf(i, old, new)'
  <2>1. Settled(i, old)
    BY <1>2, <1>4, <1>5 DEF Obj
  <2>2. CASE old.ip # new.ip \/ old.link # new.link
    <3>1. PICK s \in Seq(OpsOf(i)) : s = CreateOps(new)
      BY <1>3, OpsTyped, EmptySeq
    <3>2. call'.todo = DeleteOps(old) \o s
      BY <1>4, <2>2, <3>1 DEF UpdateOps
    <3>3. Rest' = s
      BY <1>4, <3>1 DEF Rest
    <3> QED BY <1>3, <1>4, <2>1, <3>2, <3>3, DeletionsBegin
  <2>3. CASE old.ip = new.ip /\ old.link = new.link
    <3>1. call'.todo = <<Op("setGlobal", new)>> \o LinkOp("setLink", new)
      BY <1>4, <2>3 DEF UpdateOps
    <3>2. new # None
      BY <1>3, NotNone DEF ObjectsOf
    <3>3. Settled(i, new)
      BY <1>3, <2>1, <2>3, <3>2 DEF Settled, LinkIs, Ip
    <3>4. Settled(i, old)' /\ Settled(i, new)'
      BY <1>4, <2>1, <3>3, SameSettled, AddrsSame DEF Same
    <3>5. Setting(i, old, new)'
      BY <1>4, <3>1, <3>4 DEF Setting
    <3> QED BY <3>5 DEF PhaseOf
  <2> QED BY <2>2, <2>3
<1> QED BY <1>1, <1>2, <1>5, StartObj

\* A port update leaves the database alone.
LEMMA AdminPortObj ==
  ASSUME PoolOk, Obj, UNCHANGED scene, UNCHANGED <<ipv6DB, refCount, sysVlan, cfg, call, amiss>>
  PROVE  Obj'
<1>1. ASSUME NEW j \in Port \ amiss'
      PROVE  IF call' # None /\ call'.intf = j THEN Phase(j)' ELSE Settled(j, cfg[j])'
  <2>1. CASE call # None /\ call.intf = j
    <3>1. Phase(j)
      BY <1>1, <2>1 DEF Obj
    <3>2. AddrsOf(j)' = AddrsOf(j)
      BY AddrsSame
    <3> QED BY <2>1, <3>1, <3>2 DEF Phase, PhaseOf, Done, DeletingGlobal, DeletingLink, AddingFirst,
              AddingLink, Setting, SettingLink, Settled, Has, Gets, LinkIs, Rest, CreateOps, Ip
  <2>2. CASE ~(call # None /\ call.intf = j)
    <3>1. PICK o : o = cfg[j]
      OBVIOUS
    <3>2. Settled(j, o)
      BY <1>1, <2>2, <3>1 DEF Obj
    <3>3. Settled(j, o)'
      BY <3>2, SameSettled, AddrsSame DEF Same
    <3> QED BY <2>2, <3>1, <3>3
  <2> QED BY <2>1, <2>2
<1> QED BY <1>1 DEF Obj

\* No step but a restart breaks the invariant of the objects.
LEMMA NextKeepsObj ==
  ASSUME scene \in Scenes, PoolOk, Obj, Next, ~Restart
  PROVE  Obj'
<1>0. UNCHANGED scene /\ CallInv
  BY DEF Next, PoolOk
<1>1. CASE CreateIPv6Intf \/ UpdateIPv6Intf \/ DeleteIPv6Intf
  BY <1>0, <1>1, CreateBegins, UpdateBegins, DeleteBegins
<1>2. CASE AddGlobal
  <2>1. call # None /\ call.todo # <<>> /\ call.addr = None /\ Head(call.todo).do = "addGlobal"
    BY <1>2 DEF AddGlobal, Doing
  <2>2. PICK a \in Addr : a = Current.ip
    BY <1>0, <2>1, CurrentFacts DEF Addr
  <2>3. CreateIPIntf(a)
    BY <1>2, <2>2 DEF AddGlobal
  <2> QED BY <1>0, <2>1, <2>2, <2>3, CreateObj
<1>3. CASE AddLink
  <2>1. call # None /\ call.todo # <<>> /\ call.addr = None /\ Head(call.todo).do = "addLink"
    BY <1>3 DEF AddLink, Doing
  <2>2. CASE \E a \in scene.pool : CreateIPIntf(a)
    <3>1. PICK a \in scene.pool : CreateIPIntf(a)
      BY <2>2
    <3>2. a \in Addr
      BY SceneFacts DEF Addr
    <3> QED BY <1>0, <2>1, <3>1, <3>2, CreateObj
  <2>3. CASE Proceed(FALSE, First) /\ UNCHANGED <<ipv6DB, refCount, sysVlan>>
    BY <1>0, <2>1, <2>3, RefusedObj
  <2> QED BY <1>3, <2>2, <2>3 DEF AddLink, mgrVars
<1>4. CASE AddStored
  BY <1>0, <1>4, CurrentFacts DEF AddStored, Doing
<1>5. CASE StoreAddress
  BY <1>0, <1>5, StoreObj
<1>6. CASE DeleteGlobal \/ DeleteLink
  BY <1>0, <1>6, DeleteGlobalObj, DeleteLinkObj
<1>7. CASE SetGlobal
  BY <1>0, <1>7, SetGlobalObj
<1>8. CASE SetLink
  <2>1. call # None /\ call.todo # <<>> /\ Head(call.todo).do = "setLink"
    BY <1>8 DEF SetLink, Doing
  <2> QED BY <1>0, <1>8, <2>1, SetAdminObj, UntouchedObj DEF SetLink
<1>9. CASE StoreObject
  BY <1>0, <1>9, StoreObjectObj
<1>10. CASE \E i \in Port, state \in Admin : AdminPort(i, state)
  <2>1. UNCHANGED <<ipv6DB, refCount, sysVlan, cfg, call, amiss>>
    BY <1>10 DEF AdminPort, mgrVars
  <2> QED BY <1>0, <2>1, AdminPortObj
<1> QED BY <1>1, <1>2, <1>3, <1>4, <1>5, <1>6, <1>7, <1>8, <1>9, <1>10 DEF Next

\* No port has an object or an address.
LEMMA ObjInvInit ==
  ASSUME Init
  PROVE  ObjInv
<1>1. /\ ipv6DB = {} /\ refCount = [i \in Port |-> 0] /\ sysVlan = {} /\ call = None
      /\ cfg = [i \in Port |-> None]
  BY DEF Init
<1>2. ASSUME NEW i \in Port
      PROVE  Settled(i, cfg[i])
  <2>1. AddrsOf(i) = {} /\ These(None, None) = {}
    BY <1>1 DEF AddrsOf, These
  <2>2. Count(None, None) = 0
    BY DEF Count
  <2>3. Has(i, None, None)
    BY <1>1, <2>1, <2>2 DEF Has
  <2>4. cfg[i] = None
    BY <1>1
  <2> QED BY <2>3, <2>4, BareSettled
<1>3. Obj
  BY <1>1, <1>2 DEF Obj
<1> QED BY <1>3, PoolInvInit DEF ObjInv

\* The invariant of the objects is inductive.
LEMMA ObjInvNext ==
  ASSUME ObjInv, [Next]_vars
  PROVE  ObjInv'
<1>1. PoolInv'
  BY PoolInvNext DEF ObjInv
<1>2. CASE UNCHANGED vars
  <2>1. UNCHANGED <<ipv6DB, refCount, sysVlan, cfg, call, amiss, scene, restarts>>
    BY <1>2 DEF vars, mgrVars, linuxVars
  <2>2. restarts = 0 => Obj'
    BY <2>1, AdminPortObj DEF ObjInv, PoolInv
  <2> QED BY <1>1, <2>1, <2>2 DEF ObjInv
<1>3. CASE Next
  <2>1. restarts \in Nat /\ scene \in Scenes
    BY DEF ObjInv, PoolInv
  <2>2. restarts' = 0 => restarts = 0 /\ ~Restart
    BY <1>3, <2>1, NoRestart
  <2>3. restarts' = 0 => Obj'
    BY <1>3, <2>1, <2>2, NextKeepsObj DEF ObjInv, PoolInv
  <2> QED BY <1>1, <2>3 DEF ObjInv
<1> QED BY <1>2, <1>3

\* A port that is settled has the addresses of its object, counted.
LEMMA SettledConfigured ==
  ASSUME scene \in Scenes, NEW i \in Port, CfgOk, Settled(i, cfg[i])
  PROVE  AsConfigured(i)
<1>1. PICK o \in Object \cup {None} : o = cfg[i]
  BY DEF CfgOk
<1>2. PICK l : LinkIs(o, l) /\ Has(i, Ip(o), l)
  BY <1>1 DEF Settled
<1>3. Ip(o) \in Global \cup {None} /\ (o # None => o.ip = Ip(o))
  BY DEF Ip, Object
<1>4. l \in LinkLocal \cup {None}
  BY <1>2, SceneFacts DEF LinkIs
<1>5. None \notin Global /\ None \notin LinkLocal /\ Global \cap LinkLocal = {}
  BY AddrAssumption DEF Addr
<1>6. PICK g : g = Ip(o)
  OBVIOUS
<1>7. AddrsOf(i) = These(g, l)
  BY <1>2, <1>6 DEF Has
<1>8. AddrsOf(i) \cap Global = GlobalOf(o)
  BY <1>3, <1>4, <1>5, <1>6, <1>7 DEF GlobalOf, These, Ip
<1>9. LinksOf(i) = {l} \ {None}
  BY <1>3, <1>4, <1>5, <1>6, <1>7 DEF LinksOf, These
<1>10. l # None <=> o # None /\ o.link
  <2>1. o # None /\ o.link => l \in LinkLocal
    BY <1>2, SceneFacts DEF LinkIs
  <2> QED BY <1>2, <1>5, <2>1 DEF LinkIs
<1>11. Cardinality(LinksOf(i)) = IF o # None /\ o.link THEN 1 ELSE 0
  <2>1. CASE l = None
    <3>1. LinksOf(i) = {}
      BY <1>9, <2>1
    <3> QED BY <1>10, <2>1, <3>1, FS_EmptySet
  <2>2. CASE l # None
    <3>1. LinksOf(i) = {l}
      BY <1>9, <2>2
    <3> QED BY <1>10, <2>2, <3>1, FS_Singleton
  <2> QED BY <2>1, <2>2
<1>12. Cardinality(These(g, l)) = Count(g, l)
  <2>1. CASE g = None /\ l = None
    <3>1. These(g, l) = {}
      BY <2>1 DEF These
    <3> QED BY <2>1, <3>1, FS_EmptySet DEF Count
  <2>2. CASE g = None /\ l # None
    <3>1. These(g, l) = {l} /\ Count(g, l) = 1
      BY <2>2 DEF These, Count
    <3>2. Cardinality({l}) = 1
      BY FS_Singleton
    <3> QED BY <3>1, <3>2
  <2>3. CASE g # None /\ l = None
    <3>1. These(g, l) = {g} /\ Count(g, l) = 1
      BY <2>3 DEF These, Count
    <3>2. Cardinality({g}) = 1
      BY FS_Singleton
    <3> QED BY <3>1, <3>2
  <2>4. CASE g # None /\ l # None
    <3>1. These(g, l) = {g} \cup {l} /\ l \notin {g}
      BY <1>3, <1>4, <1>5, <1>6, <2>4 DEF These
    <3>2. IsFiniteSet({g}) /\ Cardinality({g}) = 1
      BY FS_Singleton
    <3>3. Cardinality({g} \cup {l}) = 1 + 1
      BY <3>1, <3>2, FS_AddElement
    <3> QED BY <2>4, <3>1, <3>3 DEF Count
  <2> QED BY <2>1, <2>2, <2>3, <2>4
<1>13. These(g, l) # {} <=> Count(g, l) > 0
  BY DEF These, Count
<1>14. Counted(i)
  BY <1>2, <1>6, <1>7, <1>12, <1>13 DEF Counted, Has
<1> QED BY <1>1, <1>8, <1>11, <1>14 DEF AsConfigured

\* The addresses of every port follow its calls in every state before the first
\* restart.
THEOREM ObjectsInductive == Spec => []ObjInv
<1>1. Init => ObjInv
  BY ObjInvInit
<1>2. ObjInv /\ [Next]_vars => ObjInv'
  BY ObjInvNext
<1> QED BY <1>1, <1>2, PTL DEF Spec

\* Calls that delete and create two addresses each leave every interface as its
\* object says, with any pool, any number of ports that ask for an address of
\* it, and links that change in the middle of a call, until a call for this
\* port goes wrong half way (l3Services.go:607, l3IntfMgr.go:686).
THEOREM ObjectsAlwaysConfigured == Spec => []ObjectsConfigured
<1>1. ObjInv => ObjectsConfigured
  <2>1. SUFFICES ASSUME ObjInv, restarts = 0, call = None, NEW i \in Port \ amiss
                 PROVE  AsConfigured(i)
    BY DEF ObjectsConfigured
  <2>2. scene \in Scenes /\ CfgOk /\ Settled(i, cfg[i])
    BY <2>1 DEF ObjInv, Obj, PoolInv, PoolOk
  <2> QED BY <2>2, SettledConfigured
<1> QED BY <1>1, ObjectsInductive, PTL

-----------------------------------------------------------------------------
(***************************************************************************)
(* Restarts.                                                               *)
(***************************************************************************)
Stored == llStored \in [scene.pool -> Port \cup {None}]

\* What Init does: first the global addresses, then the stored ones.
Globals == {Op("addGlobal", cfg[i]) : i \in {p \in Port : cfg[p] # None /\ cfg[p].ip # None}}
Links == {Op("addStored", StoredObject(a)) : a \in {b \in scene.pool : llStored[b] # None}}

Lists(s, G, L) ==
  /\ s \in Seq(G \cup L) /\ IsInjective(s)
  /\ \A j, k \in 1 .. Len(s) : j < k /\ s[j] \in L => s[k] \in L
  /\ Range(s) \cap G # {} => L \subseteq Range(s)

DoneOps == (Globals \cup Links) \ Range(call.todo)

\* The addresses a port gets from operations.
OfOps(i, ops) == {x.object.ip : x \in {y \in ops : y.object.intf = i}}

\* The objects ask for what Init can do.
Fit(i) == Unshared(i) /\ AutoAddr[i] \notin scene.pool

\* A port has the addresses of these operations, and what the kernel chose.
Booted(i, ops) ==
  /\ AddrsOf(i) = OfOps(i, ops)
  /\ IsFiniteSet(AddrsOf(i)) /\ refCount[i] = Cardinality(AddrsOf(i))
  /\ i \in sysVlan <=> AddrsOf(i) # {}
  /\ kAddr[i] \subseteq AddrsOf(i) \cup {AutoAddr[i]}

\* The same with another address on its way.
Booting(i, ops, a) ==
  /\ AddrsOf(i) = OfOps(i, ops)
  /\ IsFiniteSet(AddrsOf(i)) /\ refCount[i] = Cardinality(AddrsOf(i))
  /\ i \in sysVlan
  /\ kAddr[i] \subseteq AddrsOf(i) \cup {AutoAddr[i], a}

InitCalls == [req : {"boot"}, intf : {None}, object : {None}, todo : Seq(InitOperation),
              addr : Addr \cup {None}]

\* An entry is there for an operation that was done.
Founded(ops) == \A e \in ipv6DB : \E x \in ops : x.object.intf = e.intf /\ x.object.ip = e.addr

Tables == refCount \in [Port -> Int] /\ kAddr \in [Port -> SUBSET Addr]

\* Init has done some of its operations and has others left.
Boot ==
  /\ call # None /\ call \in InitCalls /\ call.addr \in {None, Current.ip}
  /\ call.todo # <<>> /\ Lists(call.todo, Globals, Links)
  /\ Tables /\ Founded(DoneOps)
  /\ \A i \in Port : Fit(i) =>
       IF call.addr # None /\ Current.intf = i THEN Booting(i, DoneOps, call.addr)
       ELSE Booted(i, DoneOps)

RestoreInv == scene \in Scenes /\ CfgOk /\ Stored /\ (CallInv \/ Boot)

\* A list of everything in a finite set.
LEMMA SetAsList ==
  ASSUME NEW S, IsFiniteSet(S)
  PROVE  /\ SetToSeq(S) \in Seq(S) /\ IsInjective(SetToSeq(S)) /\ Range(SetToSeq(S)) = S
         /\ Len(SetToSeq(S)) = Cardinality(S)
<1>1. Cardinality(S) \in Nat /\ ExistsBijection(1 .. Cardinality(S), S)
  BY FS_CardinalityType
<1>2. PICK n \in Nat : n = Cardinality(S)
  BY <1>1
<1>3. PICK f \in [1 .. n -> S] : IsInjective(f)
  BY <1>1, <1>2 DEF ExistsBijection, Bijection, Injection
<1>4. PICK s : s = SetToSeq(S)
  OBVIOUS
<1>5. s \in [1 .. n -> S] /\ IsInjective(s)
  BY <1>2, <1>3, <1>4 DEF SetToSeq
<1>6. s \in Surjection(1 .. n, S)
  <2>1. s \in Injection(1 .. n, S)
    BY <1>5 DEF Injection
  <2>2. Cardinality(1 .. n) = n
    BY <1>2, FS_Interval
  <2> QED BY <1>2, <2>1, <2>2, FS_Injection
<1>7. Range(s) = S
  BY <1>5, <1>6 DEF Surjection, Range
<1>8. s \in Seq(S) /\ Len(s) = n
  BY <1>5, SeqDef
<1> QED BY <1>2, <1>4, <1>5, <1>7, <1>8

\* The range of a list.
LEMMA RangeOf ==
  ASSUME NEW S, NEW s \in Seq(S)
  PROVE  Range(s) = {s[k] : k \in 1 .. Len(s)}
BY LenProperties DEF Range

\* Two lists, one behind the other.
LEMMA ListsJoin ==
  ASSUME NEW G, NEW L, IsFiniteSet(G), IsFiniteSet(L), G \cap L = {}
  PROVE  /\ Lists(SetToSeq(G) \o SetToSeq(L), G, L)
         /\ Range(SetToSeq(G) \o SetToSeq(L)) = G \cup L
<1>1. PICK s : s = SetToSeq(G)
  OBVIOUS
<1>2. PICK t : t = SetToSeq(L)
  OBVIOUS
<1>3. s \in Seq(G) /\ IsInjective(s) /\ Range(s) = G
  BY <1>1, SetAsList
<1>4. t \in Seq(L) /\ IsInjective(t) /\ Range(t) = L
  BY <1>2, SetAsList
<1>5. s \in Seq(G \cup L) /\ t \in Seq(G \cup L)
  BY <1>3, <1>4, SeqMonotonic
<1>6. PICK r : r = s \o t
  OBVIOUS
<1>7. /\ r \in Seq(G \cup L) /\ Len(r) = Len(s) + Len(t) /\ Len(s) \in Nat /\ Len(t) \in Nat
      /\ \A k \in 1 .. Len(r) : r[k] = IF k <= Len(s) THEN s[k] ELSE t[k - Len(s)]
  BY <1>5, <1>6, ConcatProperties, LenProperties
<1>8. (\A k \in 1 .. Len(s) : s[k] \in G) /\ (\A k \in 1 .. Len(t) : t[k] \in L)
  BY <1>3, <1>4, ElementOfSeq
<1>9. ASSUME NEW k \in 1 .. Len(r)
      PROVE  \/ k \in 1 .. Len(s) /\ r[k] = s[k] /\ r[k] \in G /\ r[k] \notin L
             \/ /\ k > Len(s) /\ k - Len(s) \in 1 .. Len(t) /\ r[k] = t[k - Len(s)]
                /\ r[k] \in L /\ r[k] \notin G
  BY <1>7, <1>8
<1>10. /\ DOMAIN r = 1 .. Len(r) /\ DOMAIN s = 1 .. Len(s) /\ DOMAIN t = 1 .. Len(t)
  BY <1>5, <1>7, LenProperties
<1>11. IsInjective(r)
  <2>1. ASSUME NEW j \in 1 .. Len(r), NEW k \in 1 .. Len(r), r[j] = r[k]
        PROVE  j = k
    <3>1. CASE j \in 1 .. Len(s) /\ k \in 1 .. Len(s) /\ r[j] = s[j] /\ r[k] = s[k]
      BY <1>3, <1>10, <2>1, <3>1 DEF IsInjective
    <3>2. CASE /\ j - Len(s) \in 1 .. Len(t) /\ k - Len(s) \in 1 .. Len(t)
               /\ r[j] = t[j - Len(s)] /\ r[k] = t[k - Len(s)]
      <4>1. j - Len(s) = k - Len(s)
        BY <1>4, <1>10, <2>1, <3>2 DEF IsInjective
      <4> QED BY <1>7, <4>1
    <3> QED BY <1>9, <2>1, <3>1, <3>2
  <2> QED BY <1>10, <2>1 DEF IsInjective
<1>12. Range(r) = G \cup L
  <2>1. \A k \in 1 .. Len(s) : k \in 1 .. Len(r) /\ r[k] = s[k]
    BY <1>7
  <2>2. \A k \in 1 .. Len(t) : Len(s) + k \in 1 .. Len(r) /\ r[Len(s) + k] = t[k]
    BY <1>7
  <2>3. \A x \in G : \E k \in 1 .. Len(s) : s[k] = x
    BY <1>3, RangeOf
  <2>4. \A x \in L : \E k \in 1 .. Len(t) : t[k] = x
    BY <1>4, RangeOf
  <2>5. G \cup L \subseteq {r[k] : k \in 1 .. Len(r)}
    BY <2>1, <2>2, <2>3, <2>4
  <2>6. {r[k] : k \in 1 .. Len(r)} \subseteq G \cup L
    BY <1>9
  <2> QED BY <1>7, <2>5, <2>6, RangeOf
<1>13. \A j, k \in 1 .. Len(r) : j < k /\ r[j] \in L => r[k] \in L
  <2>1. ASSUME NEW j \in 1 .. Len(r), NEW k \in 1 .. Len(r), j < k, r[j] \in L
        PROVE  r[k] \in L
    <3>1. j > Len(s)
      BY <1>9, <2>1
    <3>2. k > Len(s)
      BY <1>7, <2>1, <3>1
    <3> QED BY <1>7, <1>9, <3>2
  <2> QED BY <2>1
<1> QED BY <1>1, <1>2, <1>6, <1>7, <1>11, <1>12, <1>13 DEF Lists

\* What is left of a list when its first operation is done.
LEMMA ListsTail ==
  ASSUME NEW G, NEW L, NEW s, G \cap L = {}, Lists(s, G, L), s # <<>>
  PROVE  /\ Head(s) \in G \cup L /\ Head(s) \in Range(s)
         /\ Range(Tail(s)) = Range(s) \ {Head(s)}
         /\ Head(s) \in G => L \subseteq Range(s)
         /\ Lists(Tail(s), G, L)
<1>1. s \in Seq(G \cup L)
  BY DEF Lists
<1>2. Len(s) \in Nat \ {0}
  BY <1>1, EmptySeq
<1>3. Head(s) = s[1] /\ s[1] \in G \cup L
  BY <1>1, <1>2, ElementOfSeq
<1>4. PICK t : t = Tail(s)
  OBVIOUS
<1>5. /\ t \in Seq(G \cup L) /\ Len(t) = Len(s) - 1
      /\ \A k \in 1 .. Len(t) : t[k] = s[k + 1]
  BY <1>1, <1>4, HeadTailProperties
<1>6. DOMAIN s = 1 .. Len(s) /\ DOMAIN t = 1 .. Len(t)
  BY <1>1, <1>5, LenProperties
<1>7. ASSUME NEW j \in 1 .. Len(s), NEW k \in 1 .. Len(s), s[j] = s[k]
      PROVE  j = k
  BY <1>6, <1>7 DEF Lists, IsInjective
<1>8. Range(s) = {s[k] : k \in 1 .. Len(s)} /\ Range(t) = {t[k] : k \in 1 .. Len(t)}
  BY <1>1, <1>5, RangeOf
<1>9. Head(s) \in Range(s)
  BY <1>2, <1>3, <1>8
<1>10. Range(t) = Range(s) \ {Head(s)}
  <2>1. ASSUME NEW k \in 1 .. Len(t)
        PROVE  t[k] \in Range(s) /\ t[k] # Head(s)
    <3>1. k + 1 \in 1 .. Len(s) /\ 1 \in 1 .. Len(s) /\ t[k] = s[k + 1]
      BY <1>2, <1>5
    <3>2. s[k + 1] # s[1]
      BY <1>7, <3>1
    <3> QED BY <1>3, <1>8, <3>1, <3>2
  <2>2. ASSUME NEW k \in 1 .. Len(s), s[k] # Head(s)
        PROVE  s[k] \in Range(t)
    <3>1. k # 1
      BY <1>3, <2>2
    <3>2. k - 1 \in 1 .. Len(t) /\ t[k - 1] = s[k]
      BY <1>2, <1>5, <3>1
    <3> QED BY <1>8, <3>2
  <2> QED BY <1>8, <2>1, <2>2
<1>11. Head(s) \in G => L \subseteq Range(s)
  BY <1>9 DEF Lists
<1>12. \A k \in 1 .. Len(t) : k + 1 \in 1 .. Len(s) /\ t[k] = s[k + 1]
  BY <1>2, <1>5
<1>13. \A j, k \in 1 .. Len(t) : t[j] = t[k] => j = k
  <2>1. ASSUME NEW j \in 1 .. Len(t), NEW k \in 1 .. Len(t), t[j] = t[k]
        PROVE  j = k
    <3>1. j + 1 = k + 1
      BY <1>7, <1>12, <2>1
    <3> QED BY <1>2, <1>5, <3>1
  <2> QED BY <2>1
<1>14. \A j, k \in 1 .. Len(t) : j < k /\ t[j] \in L => t[k] \in L
  <2>1. ASSUME NEW j \in 1 .. Len(t), NEW k \in 1 .. Len(t), j < k, t[j] \in L
        PROVE  t[k] \in L
    <3>1. j + 1 < k + 1
      BY <1>2, <1>5, <2>1
    <3> QED BY <1>12, <2>1, <3>1 DEF Lists
  <2> QED BY <2>1
<1>15. ASSUME Range(t) \cap G # {}
       PROVE  L \subseteq Range(t)
  <2>1. Head(s) \notin L
    <3>1. PICK k \in 1 .. Len(t) : t[k] \in G
      BY <1>8, <1>15
    <3>2. k + 1 \in 1 .. Len(s) /\ 1 \in 1 .. Len(s) /\ 1 < k + 1 /\ s[k + 1] \notin L
      BY <1>2, <1>5, <1>12, <3>1
    <3>3. s[1] \notin L
      BY <3>2 DEF Lists
    <3> QED BY <1>3, <3>3
  <2>2. L \subseteq Range(s)
    BY <1>10, <1>15 DEF Lists
  <2> QED BY <1>10, <2>1, <2>2
<1>16. Lists(t, G, L)
  BY <1>5, <1>6, <1>13, <1>14, <1>15 DEF Lists, IsInjective
<1> QED BY <1>3, <1>4, <1>9, <1>10, <1>11, <1>16

\* A list is empty if nothing is on it.
LEMMA NothingListed ==
  ASSUME NEW S, NEW s \in Seq(S)
  PROVE  s = <<>> <=> Range(s) = {}
<1>1. s # <<>> => s[1] \in Range(s)
  <2>1. s # <<>> => 1 \in 1 .. Len(s)
    BY EmptySeq
  <2> QED BY <2>1, RangeOf
<1>2. Range(<<>>) = {}
  BY DEF Range
<1> QED BY <1>1, <1>2

\* What the operations of Init are about.
LEMMA InitOps ==
  ASSUME scene \in Scenes, CfgOk, Stored
  PROVE  /\ \A x \in Globals : \E i \in Port :
              /\ x = Op("addGlobal", cfg[i]) /\ cfg[i] # None /\ cfg[i].ip \in Global
              /\ x.do = "addGlobal" /\ x.object = cfg[i] /\ cfg[i].intf = i
         /\ \A x \in Links : \E a \in scene.pool, i \in Port :
              /\ x = Op("addStored", StoredObject(a)) /\ llStored[a] = i /\ a \in LinkLocal
              /\ x.do = "addStored" /\ x.object.ip = a /\ x.object.intf = i
         /\ Globals \cap Links = {} /\ Globals \cup Links \subseteq InitOperation
         /\ IsFiniteSet(Globals) /\ IsFiniteSet(Links)
<1>1. ASSUME NEW x \in Globals
      PROVE  \E i \in Port :
              /\ x = Op("addGlobal", cfg[i]) /\ cfg[i] # None /\ cfg[i].ip \in Global
              /\ x.do = "addGlobal" /\ x.object = cfg[i] /\ cfg[i].intf = i
              /\ x \in InitOperation
  <2>1. PICK i \in Port : cfg[i] # None /\ cfg[i].ip # None /\ x = Op("addGlobal", cfg[i])
    BY DEF Globals
  <2>2. PICK o \in ObjectsOf(i) : o = cfg[i]
    BY <2>1 DEF CfgOk
  <2>3. o.ip \in Global /\ o.intf = i /\ o \in [intf : Port, ip : Addr, link : BOOLEAN, admin : Admin]
    BY <2>1, <2>2 DEF ObjectsOf, Object, Addr
  <2>4. x = Op("addGlobal", o) /\ x.do = "addGlobal" /\ x.object = o /\ x \in InitOperation
    BY <2>1, <2>2, <2>3 DEF Op, InitOperation
  <2> QED BY <2>1, <2>2, <2>3, <2>4
<1>2. ASSUME NEW x \in Links
      PROVE  \E a \in scene.pool, i \in Port :
              /\ x = Op("addStored", StoredObject(a)) /\ llStored[a] = i /\ a \in LinkLocal
              /\ x.do = "addStored" /\ x.object.ip = a /\ x.object.intf = i
              /\ x \in InitOperation
  <2>1. PICK a \in scene.pool : llStored[a] # None /\ x = Op("addStored", StoredObject(a))
    BY DEF Links
  <2>2. PICK i \in Port : i = llStored[a]
    BY <2>1 DEF Stored
  <2>3. a \in LinkLocal
    BY SceneFacts
  <2>4. StoredObject(a) = [intf |-> i, ip |-> a, link |-> TRUE, admin |-> "UP"]
    BY <2>2 DEF StoredObject
  <2>5. x.do = "addStored" /\ x.object.ip = a /\ x.object.intf = i /\ x \in InitOperation
    BY <2>1, <2>3, <2>4 DEF Op, InitOperation, Addr, Admin
  <2> QED BY <2>1, <2>2, <2>3, <2>5
<1>3. IsFiniteSet(Globals)
  <2>1. PICK P : P = {p \in Port : cfg[p] # None /\ cfg[p].ip # None}
    OBVIOUS
  <2>2. IsFiniteSet(P)
    BY <2>1, FiniteAssumption, FS_Subset
  <2>3. PICK f : f = [i \in P |-> Op("addGlobal", cfg[i])]
    OBVIOUS
  <2>4. f \in Surjection(P, Globals)
    BY <2>1, <2>3 DEF Globals, Surjection
  <2> QED BY <2>2, <2>4, FS_Surjection
<1>4. IsFiniteSet(Links)
  <2>1. PICK P : P = {b \in scene.pool : llStored[b] # None}
    OBVIOUS
  <2>2. IsFiniteSet(P)
    <3>1. P \subseteq LinkLocal
      BY <2>1, SceneFacts
    <3> QED BY <3>1, FiniteAssumption, FS_Subset
  <2>3. PICK f : f = [a \in P |-> Op("addStored", StoredObject(a))]
    OBVIOUS
  <2>4. f \in Surjection(P, Links)
    BY <2>1, <2>3 DEF Links, Surjection
  <2> QED BY <2>2, <2>4, FS_Surjection
<1>5. Globals \cap Links = {}
  BY <1>1, <1>2
<1> QED BY <1>1, <1>2, <1>3, <1>4, <1>5

\* Init has each operation on its list once.
LEMMA BootOpsList ==
  ASSUME scene \in Scenes, CfgOk, Stored
  PROVE  /\ Lists(BootOps, Globals, Links) /\ Range(BootOps) = Globals \cup Links
         /\ BootOps \in Seq(InitOperation)
<1>1. BootOps = SetToSeq(Globals) \o SetToSeq(Links)
  <2>1. {Op("addGlobal", o) : o \in {cfg[i] : i \in {p \in Port : cfg[p] # None /\ cfg[p].ip # None}}} = Globals
    BY DEF Globals
  <2>2. {Op("addStored", o) : o \in {StoredObject(a) : a \in {b \in scene.pool : llStored[b] # None}}} = Links
    BY DEF Links
  <2> QED BY <2>1, <2>2 DEF BootOps
<1>2. Lists(BootOps, Globals, Links) /\ Range(BootOps) = Globals \cup Links
  BY <1>1, InitOps, ListsJoin
<1>3. PICK s : s = BootOps
  OBVIOUS
<1>4. s \in Seq(Globals \cup Links)
  BY <1>2, <1>3 DEF Lists
<1>5. s \in Seq(InitOperation)
  BY <1>4, InitOps, SeqMonotonic
<1> QED BY <1>2, <1>3, <1>5

\* With everything done a port has what the database holds for it.
LEMMA AllDone ==
  ASSUME NEW i \in Port
  PROVE  scene \in Scenes /\ CfgOk /\ Stored /\ Booted(i, Globals \cup Links) => AsStored(i)
<1> SUFFICES ASSUME scene \in Scenes, CfgOk, Stored, Booted(i, Globals \cup Links)
             PROVE  AsStored(i)
  OBVIOUS
<1>1. PICK ops : ops = Globals \cup Links
  OBVIOUS
<1>2. AddrsOf(i) = OfOps(i, ops) /\ Counted(i)
  BY <1>1 DEF Booted, Counted
<1>3. PICK L : L = {a \in scene.pool : llStored[a] = i}
  OBVIOUS
<1>4. ASSUME NEW y \in OfOps(i, ops)
      PROVE  y \in GlobalOf(cfg[i]) \cup L
  <2>1. PICK x \in ops : x.object.intf = i /\ y = x.object.ip
    BY <1>4 DEF OfOps
  <2>2. CASE x \in Globals
    <3>1. PICK j \in Port : cfg[j] # None /\ cfg[j].ip \in Global /\ x.object = cfg[j] /\ cfg[j].intf = j
      BY <2>2, InitOps
    <3>2. j = i /\ y = cfg[i].ip /\ y # None
      BY <2>1, <3>1, AddrAssumption DEF Addr
    <3> QED BY <3>1, <3>2 DEF GlobalOf
  <2>3. CASE x \in Links
    <3>1. PICK a \in scene.pool, j \in Port : llStored[a] = j /\ x.object.ip = a /\ x.object.intf = j
      BY <2>3, InitOps
    <3> QED BY <1>3, <2>1, <3>1
  <2> QED BY <1>1, <2>1, <2>2, <2>3
<1>5. ASSUME NEW y \in GlobalOf(cfg[i])
      PROVE  y \in OfOps(i, ops)
  <2>1. cfg[i] # None /\ cfg[i].ip # None /\ y = cfg[i].ip
    BY <1>5 DEF GlobalOf
  <2>2. PICK o \in ObjectsOf(i) : o = cfg[i]
    BY <2>1 DEF CfgOk
  <2>3. PICK x \in Globals : x = Op("addGlobal", o)
    BY <2>1, <2>2 DEF Globals
  <2>4. x.object.intf = i /\ x.object.ip = y
    BY <2>1, <2>2, <2>3 DEF Op, ObjectsOf
  <2> QED BY <1>1, <2>4 DEF OfOps
<1>6. ASSUME NEW y \in L
      PROVE  y \in OfOps(i, ops)
  <2>1. y \in scene.pool /\ llStored[y] = i /\ i # None
    BY <1>3, <1>6, AddrAssumption
  <2>2. PICK x \in Links : x = Op("addStored", StoredObject(y))
    BY <2>1 DEF Links
  <2>3. x.object.intf = i /\ x.object.ip = y
    BY <2>1, <2>2 DEF Op, StoredObject
  <2> QED BY <1>1, <2>3 DEF OfOps
<1>7. AddrsOf(i) = GlobalOf(cfg[i]) \cup L
  BY <1>2, <1>4, <1>5, <1>6
<1>8. GlobalOf(cfg[i]) \subseteq Global /\ L \subseteq LinkLocal /\ Global \cap LinkLocal = {}
  <2>1. GlobalOf(cfg[i]) \subseteq Global
    BY DEF GlobalOf, CfgOk, ObjectsOf, Object
  <2> QED BY <1>3, <2>1, SceneFacts, AddrAssumption
<1>9. AddrsOf(i) \cap Global = GlobalOf(cfg[i]) /\ LinksOf(i) = L
  BY <1>7, <1>8 DEF LinksOf
<1> QED BY <1>2, <1>3, <1>9 DEF AsStored

\* A restart leaves the objects as they are, and all to do or nothing.
LEMMA RestartStep ==
  ASSUME scene \in Scenes, CfgOk, Stored, Restart, UNCHANGED scene
  PROVE  CfgOk' /\ Stored' /\ (Boot' \/ (call' = None /\ Globals \cup Links = {}))
<1>1. /\ UNCHANGED <<cfg, llStored, scene>> /\ ipv6DB' = {}
      /\ refCount' = [i \in Port |-> 0] /\ sysVlan' = {} /\ kAddr' = [i \in Port |-> {}]
      /\ call' = IF BootOps = <<>> THEN None
                 ELSE [req |-> "boot", intf |-> None, object |-> None, todo |-> BootOps, addr |-> None]
  BY DEF Restart
<1>2. CfgOk' /\ Stored'
  BY <1>1 DEF CfgOk, Stored
<1>3. Globals' = Globals /\ Links' = Links
  BY <1>1 DEF Globals, Links, StoredObject
<1>4. /\ Lists(BootOps, Globals, Links) /\ Range(BootOps) = Globals \cup Links
      /\ BootOps \in Seq(InitOperation)
  BY BootOpsList
<1>5. PICK s \in Seq(InitOperation) : s = BootOps
  BY <1>4
<1>6. CASE s = <<>>
  BY <1>1, <1>2, <1>4, <1>5, <1>6, NothingListed
<1>7. CASE s # <<>>
  <2>1. call' = [req |-> "boot", intf |-> None, object |-> None, todo |-> s, addr |-> None]
    BY <1>1, <1>5, <1>7
  <2>2. call' \in InitCalls /\ call'.todo = s /\ call'.addr = None
    BY <2>1 DEF InitCalls
  <2>3. call' # None
    BY <2>2, NoneAssumption DEF InitCalls
  <2>4. DoneOps' = {}
    BY <1>3, <1>4, <1>5, <2>2 DEF DoneOps
  <2>5. Lists(call.todo, Globals, Links)'
    BY <1>3, <1>4, <1>5, <2>2
  <2>6. Tables' /\ Founded(DoneOps)'
    <3>1. Tables'
      BY <1>1 DEF Tables
    <3>2. Founded(DoneOps)'
      BY <1>1 DEF Founded
    <3> QED BY <3>1, <3>2
  <2>7. ASSUME NEW i \in Port
        PROVE  Booted(i, DoneOps)'
    <3>1. AddrsOf(i)' = {} /\ OfOps(i, {}) = {}
      BY <1>1 DEF AddrsOf, OfOps
    <3>2. IsFiniteSet({}) /\ Cardinality({}) = 0
      BY FS_EmptySet
    <3>3. Booted(i, {})'
      BY <1>1, <3>1, <3>2 DEF Booted
    <3> QED BY <2>4, <3>3
  <2> QED BY <1>2, <1>7, <2>2, <2>3, <2>5, <2>6, <2>7 DEF Boot
<1> QED BY <1>6, <1>7

\* What Init does next.
LEMMA BootHead ==
  ASSUME scene \in Scenes, CfgOk, Stored, Boot
  PROVE  /\ Head(call.todo) \in Globals \cup Links /\ Current.intf \in Port /\ Current.ip \in Addr
         /\ Head(call.todo).do \in {"addGlobal", "addStored"} /\ call.req = "boot"
         /\ Range(Tail(call.todo)) = Range(call.todo) \ {Head(call.todo)}
         /\ Head(call.todo) \in Range(call.todo)
         /\ Head(call.todo) \in Globals => Links \subseteq Range(call.todo)
         /\ Lists(Tail(call.todo), Globals, Links)
         /\ call.todo \in Seq(InitOperation)
<1>1. /\ Head(call.todo) \in Globals \cup Links
      /\ Range(Tail(call.todo)) = Range(call.todo) \ {Head(call.todo)}
      /\ Head(call.todo) \in Range(call.todo)
      /\ Head(call.todo) \in Globals => Links \subseteq Range(call.todo)
      /\ Lists(Tail(call.todo), Globals, Links)
  <2>1. PICK s, G, L : s = call.todo /\ G = Globals /\ L = Links
    OBVIOUS
  <2>2. G \cap L = {} /\ Lists(s, G, L) /\ s # <<>>
    BY <2>1, InitOps DEF Boot
  <2>3. /\ Head(s) \in G \cup L /\ Head(s) \in Range(s)
        /\ Range(Tail(s)) = Range(s) \ {Head(s)}
        /\ Head(s) \in G => L \subseteq Range(s)
        /\ Lists(Tail(s), G, L)
    BY <2>2, ListsTail
  <2> QED BY <2>1, <2>3
<1>2. Head(call.todo) \in InitOperation
  BY <1>1, InitOps
<1>3. call.req = "boot" /\ call.todo \in Seq(InitOperation)
  BY DEF Boot, InitCalls
<1> QED BY <1>1, <1>2, <1>3 DEF InitOperation, Current

\* Nobody has the address, and its port no other of its kind.
LEMMA BootVerifies ==
  ASSUME scene \in Scenes, CfgOk, Stored, Boot, NEW i, i = Current.intf, NEW a, a = Current.ip, Fit(i)
  PROVE  VerifyIPConfig(a, i) /\ a # AutoAddr[i]
<1>1. /\ Head(call.todo) \in Globals \cup Links /\ i \in Port
      /\ Head(call.todo) \in Range(call.todo)
      /\ Head(call.todo) \in Globals => Links \subseteq Range(call.todo)
      /\ Current = Head(call.todo).object
  BY BootHead DEF Current
<1>2. AutoAddr[i] \in LinkLocal /\ AutoAddr[i] \notin scene.pool /\ Global \cap LinkLocal = {}
  BY <1>1, AutoAssumption, AddrAssumption DEF Fit
<1>3. CASE Head(call.todo) \in Globals
  <2>1. /\ Head(call.todo) = Op("addGlobal", cfg[i]) /\ cfg[i] # None /\ a = cfg[i].ip /\ a \in Global
    BY <1>1, <1>3, InitOps
  <2>2. ASSUME NEW e \in ipv6DB
        PROVE  e.addr # a /\ e.intf # i
    <3>1. PICK x \in DoneOps : x.object.intf = e.intf /\ x.object.ip = e.addr
      BY DEF Boot, Founded
    <3>2. x \in Globals /\ x # Head(call.todo)
      BY <1>1, <1>3, <3>1 DEF DoneOps
    <3>3. PICK j \in Port :
            /\ x = Op("addGlobal", cfg[j]) /\ cfg[j] # None /\ cfg[j].ip \in Global
            /\ x.object = cfg[j] /\ cfg[j].intf = j
      BY <3>2, InitOps
    <3>4. j # i /\ e.intf = j /\ e.addr = cfg[j].ip
      BY <2>1, <3>1, <3>2, <3>3
    <3>5. GlobalOf(cfg[i]) \cap GlobalOf(cfg[j]) = {}
      BY <3>4 DEF Fit, Unshared
    <3>6. None \notin Global
      BY AddrAssumption DEF Addr
    <3>7. a \in GlobalOf(cfg[i]) /\ e.addr \in GlobalOf(cfg[j])
      BY <2>1, <3>3, <3>4, <3>6 DEF GlobalOf
    <3> QED BY <3>4, <3>5, <3>7
  <2> QED BY <1>2, <2>1, <2>2 DEF VerifyIPConfig
<1>4. CASE Head(call.todo) \in Links
  <2>1. Head(call.todo) = Op("addStored", StoredObject(a)) /\ a \in LinkLocal /\ a \in scene.pool
    BY <1>1, <1>4, InitOps
  <2>2. ASSUME NEW e \in ipv6DB
        PROVE  e.addr # a
    <3>1. PICK x \in DoneOps : x.object.intf = e.intf /\ x.object.ip = e.addr
      BY DEF Boot, Founded
    <3>2. x # Head(call.todo) /\ x \in Globals \cup Links
      BY <1>1, <3>1 DEF DoneOps
    <3>3. CASE x \in Globals
      <4>1. x.object.ip \in Global
        BY <3>3, InitOps
      <4> QED BY <1>2, <2>1, <3>1, <4>1
    <3>4. CASE x \in Links
      <4>1. x = Op("addStored", StoredObject(e.addr))
        BY <3>1, <3>4, InitOps
      <4> QED BY <2>1, <3>2, <4>1
    <3> QED BY <3>2, <3>3, <3>4
  <2> QED BY <1>2, <2>1, <2>2 DEF VerifyIPConfig
<1> QED BY <1>1, <1>3, <1>4

\* Another operation is done, and Init goes on to the next one or is through.
LEMMA BootGoesOn ==
  ASSUME scene \in Scenes, CfgOk, Stored, Boot, UNCHANGED <<scene, llStored>>,
         NEW ok, NEW clean, Proceed(ok, clean), Tables',
         NEW ops, ops = DoneOps \cup {Head(call.todo)}, Founded(ops)',
         \A i \in Port : Fit(i) => Booted(i, ops)'
  PROVE  CfgOk' /\ Stored' /\ (Boot' \/ (call' = None /\ EachAsStored'))
<1>1. call.req = "boot" /\ cfg' = cfg
  BY BootHead DEF Proceed
<1>2. CfgOk' /\ Stored'
  BY <1>1 DEF CfgOk, Stored
<1>3. Globals' = Globals /\ Links' = Links /\ \A i : Fit(i)' <=> Fit(i)
  BY <1>1 DEF Globals, Links, StoredObject, Fit, Unshared
<1>4. PICK s : s = Tail(call.todo)
  OBVIOUS
<1>5. /\ Lists(s, Globals, Links) /\ s \in Seq(InitOperation)
      /\ ops = (Globals \cup Links) \ Range(s)
  <2>1. s \in Seq(InitOperation)
    BY <1>4, BootHead, HeadTailProperties DEF Boot
  <2>2. Range(s) = Range(call.todo) \ {Head(call.todo)} /\ Head(call.todo) \in Globals \cup Links
        /\ Lists(s, Globals, Links)
    BY <1>4, BootHead
  <2> QED BY <2>1, <2>2 DEF DoneOps
<1>6. ~Ends(Head(call.todo).do) /\ ~Undone(Head(call.todo).do)
  BY <1>1 DEF Ends, Undone
<1>7. CASE s # <<>>
  <2>1. call' = [call EXCEPT !.todo = s, !.addr = None]
    BY <1>4, <1>6, <1>7, Zenon DEF Proceed
  <2>2. call' \in InitCalls /\ call'.todo = s /\ call'.addr = None
    BY <1>5, <2>1 DEF Boot, InitCalls
  <2>3. call' # None
    BY <2>2, NoneAssumption DEF InitCalls
  <2>4. DoneOps' = ops
    BY <1>3, <1>5, <2>2 DEF DoneOps
  <2>5. Lists(call.todo, Globals, Links)' /\ Founded(DoneOps)'
    BY <1>3, <1>5, <2>2, <2>4
  <2>6. ASSUME NEW i \in Port, Fit(i)
        PROVE  Booted(i, DoneOps)'
    BY <2>4, <2>6
  <2> QED BY <1>2, <1>3, <1>7, <2>2, <2>3, <2>5, <2>6 DEF Boot
<1>8. CASE s = <<>>
  <2>1. call' = None
    <3>1. \E success : Reply(success)
      BY <1>4, <1>6, <1>8, Zenon DEF Proceed
    <3> QED BY <1>1, <3>1 DEF Reply
  <2>2. ops = (Globals \cup Links)'
    <3>1. Range(s) = {}
      BY <1>8 DEF Range
    <3> QED BY <1>3, <1>5, <3>1
  <2>3. ASSUME NEW i \in Port, Fit(i)
        PROVE  AsStored(i)'
    <3>1. Booted(i, Globals \cup Links)'
      BY <2>2, <2>3
    <3>2. (scene \in Scenes)'
      OBVIOUS
    <3> QED BY <1>2, <3>1, <3>2, AllDone, PTL
  <2>4. EachAsStored'
    BY <1>3, <2>3 DEF EachAsStored, Fit
  <2> QED BY <1>2, <2>1, <2>4
<1> QED BY <1>7, <1>8

\* An operation of another port adds nothing to this one.
LEMMA OpsOfOther ==
  ASSUME NEW i, NEW ops, NEW x
  PROVE  OfOps(i, ops \cup {x}) = IF x.object.intf = i THEN OfOps(i, ops) \cup {x.object.ip}
                                  ELSE OfOps(i, ops)
BY DEF OfOps

\* A port of which nothing changes.
LEMMA BootedStays ==
  ASSUME NEW i, NEW ops, Booted(i, ops), Same(i), kAddr'[i] = kAddr[i]
  PROVE  Booted(i, ops)'
BY DEF Booted, Same

\* What Init's CreateIPIntf does to the tables.
LEMMA BootCreateIs ==
  ASSUME Boot, NEW i \in Port, i = Current.intf, NEW a \in Addr, CreateIPIntf(a)
  PROVE  /\ UNCHANGED <<ipv6DB, llStored>> /\ Tables'
         /\ \A j \in Port \ {i} : Same(j) /\ kAddr'[j] = kAddr[j]
         /\ refCount'[i] = refCount[i]
         /\ \/ ToBeStored(a) /\ i \in sysVlan' /\ kAddr'[i] \subseteq kAddr[i] \cup {AutoAddr[i], a}
            \/ /\ Proceed(FALSE, First) \/ Proceed(FALSE, FALSE)
               /\ ~VerifyIPConfig(a, i) \/ a \in kAddr[i] \cup {AutoAddr[i]}
<1>1. /\ ipv6DB' = ipv6DB /\ llStored' = llStored /\ refCount' = refCount
      /\ refCount \in [Port -> Int] /\ kAddr \in [Port -> SUBSET Addr] /\ AutoAddr[i] \in Addr
  BY AutoAssumption DEF CreateIPIntf, Boot, Tables, Addr
<1>2. ASSUME kAddr' = kAddr, sysVlan' = sysVlan \cup {i} \/ sysVlan' = sysVlan
      PROVE  Tables' /\ \A j \in Port \ {i} : Same(j) /\ kAddr'[j] = kAddr[j]
  BY <1>1, <1>2, AddrsSame DEF Tables, Same
<1>3. CASE ~VerifyIPConfig(a, i) /\ Refused(a, i, First) /\ UNCHANGED <<sysVlan, kV6, kAddr>>
  BY <1>1, <1>2, <1>3 DEF Refused
<1>4. CASE ToBeStored(a) /\ sysVlan' = sysVlan \cup {i} /\ UNCHANGED <<kV6, kAddr>>
  BY <1>1, <1>2, <1>4
<1>5. ASSUME NEW there \in Cleared(i, a), kAddr' = [kAddr EXCEPT ![i] = there \cup {a}],
             sysVlan' = sysVlan \cup {i},
             (a \in there /\ Refused(a, i, FALSE)) \/ (a \notin there /\ ToBeStored(a))
      PROVE  /\ Tables' /\ \A j \in Port \ {i} : Same(j) /\ kAddr'[j] = kAddr[j]
             /\ \/ ToBeStored(a) /\ i \in sysVlan' /\ kAddr'[i] \subseteq kAddr[i] \cup {AutoAddr[i], a}
                \/ Proceed(FALSE, FALSE) /\ a \in kAddr[i] \cup {AutoAddr[i]}
  <2>1. there \subseteq kAddr[i] \cup {AutoAddr[i]}
    BY <1>5 DEF Cleared, Enabled
  <2>2. kAddr'[i] \subseteq kAddr[i] \cup {AutoAddr[i], a} /\ kAddr' \in [Port -> SUBSET Addr]
    BY <1>1, <1>5, <2>1
  <2>3. Tables' /\ \A j \in Port \ {i} : Same(j) /\ kAddr'[j] = kAddr[j]
    BY <1>1, <1>5, <2>2, AddrsSame DEF Tables, Same
  <2> QED BY <1>5, <2>1, <2>2, <2>3 DEF Refused
<1> QED BY <1>1, <1>3, <1>4, <1>5 DEF CreateIPIntf

\* Init gives the address to the link, or passes an address over that the
\* port's object does not fit.
LEMMA BootCreate ==
  ASSUME scene \in Scenes, CfgOk, Stored, Boot, UNCHANGED scene, AddGlobal \/ AddStored
  PROVE  CfgOk' /\ Stored' /\ (Boot' \/ (call' = None /\ EachAsStored'))
<1>1. call.addr = None /\ CreateIPIntf(Current.ip)
  BY DEF AddGlobal, AddStored, Doing
<1>2. PICK i \in Port, a \in Addr : i = Current.intf /\ a = Current.ip
  BY BootHead
<1>3. /\ UNCHANGED <<ipv6DB, llStored>> /\ Tables'
      /\ \A j \in Port \ {i} : Same(j) /\ kAddr'[j] = kAddr[j]
      /\ refCount'[i] = refCount[i]
      /\ \/ ToBeStored(a) /\ i \in sysVlan' /\ kAddr'[i] \subseteq kAddr[i] \cup {AutoAddr[i], a}
         \/ /\ Proceed(FALSE, First) \/ Proceed(FALSE, FALSE)
            /\ ~VerifyIPConfig(a, i) \/ a \in kAddr[i] \cup {AutoAddr[i]}
  BY <1>1, <1>2, BootCreateIs
<1>4. PICK D : D = DoneOps
  OBVIOUS
<1>5. \A j \in Port : Fit(j) => Booted(j, D)
  BY <1>1, <1>4 DEF Boot
<1>6. CASE ToBeStored(a) /\ i \in sysVlan' /\ kAddr'[i] \subseteq kAddr[i] \cup {AutoAddr[i], a}
  <2>1. call' = [call EXCEPT !.addr = a] /\ cfg' = cfg
    BY <1>6 DEF ToBeStored
  <2>2. call' \in InitCalls /\ call'.addr = a /\ call'.todo = call.todo
    BY <2>1 DEF Boot, InitCalls
  <2>3. call' # None /\ Current' = Current
    BY <2>2, NoneAssumption DEF InitCalls, Current
  <2>4. CfgOk' /\ Stored' /\ Globals' = Globals /\ Links' = Links /\ \A j : Fit(j)' <=> Fit(j)
    BY <1>3, <2>1 DEF CfgOk, Stored, Globals, Links, StoredObject, Fit, Unshared
  <2>5. DoneOps' = D
    BY <1>4, <2>2, <2>4 DEF DoneOps
  <2>6. Lists(call.todo, Globals, Links)' /\ Founded(DoneOps)' /\ call'.todo # <<>>
    <3>1. Founded(D) /\ Lists(call.todo, Globals, Links) /\ call.todo # <<>>
      BY <1>4 DEF Boot
    <3>2. Founded(D)'
      BY <1>3, <3>1 DEF Founded
    <3> QED BY <2>2, <2>4, <2>5, <3>1, <3>2
  <2>7. ASSUME NEW j \in Port, Fit(j)
        PROVE  IF j = i THEN Booting(j, D, a)' ELSE Booted(j, D)'
    <3>1. Booted(j, D)
      BY <1>5, <2>7
    <3>2. CASE j = i
      <4>1. AddrsOf(i)' = AddrsOf(i)
        BY <1>3, AddrsSame
      <4>2. Booting(i, D, a)'
        BY <1>3, <1>6, <3>1, <3>2, <4>1 DEF Booted, Booting
      <4> QED BY <3>2, <4>2
    <3>3. CASE j # i
      BY <1>3, <3>1, <3>3, BootedStays
    <3> QED BY <3>2, <3>3
  <2>8. a # None
    BY NotNone
  <2>9. ASSUME NEW j \in Port, Fit(j)'
        PROVE  IF call'.addr # None /\ Current'.intf = j THEN Booting(j, DoneOps, call.addr)'
               ELSE Booted(j, DoneOps)'
    <3>1. IF j = i THEN Booting(j, D, a)' ELSE Booted(j, D)'
      BY <2>4, <2>7, <2>9
    <3>2. Booting(j, D, a)' => Booting(j, DoneOps, call.addr)'
      BY <2>2, <2>5
    <3>3. Booted(j, D)' => Booted(j, DoneOps)'
      BY <2>5
    <3> QED BY <1>2, <2>2, <2>3, <2>8, <3>1, <3>2, <3>3
  <2>10. call'.addr \in {None, Current'.ip}
    BY <1>2, <2>2, <2>3
  <2> QED BY <1>3, <2>2, <2>3, <2>4, <2>6, <2>9, <2>10 DEF Boot
<1>7. CASE /\ Proceed(FALSE, First) \/ Proceed(FALSE, FALSE)
           /\ ~VerifyIPConfig(a, i) \/ a \in kAddr[i] \cup {AutoAddr[i]}
  <2>1. ~Fit(i)
    <3>1. SUFFICES ASSUME Fit(i)
                   PROVE  FALSE
      OBVIOUS
    <3>2. VerifyIPConfig(a, i) /\ a # AutoAddr[i]
      BY <1>2, <3>1, BootVerifies
    <3>3. a \notin AddrsOf(i)
      BY <3>2 DEF VerifyIPConfig, AddrsOf
    <3>4. kAddr[i] \subseteq AddrsOf(i) \cup {AutoAddr[i]}
      BY <1>5, <3>1 DEF Booted
    <3> QED BY <1>7, <3>2, <3>3, <3>4
  <2>2. PICK ops : ops = D \cup {Head(call.todo)}
    OBVIOUS
  <2>3. Founded(ops)'
    <3>1. Founded(D)
      BY <1>4 DEF Boot
    <3> QED BY <1>3, <2>2, <3>1 DEF Founded
  <2>4. ASSUME NEW j \in Port, Fit(j)
        PROVE  Booted(j, ops)'
    <3>1. j # i /\ Booted(j, D)
      BY <1>5, <2>1, <2>4
    <3>2. Head(call.todo).object.intf # j
      BY <1>2, <3>1 DEF Current
    <3>3. OfOps(j, ops) = OfOps(j, D)
      BY <2>2, <3>2, OpsOfOther
    <3>4. Booted(j, ops)
      BY <3>1, <3>3 DEF Booted
    <3> QED BY <1>3, <3>1, <3>4, BootedStays
  <2> QED BY <1>3, <1>4, <1>7, <2>2, <2>3, <2>4, BootGoesOn
<1> QED BY <1>3, <1>6, <1>7

\* The address is stored, and Init goes on.
LEMMA BootStore ==
  ASSUME scene \in Scenes, CfgOk, Stored, Boot, UNCHANGED scene, StoreAddress
  PROVE  CfgOk' /\ Stored' /\ (Boot' \/ (call' = None /\ EachAsStored'))
<1>1. PICK i \in Port, a \in Addr : i = Current.intf /\ a = Current.ip
  BY BootHead
<1>2. call.addr = a /\ a # None /\ Head(call.todo).do # "addLink"
  BY <1>1, BootHead DEF StoreAddress, Boot
<1>3. /\ refCount' = [refCount EXCEPT ![i] = @ + 1] /\ UNCHANGED <<llStored, sysVlan, kAddr>>
      /\ Proceed(TRUE, TRUE)
  BY <1>1, <1>2 DEF StoreAddress
<1>4. PICK e : e.addr = a /\ e.intf = i /\ ipv6DB' = ipv6DB \cup {e}
  <2>1. ipv6DB' = ipv6DB \cup {[addr |-> a, intf |-> i, admin |-> AdminOf(a)]}
    BY <1>1, <1>2 DEF StoreAddress
  <2> QED BY <2>1
<1>5. refCount \in [Port -> Int] /\ kAddr \in [Port -> SUBSET Addr]
  BY DEF Boot, Tables
<1>6. Tables'
  BY <1>3, <1>5 DEF Tables
<1>7. PICK D, ops : D = DoneOps /\ ops = D \cup {Head(call.todo)}
  OBVIOUS
<1>8. Head(call.todo).object.intf = i /\ Head(call.todo).object.ip = a
  BY <1>1 DEF Current
<1>9. Founded(ops)'
  <2>1. Founded(D)
    BY <1>7 DEF Boot
  <2>2. ASSUME NEW f \in ipv6DB'
        PROVE  \E x \in ops : x.object.intf = f.intf /\ x.object.ip = f.addr
    <3>1. CASE f = e
      BY <1>4, <1>7, <1>8, <3>1
    <3>2. CASE f \in ipv6DB
      BY <1>7, <2>1, <3>2 DEF Founded
    <3> QED BY <1>4, <2>2, <3>1, <3>2
  <2> QED BY <2>2 DEF Founded
<1>10. ASSUME NEW j \in Port, Fit(j)
       PROVE  Booted(j, ops)'
  <2>1. CASE j = i
    <3>1. Booting(i, D, a)
      BY <1>1, <1>2, <1>7, <1>10, <2>1 DEF Boot
    <3>2. a \notin AddrsOf(i)
      <4>1. VerifyIPConfig(a, i)
        BY <1>1, <1>10, <2>1, BootVerifies
      <4> QED BY <4>1 DEF VerifyIPConfig, AddrsOf
    <3>3. AddrsOf(i)' = AddrsOf(i) \cup {a}
      BY <1>4, AddrsAdd
    <3>4. OfOps(i, ops) = OfOps(i, D) \cup {a}
      BY <1>7, <1>8, OpsOfOther
    <3>5. PICK A : A = AddrsOf(i)
      OBVIOUS
    <3>6. IsFiniteSet(A) /\ refCount[i] = Cardinality(A) /\ a \notin A
      BY <3>1, <3>2, <3>5 DEF Booting
    <3>7. IsFiniteSet(A \cup {a}) /\ Cardinality(A \cup {a}) = Cardinality(A) + 1
      BY <3>6, FS_AddElement
    <3>8. refCount'[i] = Cardinality(A \cup {a})
      BY <1>3, <1>5, <3>6, <3>7
    <3>9. AddrsOf(i)' = A \cup {a} /\ A = OfOps(i, D) /\ i \in sysVlan'
          /\ kAddr'[i] \subseteq A \cup {AutoAddr[i], a}
      BY <1>3, <3>1, <3>3, <3>5 DEF Booting
    <3>10. Booted(i, ops)'
      BY <3>4, <3>7, <3>8, <3>9 DEF Booted
    <3> QED BY <2>1, <3>10
  <2>2. CASE j # i
    <3>1. Booted(j, D)
      BY <1>1, <1>7, <1>10, <2>2 DEF Boot
    <3>2. OfOps(j, ops) = OfOps(j, D)
      BY <1>7, <1>8, <2>2, OpsOfOther
    <3>3. Booted(j, ops)
      BY <3>1, <3>2 DEF Booted
    <3>4. AddrsOf(j)' = AddrsOf(j)
      BY <1>4, <2>2, AddrsAdd
    <3>5. Same(j) /\ kAddr'[j] = kAddr[j]
      BY <1>3, <1>5, <2>2, <3>4 DEF Same
    <3> QED BY <3>3, <3>5, BootedStays
  <2> QED BY <2>1, <2>2
<1> QED BY <1>3, <1>6, <1>7, <1>9, <1>10, BootGoesOn

\* While Init runs nothing happens but what it does, and crashes.
LEMMA BootStep ==
  ASSUME scene \in Scenes, CfgOk, Stored, Boot, Next
  PROVE  CfgOk' /\ Stored' /\ (Boot' \/ (call' = None /\ EachAsStored'))
<1>1. UNCHANGED scene /\ call # None /\ call.todo # <<>> /\ call.req = "boot"
      /\ Head(call.todo).do \in {"addGlobal", "addStored"}
  BY BootHead DEF Next, Boot
<1>2. AddGlobal \/ AddStored \/ StoreAddress \/ Restart
  BY <1>1 DEF Next, CreateIPv6Intf, UpdateIPv6Intf, DeleteIPv6Intf, Start, AddLink, DeleteGlobal,
              DeleteLink, SetGlobal, SetLink, StoreObject, Doing, AdminPort, Serving
<1>3. CASE Restart
  <2>1. Globals \cup Links # {}
    BY BootHead
  <2> QED BY <1>1, <1>3, <2>1, RestartStep
<1> QED BY <1>1, <1>2, <1>3, BootCreate, BootStore

\* What a call stores is an address of the pool, for a port.
LEMMA NextKeepsCall ==
  ASSUME scene \in Scenes, CfgOk, Stored, CallInv, Next, ~Restart
  PROVE  CfgOk' /\ Stored' /\ CallInv'
<1>0. UNCHANGED scene
  BY DEF Next
<1>1. CASE CreateIPv6Intf \/ UpdateIPv6Intf \/ DeleteIPv6Intf
  BY <1>0, <1>1, CallBegins DEF Stored
<1>2. CASE AddGlobal \/ AddLink
  <2>1. CASE Proceed(FALSE, First) /\ UNCHANGED <<ipv6DB, linkLocal, llStored>>
    BY <1>0, <1>2, <2>1, AddFacts, ProceedStep DEF Stored
  <2> QED BY <1>0, <1>2, <2>1, AddFacts, CreateKeepsCall DEF Stored
<1>3. CASE AddStored
  BY <1>3, CurrentFacts DEF AddStored, Doing
<1>4. CASE StoreAddress
  <2>1. call # None /\ call.addr # None /\ call.todo # <<>> /\ Proceed(TRUE, TRUE)
    BY <1>4 DEF StoreAddress, CallInv
  <2>2. PICK i \in Port : i = Current.intf
    BY <2>1, CurrentFacts
  <2>3. PICK a : a = call.addr
    OBVIOUS
  <2>4. \/ llStored' = llStored
        \/ a \in scene.pool /\ llStored' = [llStored EXCEPT ![a] = i]
    BY <1>4, <2>1, <2>2, <2>3 DEF StoreAddress, CallInv
  <2>5. Stored'
    BY <1>0, <2>4 DEF Stored
  <2> QED BY <1>0, <2>1, <2>5, ProceedStep
<1>5. CASE DeleteGlobal \/ DeleteLink
  <2>1. call # None /\ call.todo # <<>> /\ call.addr = None
    BY <1>5 DEF DeleteGlobal, DeleteLink, Doing
  <2>2. \E ok \in BOOLEAN : \E clean : Proceed(ok, clean)
    BY <1>5 DEF DeleteGlobal, DeleteLink, Untouched
  <2>3. \/ llStored' = llStored
        \/ \E a \in scene.pool : llStored' = [llStored EXCEPT ![a] = None]
    BY <1>5 DEF DeleteGlobal, DeleteLink, Untouched, mgrVars, LinkLocalsOf
  <2>4. Stored'
    BY <1>0, <2>3 DEF Stored
  <2> QED BY <1>0, <2>1, <2>2, <2>4, ProceedStep
<1>6. CASE SetGlobal \/ SetLink
  <2>1. call # None /\ call.todo # <<>> /\ call.addr = None
    BY <1>6 DEF SetGlobal, SetLink, Doing
  <2>2. (\E ok \in BOOLEAN : \E clean : Proceed(ok, clean)) /\ llStored' = llStored
    BY <1>6 DEF SetGlobal, SetLink, SetAdmin, Untouched, mgrVars
  <2>3. Stored'
    BY <1>0, <2>2 DEF Stored
  <2> QED BY <1>0, <2>1, <2>2, <2>3, ProceedStep
<1>7. CASE StoreObject
  <2>1. /\ call # None /\ UNCHANGED <<linkLocal, llStored>>
        /\ call' = None /\ cfg' = [cfg EXCEPT ![call.intf] = call.object]
    BY <1>7 DEF StoreObject, mgrVars
  <2>2. call.intf \in Port /\ call.object \in ObjectsOf(call.intf) \cup {None}
        /\ call.object \in Object \cup {None}
    BY <2>1 DEF CallInv, Calls
  <2> QED BY <1>0, <2>1, <2>2 DEF CallInv, CfgOk, Stored
<1>8. CASE \E i \in Port, state \in Admin : AdminPort(i, state)
  <2>1. UNCHANGED <<linkLocal, llStored, cfg, call>>
    BY <1>8 DEF AdminPort, mgrVars
  <2> QED BY <1>0, <2>1 DEF CallInv, CfgOk, Stored
<1> QED BY <1>1, <1>2, <1>3, <1>4, <1>5, <1>6, <1>7, <1>8 DEF Next

\* No call, no object and no address at the start.
LEMMA RestoreInit ==
  ASSUME Init
  PROVE  RestoreInv
<1>1. scene \in Scenes /\ call = None /\ cfg = [i \in Port |-> None]
      /\ llStored = [a \in scene.pool |-> None]
  BY DEF Init
<1> QED BY <1>1 DEF RestoreInv, CallInv, CfgOk, Stored

\* The invariant is kept, and Init ends with everything restored.
LEMMA RestoreNext ==
  ASSUME RestoreInv, [Next]_vars
  PROVE  RestoreInv' /\ (call # None /\ call.req = "boot" /\ call' = None /\ Next => EachAsStored')
<1>1. CASE UNCHANGED vars
  <2>1. UNCHANGED <<cfg, llStored, linkLocal, call, scene, ipv6DB, refCount, sysVlan, kAddr>>
    BY <1>1 DEF vars, mgrVars, linuxVars
  <2>2. CfgOk' /\ Stored' /\ (CallInv => CallInv')
    BY <2>1 DEF RestoreInv, CfgOk, Stored, CallInv
  <2>3. Boot => Boot'
    <3>1. /\ Globals' = Globals /\ Links' = Links /\ DoneOps' = DoneOps /\ Current' = Current
          /\ (\A i : Fit(i)' <=> Fit(i)) /\ (\A i : AddrsOf(i)' = AddrsOf(i))
      BY <2>1 DEF Globals, Links, StoredObject, DoneOps, Current, Fit, Unshared, AddrsOf
    <3>2. PICK D, a : D = DoneOps /\ a = call.addr
      OBVIOUS
    <3>5. (Tables => Tables') /\ (Founded(DoneOps) => Founded(DoneOps)')
      BY <2>1, <3>1 DEF Tables, Founded
    <3> SUFFICES ASSUME Boot
                 PROVE  Boot'
      OBVIOUS
    <3>6. ASSUME NEW i \in Port, Fit(i)'
          PROVE  IF call'.addr # None /\ Current'.intf = i THEN Booting(i, DoneOps, call.addr)'
                 ELSE Booted(i, DoneOps)'
      <4>1. IF call.addr # None /\ Current.intf = i THEN Booting(i, DoneOps, call.addr)
            ELSE Booted(i, DoneOps)
        BY <3>1, <3>6 DEF Boot
      <4>2. (Booted(i, D) => Booted(i, D)') /\ (Booting(i, D, a) => Booting(i, D, a)')
        BY <2>1, <3>1 DEF Booted, Booting
      <4>3. DoneOps' = D /\ call'.addr = a /\ Current'.intf = Current.intf
        BY <2>1, <3>1, <3>2
      <4>4. CASE call.addr # None /\ Current.intf = i
        <5>1. Booting(i, D, a)'
          BY <3>2, <4>1, <4>2, <4>4
        <5>2. Booting(i, DoneOps, call.addr)'
          BY <4>3, <5>1
        <5> QED BY <3>2, <4>3, <4>4, <5>2
      <4>5. CASE ~(call.addr # None /\ Current.intf = i)
        <5>1. Booted(i, D)'
          BY <3>2, <4>1, <4>2, <4>5
        <5>2. Booted(i, DoneOps)'
          BY <4>3, <5>1
        <5> QED BY <3>2, <4>3, <4>5, <5>2
      <4> QED BY <4>4, <4>5
    <3>7. Lists(call.todo, Globals, Links)'
      <4>1. PICK s, G, L : s = call.todo /\ G = Globals /\ L = Links /\ Lists(s, G, L)
        BY DEF Boot
      <4>2. call'.todo = s /\ Globals' = G /\ Links' = L
        BY <2>1, <3>1, <4>1
      <4> QED BY <4>1, <4>2
    <3>8. call' # None /\ call' \in InitCalls /\ call'.addr \in {None, Current'.ip} /\ call'.todo # <<>>
      BY <2>1, <3>1 DEF Boot
    <3> QED BY <3>5, <3>6, <3>7, <3>8 DEF Boot
  <2>4. ~(call # None /\ call' = None)
    BY <2>1
  <2> QED BY <2>1, <2>2, <2>3, <2>4 DEF RestoreInv
<1>2. CASE Next
  <2>1. scene \in Scenes /\ CfgOk /\ Stored /\ UNCHANGED scene
    BY <1>2 DEF RestoreInv, Next
  <2>2. CASE Boot
    <3>1. CfgOk' /\ Stored' /\ (Boot' \/ (call' = None /\ EachAsStored'))
      BY <1>2, <2>1, <2>2, BootStep
    <3>2. Boot' => call' # None
      BY DEF Boot
    <3>3. call' = None => CallInv'
      BY DEF CallInv
    <3> QED BY <2>1, <3>1, <3>2, <3>3 DEF RestoreInv
  <2>3. CASE CallInv
    <3>1. ~(call # None /\ call.req = "boot")
      BY <2>3 DEF CallInv, Calls
    <3>2. CASE Restart
      <4>1. CfgOk' /\ Stored' /\ (Boot' \/ call' = None)
        BY <2>1, <3>2, RestartStep
      <4>2. call' = None => CallInv'
        BY DEF CallInv
      <4> QED BY <2>1, <3>1, <4>1, <4>2 DEF RestoreInv
    <3>3. CASE ~Restart
      BY <1>2, <2>1, <2>3, <3>1, <3>3, NextKeepsCall DEF RestoreInv
    <3> QED BY <3>2, <3>3
  <2> QED BY <2>2, <2>3 DEF RestoreInv
<1> QED BY <1>1, <1>2

\* Wherever in a call or in Init itself the process died, and however the calls
\* before went wrong: when Init is through, every interface has the global
\* address of its object and the link local addresses stored for it, counted
\* again, if no other port's object shares the global address and the kernel
\* does not choose an address of the pool for its link (ipv6Mgr.go:228).
THEOREM RestoreAlwaysComplete == Spec => RestoreComplete
<1>1. Init => RestoreInv
  BY RestoreInit
<1>2. RestoreInv /\ [Next]_vars =>
        RestoreInv' /\ [call # None /\ call.req = "boot" /\ call' = None => EachAsStored']_vars
  BY RestoreNext
<1> QED BY <1>1, <1>2, PTL DEF Spec, RestoreComplete
=============================================================================
