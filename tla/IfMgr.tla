------------------------------- MODULE IfMgr -------------------------------
(***************************************************************************)
(* The interface manager (src/pluginManager/ifMgr.go): the ifIndexes of    *)
(* the interfaces that are not fixed by the configuration, and the maps    *)
(* between ifIndexes and names.                                            *)
(*                                                                         *)
(* An ifIndex holds its type and an id (GetIfIndexFromIdType), of which a  *)
(* type has MaxId.  A freed ifIndex waits on the list of its type; the     *)
(* last one freed is taken first.  Ports, which are never freed, and LAGs  *)
(* and VLANs, whose id is given, are left out, and so is keyCache, which   *)
(* only GetBulk reads.                                                     *)
(***************************************************************************)
EXTENDS Integers, Sequences, SequencesExt

IfType == {"Loopback", "Virtual", "Vtep"}

CONSTANT MaxId
ASSUME MaxIdAssumption == MaxId \in [IfType -> Nat \ {0}]

IfIndex == {i \in IfType \X Nat : i[2] < MaxId[i[1]]}

VARIABLES
  ifNameOf,    \* ifIndexToIfName
  ifIndexOf,   \* ifNameToIfIndex
  nextIfId,    \* nextIfIdForIfType
  freeIfIndex  \* freeIfIndexListByIfType

ifVars == <<ifNameOf, ifIndexOf, nextIfId, freeIfIndex>>

NoIfs ==
  /\ ifNameOf = << >>
  /\ ifIndexOf = << >>
  /\ nextIfId = [t \in IfType |-> 0]
  /\ freeIfIndex = [t \in IfType |-> << >>]

With(f, k, v) == [x \in DOMAIN f \cup {k} |-> IF x = k THEN v ELSE f[x]]
Without(f, k) == [x \in DOMAIN f \ {k} |-> f[x]]

\* The bound of the model: the code takes ids for ever.
HasIfIndex(t) == freeIfIndex[t] # << >> \/ nextIfId[t] < MaxId[t]

NewIfIndex(t) ==
  IF freeIfIndex[t] # << >> THEN freeIfIndex[t][Len(freeIfIndex[t])] ELSE <<t, nextIfId[t]>>

AllocateIfIndex(name, t) ==
  /\ HasIfIndex(t)
  /\ ifNameOf' = With(ifNameOf, NewIfIndex(t), name)
  /\ ifIndexOf' = With(ifIndexOf, name, NewIfIndex(t))
  /\ IF freeIfIndex[t] # << >>
     THEN /\ freeIfIndex' = [freeIfIndex EXCEPT ![t] = SubSeq(@, 1, Len(@) - 1)]
          /\ UNCHANGED nextIfId
     ELSE /\ nextIfId' = [nextIfId EXCEPT ![t] = @ + 1]
          /\ UNCHANGED freeIfIndex

\* An ifIndex that is not in use is freed all the same.
FreeIfIndex(i) ==
  /\ freeIfIndex' = [freeIfIndex EXCEPT ![i[1]] = Append(@, i)]
  /\ ifIndexOf' = IF i \in DOMAIN ifNameOf THEN Without(ifIndexOf, ifNameOf[i]) ELSE ifIndexOf
  /\ ifNameOf' = Without(ifNameOf, i)
  /\ UNCHANGED nextIfId

\* (Mutant: only one of the maps follows.)
UpdateIfNameOnly(i, old, new) ==
  /\ ifNameOf' = With(ifNameOf, i, new)
  /\ UNCHANGED <<ifIndexOf, nextIfId, freeIfIndex>>

UpdateIfNameForIfIndex(i, old, new) ==
  /\ ifNameOf' = With(ifNameOf, i, new)
  /\ ifIndexOf' = With(Without(ifIndexOf, old), new, i)
  /\ UNCHANGED <<nextIfId, freeIfIndex>>
=============================================================================
