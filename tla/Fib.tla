-------------------------------- MODULE Fib --------------------------------
(***************************************************************************)
(* What asicd promises of the forwarding table: the sets of next hops the  *)
(* route daemon asked for, one next hop of one prefix added or removed at  *)
(* a time, take effect in the ASIC one by one, in the order they were      *)
(* asked for, none lost and each eventually.                               *)
(***************************************************************************)
EXTENDS Integers, Sequences

CONSTANTS Prefix, NextHop

VARIABLES
  installed,    \* the next hops each prefix forwards to, {} for no route
  pending       \* what was submitted and is not yet in effect

fibVars == <<installed, pending>>

\* The set of next hops the prefix has been asked to have last.
LastOf(p, i) ==
  /\ i = 0 \/ pending[i].prefix = p
  /\ \A j \in i + 1 .. Len(pending) : pending[j].prefix # p

Latest(p, nhs) ==
  \E i \in 0 .. Len(pending) :
    LastOf(p, i) /\ nhs = IF i = 0 THEN installed[p] ELSE pending[i].nhs

FibInit ==
  /\ installed = [p \in Prefix |-> {}]
  /\ pending = <<>>

Submit(p, nhs) ==
  /\ pending' = Append(pending, [prefix |-> p, nhs |-> nhs])
  /\ UNCHANGED installed

AddNextHop(p, n) ==
  \E nhs \in SUBSET NextHop : Latest(p, nhs) /\ n \notin nhs /\ Submit(p, nhs \cup {n})
RemoveNextHop(p, n) ==
  \E nhs \in SUBSET NextHop : Latest(p, nhs) /\ n \in nhs /\ Submit(p, nhs \ {n})

Install ==
  /\ pending # <<>>
  /\ installed' = [installed EXCEPT ![Head(pending).prefix] = Head(pending).nhs]
  /\ pending' = Tail(pending)

FibNext ==
  \/ Install
  \/ \E p \in Prefix, n \in NextHop : AddNextHop(p, n) \/ RemoveNextHop(p, n)

FibSpec == FibInit /\ [][FibNext]_fibVars /\ WF_fibVars(Install)
=============================================================================
