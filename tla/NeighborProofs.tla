--------------------------- MODULE NeighborProofs ---------------------------
(***************************************************************************)
(* Proofs about NeighborSystem for every set of clients, addresses, MACs   *)
(* and ports, whatever MACs the clients report an address on, for routes   *)
(* on any of the next hops and for callbacks that run while calls are in   *)
(* progress.                                                               *)
(***************************************************************************)
EXTENDS NeighborSystem, SequenceTheorems, WellFoundedInduction, TLAPS

-----------------------------------------------------------------------------
(***************************************************************************)
(* What the loop of DeleteIPNeighbor returns.                              *)
(***************************************************************************)
\* Induction over an interval, with a set in the place of a predicate.
LEMMA IntervalInduction ==
  ASSUME NEW n \in Nat, NEW S, 0 \in S, \A i \in 1 .. n : i - 1 \in S => i \in S
  PROVE  0 .. n \subseteq S
<1> DEFINE Bad == {i \in 0 .. n : i \notin S}
<1>1. SUFFICES ASSUME Bad # {}
               PROVE  FALSE
  OBVIOUS
<1>2. Bad \in SUBSET Nat
  OBVIOUS
<1>3. OpToRel(<, Nat) = {ss \in Nat \X Nat : ss[1] < ss[2]}
  BY DEF OpToRel
<1>4. PICK v \in Bad : \A w \in Bad : <<w, v>> \notin OpToRel(<, Nat)
  <2> HIDE DEF Bad
  <2> QED BY <1>1, <1>2, NatLessThanWellFounded, WFMin
<1>5. v \in 1 .. n
  <2>1. v \in 0 .. n /\ v # 0
    BY <1>4
  <2> QED BY <2>1
<1>6. v - 1 \in 0 .. n
  BY <1>5
<1>7. v - 1 \in S
  <2>1. SUFFICES ASSUME v - 1 \notin S
                 PROVE  FALSE
    OBVIOUS
  <2>2. v - 1 \in Bad
    BY <1>6, <2>1
  <2>3. <<v - 1, v>> \in {ss \in Nat \X Nat : ss[1] < ss[2]}
    BY <1>5
  <2> QED BY <1>3, <1>4, <2>2, <2>3
<1> QED BY <1>4, <1>5, <1>7

\* What the loop works on: the array, never longer than the list was.
Removing(n, S) == [array : [1 .. n -> S], len : 0 .. n, ok : BOOLEAN]

\* f is what the loop that removes ip has after 0, 1, .., n elements.
Loops(f, n, ips, ip) ==
  f = [i \in 0 .. n |-> IF i = 0 THEN [array |-> ips, len |-> Len(ips), ok |-> TRUE]
                                 ELSE Removal(f[i - 1], i, ip)]

LEMMA RemovalType ==
  ASSUME NEW S, NEW n \in Nat, NEW i \in 1 .. n, NEW ip, NEW acc \in Removing(n, S)
  PROVE  Removal(acc, i, ip) \in Removing(n, S)
<1>1. CASE ~acc.ok \/ acc.array[i] # ip
  BY <1>1 DEF Removal
<1>2. CASE acc.ok /\ acc.array[i] = ip /\ i > acc.len
  BY <1>2 DEF Removal, Removing
<1>3. CASE acc.ok /\ acc.array[i] = ip /\ ~(i > acc.len)
  <2>1. acc.len \in 1 .. n /\ acc.len - 1 \in 0 .. n /\ acc.array \in [1 .. n -> S]
    BY <1>3 DEF Removing
  <2> DEFINE moved == [k \in DOMAIN acc.array |->
                         IF k \in i .. (acc.len - 1) THEN acc.array[k + 1] ELSE acc.array[k]]
  <2>2. moved \in [1 .. n -> S]
    <3>1. DOMAIN acc.array = 1 .. n
      BY <2>1
    <3>2. ASSUME NEW k \in 1 .. n
          PROVE  (IF k \in i .. (acc.len - 1) THEN acc.array[k + 1] ELSE acc.array[k]) \in S
      BY <2>1
    <3> QED BY <3>1, <3>2
  <2>3. Removal(acc, i, ip) = [array |-> moved, len |-> acc.len - 1, ok |-> TRUE]
    BY <1>3 DEF Removal
  <2> HIDE DEF moved
  <2> QED BY <2>1, <2>2, <2>3 DEF Removing
<1> QED BY <1>1, <1>2, <1>3

LEMMA LoopExists ==
  ASSUME NEW S, NEW ips \in Seq(S), NEW ip
  PROVE  \E f \in [0 .. Len(ips) -> Removing(Len(ips), S)] : Loops(f, Len(ips), ips, ip)
<1>0. PICK n : n = Len(ips)
  OBVIOUS
<1> DEFINE R == Removing(n, S)
           start == [array |-> ips, len |-> n, ok |-> TRUE]
           Good == {m \in 0 .. n : \E f \in [0 .. m -> R] : Loops(f, m, ips, ip)}
<1>1. n \in Nat /\ ips \in [1 .. n -> S]
  BY <1>0, LenProperties
<1>2. start \in R
  BY <1>1 DEF Removing
<1>3. 0 \in Good
  <2> DEFINE f == [i \in 0 .. 0 |-> start]
  <2>1. f \in [0 .. 0 -> R]
    BY <1>2
  <2>2. f = [i \in 0 .. 0 |-> IF i = 0 THEN start ELSE Removal(f[i - 1], i, ip)]
    OBVIOUS
  <2>3. Loops(f, 0, ips, ip)
    BY <1>0, <2>2 DEF Loops
  <2> HIDE DEF f
  <2> QED BY <1>1, <2>1, <2>3
<1>4. ASSUME NEW m \in 1 .. n, m - 1 \in Good
      PROVE  m \in Good
  <2>1. PICK f \in [0 .. m - 1 -> R] : Loops(f, m - 1, ips, ip)
    BY <1>4
  <2> DEFINE g == [i \in 0 .. m |-> IF i = m THEN Removal(f[m - 1], m, ip) ELSE f[i]]
  <2>2. Removal(f[m - 1], m, ip) \in R
    <3>1. f[m - 1] \in R
      BY <2>1
    <3> QED BY <1>1, <3>1, RemovalType
  <2>3. g \in [0 .. m -> R]
    BY <2>1, <2>2
  <2>4. \A i \in 0 .. m : g[i] = IF i = 0 THEN start ELSE Removal(g[i - 1], i, ip)
    <3> TAKE i \in 0 .. m
    <3>1. CASE i = m
      <4>1. g[m] = Removal(f[m - 1], m, ip) /\ g[m - 1] = f[m - 1] /\ m # 0
        OBVIOUS
      <4> QED BY <3>1, <4>1
    <3>2. CASE i # m
      <4>1. i \in 0 .. m - 1 /\ (i # 0 => i - 1 \in 0 .. m - 1)
        BY <3>2
      <4>2. g[i] = f[i] /\ (i # 0 => g[i - 1] = f[i - 1])
        BY <4>1
      <4>3. f[i] = IF i = 0 THEN start ELSE Removal(f[i - 1], i, ip)
        BY <1>0, <2>1, <4>1 DEF Loops
      <4> QED BY <4>1, <4>2, <4>3
    <3> QED BY <3>1, <3>2
  <2>5. g = [i \in 0 .. m |-> IF i = 0 THEN start ELSE Removal(g[i - 1], i, ip)]
    BY <2>3, <2>4
  <2>6. Loops(g, m, ips, ip)
    BY <1>0, <2>5 DEF Loops
  <2> HIDE DEF g
  <2> QED BY <1>1, <2>3, <2>6
<1>5. n \in Good
  <2> HIDE DEF Good
  <2> QED BY <1>1, <1>3, <1>4, IntervalInduction
<1> QED BY <1>0, <1>5

\* RemoveIp is where such a loop ends.
LEMMA RemoveIpLoops ==
  ASSUME NEW S, NEW ips \in Seq(S), NEW ip
  PROVE  \E f : Loops(f, Len(ips), ips, ip) /\ RemoveIp(ips, ip) = f[Len(ips)]
<1> DEFINE after[i \in 0 .. Len(ips)] ==
             IF i = 0 THEN [array |-> ips, len |-> Len(ips), ok |-> TRUE]
             ELSE Removal(after[i - 1], i, ip)
<1>1. RemoveIp(ips, ip) = after[Len(ips)]
  BY DEF RemoveIp
<1>2. after = CHOOSE f :
        f = [i \in 0 .. Len(ips) |-> IF i = 0 THEN [array |-> ips, len |-> Len(ips), ok |-> TRUE]
                                     ELSE Removal(f[i - 1], i, ip)]
  BY DEF after
<1> HIDE DEF after
<1>3. PICK g : Loops(g, Len(ips), ips, ip)
  BY LoopExists
<1>4. after = [i \in 0 .. Len(ips) |->
                 IF i = 0 THEN [array |-> ips, len |-> Len(ips), ok |-> TRUE]
                 ELSE Removal(after[i - 1], i, ip)]
  BY <1>2, <1>3 DEF Loops
<1>5. Loops(after, Len(ips), ips, ip)
  BY <1>4 DEF Loops
<1> QED BY <1>1, <1>5

\* Whatever the list, the result is made of what was in it.
LEMMA RemoveIpType ==
  ASSUME NEW S, NEW ips \in Seq(S), NEW ip
  PROVE  RemoveIp(ips, ip) \in Removing(Len(ips), S)
<1>0. PICK n : n = Len(ips)
  OBVIOUS
<1>1. PICK f : Loops(f, n, ips, ip) /\ RemoveIp(ips, ip) = f[n]
  BY <1>0, RemoveIpLoops
<1> DEFINE Good == {i \in 0 .. n : f[i] \in Removing(n, S)}
<1>2. n \in Nat /\ ips \in [1 .. n -> S]
  BY <1>0, LenProperties
<1>3. 0 \in Good
  <2>1. f[0] = [array |-> ips, len |-> n, ok |-> TRUE]
    BY <1>0, <1>1, <1>2 DEF Loops
  <2>2. [array |-> ips, len |-> n, ok |-> TRUE] \in Removing(n, S)
    BY <1>2 DEF Removing
  <2> QED BY <1>2, <2>1, <2>2
<1>4. ASSUME NEW i \in 1 .. n, i - 1 \in Good
      PROVE  i \in Good
  <2>1. f[i] = Removal(f[i - 1], i, ip)
    <3>1. i \in 0 .. n /\ i # 0
      BY <1>2
    <3> QED BY <1>1, <3>1 DEF Loops
  <2> QED BY <1>2, <1>4, <2>1, RemovalType
<1>5. n \in Good
  <2> HIDE DEF Good
  <2> QED BY <1>2, <1>3, <1>4, IntervalInduction
<1> QED BY <1>0, <1>1, <1>5

\* The place in a list of what is at place e once place at is taken out.
Skip(p, e) == IF e < p THEN e ELSE e + 1

-----------------------------------------------------------------------------
(***************************************************************************)
(* Lists that name each address once.                                      *)
(***************************************************************************)
Names(list, x) == \E i \in DOMAIN list : list[i] = x

LEMMA AppendNames ==
  ASSUME NEW S, NEW s \in Seq(S), NEW x \in S
  PROVE  /\ Append(s, x) \in Seq(S) /\ Append(s, x) # <<>>
         /\ \A y : Names(Append(s, x), y) <=> Names(s, y) \/ y = x
         /\ IsInjective(s) /\ ~Names(s, x) => IsInjective(Append(s, x))
<1>0. PICK n : n = Len(s)
  OBVIOUS
<1>1. PICK r : r = Append(s, x)
  OBVIOUS
<1>2. /\ n \in Nat /\ DOMAIN s = 1 .. n
      /\ r \in Seq(S) /\ DOMAIN r = 1 .. n + 1
      /\ \A i \in 1 .. n : r[i] = s[i]
      /\ r[n + 1] = x
  BY <1>0, <1>1, AppendProperties, LenProperties
<1>3. \A i \in 1 .. n + 1 : i \in 1 .. n \/ i = n + 1
  BY <1>2
<1>4. n + 1 \in 1 .. n + 1 /\ \A i \in 1 .. n : i \in 1 .. n + 1
  BY <1>2
<1>5. \A y : Names(r, y) <=> Names(s, y) \/ y = x
  BY <1>2, <1>3, <1>4 DEF Names
<1>6. IsInjective(s) /\ ~Names(s, x) => IsInjective(r)
  BY <1>2, <1>3, <1>4 DEF Names, IsInjective
<1>7. r # <<>>
  BY <1>1
<1> QED BY <1>1, <1>2, <1>5, <1>6, <1>7

LEMMA SkipNames ==
  ASSUME NEW S, NEW s \in Seq(S), IsInjective(s), NEW p \in DOMAIN s,
         NEW r, DOMAIN r = 1 .. Len(s) - 1, \A e \in 1 .. Len(s) - 1 : r[e] = s[Skip(p, e)]
  PROVE  /\ IsInjective(r)
         /\ \A y : Names(r, y) <=> Names(s, y) /\ y # s[p]
<1>0. PICK n : n = Len(s)
  OBVIOUS
<1>1. n \in Nat /\ DOMAIN s = 1 .. n /\ p \in 1 .. n
  BY <1>0, LenProperties
<1>3. DOMAIN r = 1 .. n - 1 /\ \A e \in 1 .. n - 1 : r[e] = s[Skip(p, e)]
  BY <1>0
<1>4. \A e \in 1 .. n - 1 : Skip(p, e) \in 1 .. n /\ Skip(p, e) # p
  BY <1>1 DEF Skip
<1>5. \A e, f \in 1 .. n - 1 : Skip(p, e) = Skip(p, f) => e = f
  BY <1>1 DEF Skip
<1>6. \A i \in 1 .. n : i # p => \E e \in 1 .. n - 1 : i = Skip(p, e)
  <2> SUFFICES ASSUME NEW i \in 1 .. n, i # p
               PROVE  \E e \in 1 .. n - 1 : i = Skip(p, e)
    OBVIOUS
  <2>1. CASE i < p
    BY <1>1, <2>1 DEF Skip
  <2>2. CASE i > p
    <3>1. i - 1 \in 1 .. n - 1 /\ ~(i - 1 < p) /\ (i - 1) + 1 = i
      BY <1>1, <2>2
    <3> QED BY <3>1 DEF Skip
  <2> QED BY <1>1, <2>1, <2>2
<1>7. IsInjective(r)
  <2> SUFFICES ASSUME NEW e \in 1 .. n - 1, NEW f \in 1 .. n - 1, r[e] = r[f]
               PROVE  e = f
    BY <1>3 DEF IsInjective
  <2>1. s[Skip(p, e)] = s[Skip(p, f)] /\ Skip(p, e) \in 1 .. n /\ Skip(p, f) \in 1 .. n
    BY <1>3, <1>4
  <2>2. Skip(p, e) = Skip(p, f)
    BY <1>1, <2>1 DEF IsInjective
  <2> QED BY <1>5, <2>2
<1>8. ASSUME NEW y
      PROVE  Names(r, y) <=> Names(s, y) /\ y # s[p]
  <2>1. ASSUME NEW e \in 1 .. n - 1, r[e] = y
        PROVE  Names(s, y) /\ y # s[p]
    <3>1. s[Skip(p, e)] = y /\ Skip(p, e) \in 1 .. n /\ Skip(p, e) # p
      BY <1>3, <1>4, <2>1
    <3> QED BY <1>1, <3>1 DEF Names, IsInjective
  <2>2. ASSUME NEW i \in 1 .. n, s[i] = y, y # s[p]
        PROVE  Names(r, y)
    <3>1. PICK e \in 1 .. n - 1 : i = Skip(p, e)
      BY <1>6, <2>2
    <3> QED BY <1>3, <2>2, <3>1 DEF Names
  <2> QED BY <1>1, <1>3, <2>1, <2>2 DEF Names
<1> QED BY <1>7, <1>8

LEMMA RemoveAtSkips ==
  ASSUME NEW S, NEW s \in Seq(S), NEW k \in 1..Len(s)
  PROVE  /\ RemoveAt(s, k) \in Seq(S)
         /\ DOMAIN RemoveAt(s, k) = 1..Len(s) - 1
         /\ \A e \in 1..Len(s) - 1 : RemoveAt(s, k)[e] = s[Skip(k, e)]
<1> DEFINE n == Len(s)
           before == SubSeq(s, 1, k - 1)
           after == SubSeq(s, k + 1, n)
<1>1. n \in Nat /\ k \in 1..n
  OBVIOUS
<1>2. before \in Seq(S)
  BY SubSeqProperties
<1>3. Len(before) = k - 1 /\ \A e \in 1..k - 1 : before[e] = s[e]
  BY <1>1, SubSeqProperties
<1>4. after \in Seq(S)
  BY SubSeqProperties
<1>5. Len(after) = n - k /\ \A e \in 1..n - k : after[e] = s[k + e]
  BY <1>1, SubSeqProperties
<1>6. RemoveAt(s, k) = before \o after
  BY DEF RemoveAt
<1> HIDE DEF before, after, n
<1>7. /\ before \o after \in Seq(S)
      /\ Len(before \o after) = Len(before) + Len(after)
      /\ \A i \in 1..Len(before) + Len(after) :
           (before \o after)[i] = IF i <= Len(before) THEN before[i] ELSE after[i - Len(before)]
  BY ONLY <1>2, <1>4, ConcatProperties
<1>8. Len(before) + Len(after) = n - 1
  BY <1>1, <1>3, <1>5
<1>9. ASSUME NEW e \in 1..n - 1
      PROVE  (before \o after)[e] = s[Skip(k, e)]
  <2>1. CASE e < k
    BY <1>1, <1>3, <1>7, <1>8, <2>1 DEF Skip
  <2>2. CASE ~(e < k)
    <3>1. (before \o after)[e] = after[e - (k - 1)]
      <4>1. ~(e <= Len(before)) /\ e \in 1..Len(before) + Len(after)
        BY <1>1, <1>3, <1>8, <2>2
      <4>2. (before \o after)[e] = after[e - Len(before)]
        BY <1>7, <4>1
      <4> QED BY <1>3, <4>2
    <3>2. e - (k - 1) \in 1..n - k /\ k + (e - (k - 1)) = e + 1
      BY <1>1, <2>2
    <3>3. after[e - (k - 1)] = s[k + (e - (k - 1))]
      BY <1>5, <3>2
    <3>4. s[k + (e - (k - 1))] = s[e + 1]
      BY <3>2
    <3> QED BY <1>1, <2>2, <3>1, <3>3, <3>4 DEF Skip
  <2> QED BY <2>1, <2>2
<1>10. DOMAIN RemoveAt(s, k) = 1..n - 1
  BY <1>6, <1>7, <1>8
<1> QED BY <1>6, <1>7, <1>9, <1>10 DEF n

LEMMA RemoveFirstNames ==
  ASSUME NEW S, NEW s \in Seq(S), NEW x
  PROVE  /\ RemoveFirst(s, x) \in Seq(S)
         /\ IsInjective(s) => /\ IsInjective(RemoveFirst(s, x))
                              /\ \A y : Names(RemoveFirst(s, x), y) <=> Names(s, y) /\ y # x
<1>0. PICK n : n = Len(s)
  OBVIOUS
<1>1. n \in Nat /\ DOMAIN s = 1 .. n
  BY <1>0, LenProperties
<1>2. CASE ~Names(s, x)
  BY <1>0, <1>1, <1>2 DEF Names, RemoveFirst
<1>3. CASE Names(s, x)
  <2> DEFINE Places == {i \in 1 .. n : s[i] = x}
             r == RemoveFirst(s, x)
  <2>1. PICK p \in Places : \A i \in Places : p <= i
    <3>1. Places # {} /\ Places \in SUBSET Nat
      BY <1>1, <1>3 DEF Names
    <3> HIDE DEF Places
    <3>2. PICK v \in Places : \A w \in Places : <<w, v>> \notin OpToRel(<, Nat)
      BY <3>1, NatLessThanWellFounded, WFMin
    <3>3. OpToRel(<, Nat) = {ss \in Nat \X Nat : ss[1] < ss[2]}
      BY DEF OpToRel
    <3>4. ASSUME NEW w \in Places, w < v
          PROVE  FALSE
      <4>1. <<w, v>> \in {ss \in Nat \X Nat : ss[1] < ss[2]}
        BY <3>1, <3>4
      <4> QED BY <3>2, <3>3, <4>1
    <3>5. v \in Nat /\ \A w \in Places : w \in Nat
      BY <3>1
    <3>6. \A w \in Places : v <= w
      BY <3>4, <3>5
    <3> QED BY <3>6
  <2>2. p \in 1 .. n /\ s[p] = x
    BY <2>1
  <2>3. SelectInSeq(s, LAMBDA v : v = x) = p
    <3>1. SelectInSeq(s, LAMBDA v : v = x) = Min(Places)
      BY <1>0, <2>1 DEF SelectInSeq
    <3>2. Min(Places) = CHOOSE y \in Places : \A z \in Places : y <= z
      BY DEF Min
    <3>3. \A y \in Places : (\A z \in Places : y <= z) => y = p
      BY <1>1, <2>1
    <3> HIDE DEF Places
    <3> QED BY <2>1, <3>1, <3>2, <3>3
  <2>4. r = RemoveAt(s, p)
    BY <1>0, <1>1, <1>3, <2>3 DEF RemoveFirst, Names
  <2>5. r \in Seq(S) /\ DOMAIN r = 1 .. n - 1 /\ \A e \in 1 .. n - 1 : r[e] = s[Skip(p, e)]
    BY <1>0, <2>2, <2>4, RemoveAtSkips
  <2> HIDE DEF r
  <2>6. ASSUME IsInjective(s)
        PROVE  IsInjective(r) /\ \A y : Names(r, y) <=> Names(s, y) /\ y # s[p]
    <3>1. p \in DOMAIN s /\ DOMAIN r = 1 .. Len(s) - 1
      BY <1>0, <1>1, <2>2, <2>5
    <3>2. \A e \in 1 .. Len(s) - 1 : r[e] = s[Skip(p, e)]
      BY <1>0, <2>5
    <3> HIDE DEF Places
    <3> QED BY <2>6, <3>1, <3>2, SkipNames
  <2> QED BY <2>2, <2>5, <2>6 DEF r
<1> QED BY <1>2, <1>3

-----------------------------------------------------------------------------
(***************************************************************************)
(* The inductive invariant: CoreInv for the tables and the references,     *)
(* KeysInv for the key list.                                               *)
(***************************************************************************)
Forgetting == {"unlist", "dropAdj", "unlink", "unkey"}
ClientStep == {"hwCreate", "takeNextHop", "storeNew", "link", "updNextHop", "hwUpdate",
               "storeUpdated", "hwDelete", "dropNextHop", "forget"} \cup Forgetting
UpdateStep == {"updNextHop", "hwUpdate", "storeUpdated"}

\* Where the callback thread is when it is not in a call.
FdbStep == {"idle", "list", "move", "mark", "drop"}

Job == [ip : NextHop \cup {None}, mac : Mac]

\* The step of the call that the owner of ip is making on ip.
Where(ip) == IF at[Owner[ip]] # "idle" /\ job[Owner[ip]].ip = ip THEN at[Owner[ip]]
                                                                  ELSE "idle"

TableType ==
  /\ nbrDB \in [NextHop -> Mac \cup {None}]
  /\ hwNbr \in [NextHop -> Mac \cup {None}]
  /\ nbrKeys \in Seq(NextHop)
  /\ xref \in [Mac -> Seq(NextHop)]
  /\ routeHolds \subseteq NextHop

InCall(t) == job[t] \in Job /\ job[t].ip \in NextHop

\* A client works on addresses of its own; the callback thread only updates.
ThreadInv ==
  /\ at \in [Thread -> ClientStep \cup FdbStep]
  /\ job \in [Thread -> Job \cup {None}]
  /\ \A c \in Client : /\ at[c] \in ClientStep \cup {"idle"}
                       /\ at[c] # "idle" => InCall(c) /\ Owner[job[c].ip] = c
  /\ at["fdb"] \in UpdateStep \cup FdbStep
  /\ at["fdb"] # "idle" => job["fdb"] \in Job
  /\ todo \in Seq(NextHop)
  /\ at["fdb"] \in UpdateStep => InCall("fdb")

\* The next hop table is the ASIC's, and no next hop is in a group.
NhInv ==
  /\ refCount \in [NextHop -> Nat]
  /\ nextHopDB = {ip \in NextHop : refCount[ip] > 0}
  /\ hwNextHop = nextHopDB /\ hwGroup = {}

\* The neighbour entry of the ASIC stands for a reference on the next hop,
\* from when the reference is taken to when it is given back.
NeighborHolds(ip) ==
  (hwNbr[ip] # None /\ Where(ip) # "takeNextHop") \/ Where(ip) = "dropNextHop"

HoldOf(ip) ==
  /\ refCount[ip] >= (IF ip \in routeHolds THEN 1 ELSE 0) + (IF NeighborHolds(ip) THEN 1 ELSE 0)
  /\ Where(ip) \in {"dropNextHop", "forget"} \cup Forgetting => hwNbr[ip] = None
  /\ hwNbr[ip] # None => nbrDB[ip] # None \/ Where(ip) \in {"takeNextHop", "storeNew"}

CoreInv == TableType /\ ThreadInv /\ NhInv /\ \A ip \in NextHop : HoldOf(ip)

\* A key is there from when the create stores the neighbour to the end of the
\* delete, and with it whatever the ASIC has of the neighbour.
Creating == {"hwCreate", "takeNextHop", "storeNew"}

KeyOf(ip) ==
  /\ Names(nbrKeys, ip) => /\ nbrDB[ip] # None \/ Where(ip) \in Forgetting
                           /\ Where(ip) \notin Creating
  /\ hwNbr[ip] # None => Names(nbrKeys, ip) \/ Where(ip) \in {"takeNextHop", "storeNew"}

KeysInv == IsInjective(nbrKeys) /\ \A ip \in NextHop : KeyOf(ip)

-----------------------------------------------------------------------------
(***************************************************************************)
(* What each way a thread can move does to where the addresses are.        *)
(***************************************************************************)
LEMMA ThreadFacts ==
  ASSUME ThreadInv, NEW t \in Thread, at[t] \in ClientStep
  PROVE  /\ job[t] \in Job /\ job[t].ip \in NextHop /\ job[t].mac \in Mac
         /\ at[t] \notin UpdateStep => t \in Client
         /\ t \in Client => Owner[job[t].ip] = t /\ Where(job[t].ip) = at[t]
         /\ t \notin Client => t = "fdb"
<1>1. t \in Client \/ t = "fdb"
  BY DEF Thread
<1>2. InCall(t) /\ (t \in Client => Owner[job[t].ip] = t)
  BY <1>1, FdbAssumption DEF ThreadInv, ClientStep, FdbStep, Forgetting
<1>3. at[t] \notin UpdateStep => t \in Client
  BY <1>1 DEF ThreadInv, ClientStep, FdbStep, Forgetting
<1>4. at[t] # "idle"
  BY DEF ClientStep, Forgetting
<1> QED BY <1>1, <1>2, <1>3, <1>4 DEF InCall, Job, Where

\* A call goes on or, when to is "idle", returns.
Moves(t, to) ==
  \/ Goes(t, to) /\ to \in ClientStep /\ (at[t] \in UpdateStep => to \in UpdateStep)
  \/ Returns(t) /\ to = "idle"

LEMMA MovesEffect ==
  ASSUME ThreadInv, NEW t \in Thread, at[t] \in ClientStep, NEW to, Moves(t, to)
  PROVE  /\ ThreadInv'
         /\ \A ip \in NextHop :
              Where(ip)' = IF t \in Client /\ job[t].ip = ip THEN to ELSE Where(ip)
<1>0. /\ job[t] \in Job /\ (t \in Client => Owner[job[t].ip] = t)
      /\ at[t] # "idle"
      /\ t \notin Client => t = "fdb" /\ at[t] \in UpdateStep
      /\ t \in Client => Where(job[t].ip) = at[t]
  BY ThreadFacts DEF ClientStep, Forgetting
<1>1. CASE Goes(t, to) /\ to \in ClientStep /\ (at[t] \in UpdateStep => to \in UpdateStep)
  <2>1. at' = [at EXCEPT ![t] = to] /\ job' = job /\ todo' = todo
    BY <1>1 DEF Goes
  <2>2. /\ at' \in [Thread -> ClientStep \cup FdbStep]
        /\ at'[t] = to /\ \A u \in Thread \ {t} : at'[u] = at[u]
        /\ to # "idle"
    BY <1>1, <2>1 DEF ThreadInv, ClientStep, Forgetting
  <2>3. ThreadInv'
    <3>1. job' \in [Thread -> Job \cup {None}]
      BY <2>1 DEF ThreadInv
    <3>2. ASSUME NEW c \in Client
          PROVE  /\ at'[c] \in ClientStep \cup {"idle"}
                 /\ at'[c] # "idle" => InCall(c)' /\ Owner[job'[c].ip] = c
      <4>1. InCall(c)' <=> InCall(c)
        BY <2>1 DEF InCall
      <4>2. c \in Thread
        BY DEF Thread
      <4>3. at[c] # "idle" => InCall(c) /\ Owner[job[c].ip] = c
        BY DEF ThreadInv
      <4>4. CASE c = t
        BY <1>0, <1>1, <2>1, <2>2, <4>1, <4>3, <4>4
      <4>5. CASE c # t
        BY <2>1, <2>2, <4>1, <4>2, <4>5 DEF ThreadInv
      <4> QED BY <4>4, <4>5
    <3>3. at'["fdb"] \in UpdateStep \cup FdbStep
      BY <1>0, <1>1, <2>2, FdbAssumption DEF ThreadInv, Thread
    <3>4. at'["fdb"] # "idle" => job'["fdb"] \in Job
      BY <1>0, <2>1, <2>2, FdbAssumption DEF ThreadInv, Thread
    <3>5. at'["fdb"] \in UpdateStep => InCall("fdb")'
      <4>1. InCall("fdb")' <=> InCall("fdb")
        BY <2>1 DEF InCall
      <4> QED BY <1>0, <2>1, <2>2, <4>1, FdbAssumption DEF ThreadInv, Thread
    <3> QED BY <2>1, <2>2, <3>1, <3>2, <3>3, <3>4, <3>5 DEF ThreadInv
  <2>4. ASSUME NEW ip \in NextHop
        PROVE  Where(ip)' = IF t \in Client /\ job[t].ip = ip THEN to ELSE Where(ip)
    <3>1. Owner[ip] \in Client /\ Owner[ip] \in Thread
      BY OwnerAssumption DEF Thread
    <3> QED BY <1>0, <2>1, <2>2, <3>1, FdbAssumption DEF Where
  <2> QED BY <2>3, <2>4
<1>2. CASE Returns(t) /\ to = "idle" /\ t = "fdb"
  <2>1. at' = [at EXCEPT ![t] = "move"] /\ job' = job /\ todo' = todo
    BY <1>2 DEF Returns
  <2>2. /\ at' \in [Thread -> ClientStep \cup FdbStep]
        /\ at'[t] = "move" /\ \A u \in Thread \ {t} : at'[u] = at[u]
    BY <2>1 DEF ThreadInv, FdbStep
  <2>3. ThreadInv'
    <3>1. \A c \in Client : InCall(c)' <=> InCall(c)
      BY <2>1 DEF InCall
    <3>2. \A c \in Client : c \in Thread /\ c # t
      BY <1>2, FdbAssumption DEF Thread
    <3>3. "move" \notin UpdateStep /\ "move" \in FdbStep
      BY DEF UpdateStep, FdbStep
    <3> QED BY <1>0, <1>2, <2>1, <2>2, <3>1, <3>2, <3>3 DEF ThreadInv
  <2>4. ASSUME NEW ip \in NextHop
        PROVE  Where(ip)' = Where(ip)
    <3>1. Owner[ip] \in Thread /\ Owner[ip] # t
      BY <1>2, OwnerAssumption, FdbAssumption DEF Thread
    <3> QED BY <2>1, <2>2, <3>1 DEF Where
  <2> QED BY <1>2, <2>3, <2>4, FdbAssumption
<1>3. CASE Returns(t) /\ to = "idle" /\ t # "fdb"
  <2>1. at' = [at EXCEPT ![t] = "idle"] /\ job' = [job EXCEPT ![t] = None] /\ todo' = todo
    BY <1>3 DEF Returns
  <2>2. /\ at' \in [Thread -> ClientStep \cup FdbStep]
        /\ job' \in [Thread -> Job \cup {None}]
        /\ at'[t] = "idle" /\ \A u \in Thread \ {t} : at'[u] = at[u] /\ job'[u] = job[u]
    BY <2>1 DEF ThreadInv, FdbStep
  <2>3. "fdb" \in Thread \ {t} /\ t \in Client
    BY <1>0, <1>3 DEF Thread
  <2>4. ThreadInv'
    <3>1. ASSUME NEW c \in Client
          PROVE  /\ at'[c] \in ClientStep \cup {"idle"}
                 /\ at'[c] # "idle" => InCall(c)' /\ Owner[job'[c].ip] = c
      <4>1. CASE c = t
        BY <2>2, <4>1
      <4>2. CASE c # t
        <5>1. c \in Thread \ {t}
          BY <4>2 DEF Thread
        <5>2. at'[c] = at[c] /\ job'[c] = job[c]
          BY <2>2, <5>1
        <5> QED BY <5>2 DEF ThreadInv, InCall
      <4> QED BY <4>1, <4>2
    <3>2. at'["fdb"] = at["fdb"] /\ job'["fdb"] = job["fdb"]
      BY <2>2, <2>3
    <3> QED BY <2>1, <2>2, <3>1, <3>2 DEF ThreadInv, InCall
  <2>5. ASSUME NEW ip \in NextHop
        PROVE  Where(ip)' = IF job[t].ip = ip THEN "idle" ELSE Where(ip)
    <3>1. Owner[ip] \in Thread
      BY OwnerAssumption DEF Thread
    <3>2. CASE Owner[ip] = t
      BY <2>2, <3>2 DEF Where
    <3>3. CASE Owner[ip] # t
      BY <1>0, <2>2, <2>3, <3>1, <3>3 DEF Where
    <3> QED BY <3>2, <3>3
  <2> QED BY <1>3, <2>3, <2>4, <2>5
<1> QED BY <1>1, <1>2, <1>3 DEF Moves

LEMMA BeginsEffect ==
  ASSUME ThreadInv, NEW ip \in NextHop, NEW mac \in Mac,
         NEW step \in ClientStep, Begins(Owner[ip], step, ip, mac)
  PROVE  /\ ThreadInv'
         /\ Where(ip) = "idle"
         /\ \A k \in NextHop : Where(k)' = IF k = ip THEN step ELSE Where(k)
<1>0. PICK c \in Client : c = Owner[ip]
  BY OwnerAssumption
<1>1. /\ c \in Thread /\ c # "fdb" /\ "fdb" \in Thread
      /\ step # "idle"
      /\ [ip |-> ip, mac |-> mac] \in Job
  BY FdbAssumption DEF Thread, ClientStep, Forgetting, Job
<1>2. /\ at[c] = "idle" /\ at' = [at EXCEPT ![c] = step]
      /\ job' = [job EXCEPT ![c] = [ip |-> ip, mac |-> mac]] /\ todo' = todo
  BY <1>0 DEF Begins
<1>3. /\ at' \in [Thread -> ClientStep \cup FdbStep]
      /\ job' \in [Thread -> Job \cup {None}]
      /\ at'[c] = step /\ job'[c] = [ip |-> ip, mac |-> mac]
      /\ \A u \in Thread \ {c} : at'[u] = at[u] /\ job'[u] = job[u]
  BY <1>1, <1>2 DEF ThreadInv
<1>4. ThreadInv'
  <2>1. ASSUME NEW d \in Client
        PROVE  /\ at'[d] \in ClientStep \cup {"idle"}
               /\ at'[d] # "idle" => InCall(d)' /\ Owner[job'[d].ip] = d
    <3>1. CASE d = c
      BY <1>0, <1>1, <1>3, <3>1 DEF InCall
    <3>2. CASE d # c
      <4>1. d \in Thread \ {c}
        BY <3>2 DEF Thread
      <4>2. at'[d] = at[d] /\ job'[d] = job[d]
        BY <1>3, <4>1
      <4> QED BY <4>2 DEF ThreadInv, InCall
    <3> QED BY <3>1, <3>2
  <2>2. at'["fdb"] = at["fdb"] /\ job'["fdb"] = job["fdb"]
    BY <1>1, <1>3
  <2> QED BY <1>2, <1>3, <2>1, <2>2 DEF ThreadInv, InCall
<1>5. Where(ip) = "idle"
  BY <1>0, <1>2 DEF Where
<1>6. ASSUME NEW k \in NextHop
      PROVE  Where(k)' = IF k = ip THEN step ELSE Where(k)
  <2>1. Owner[k] \in Thread
    BY OwnerAssumption DEF Thread
  <2>2. CASE Owner[k] = c
    BY <1>0, <1>1, <1>2, <1>3, <2>2 DEF Where
  <2>3. CASE Owner[k] # c
    BY <1>0, <1>3, <2>1, <2>3 DEF Where
  <2> QED BY <2>2, <2>3
<1> QED BY <1>4, <1>5, <1>6

-----------------------------------------------------------------------------
(***************************************************************************)
(* CoreInv is preserved, action by action.                                 *)
(***************************************************************************)
LEMMA HoldSame ==
  ASSUME NEW ip \in NextHop, HoldOf(ip),
         refCount'[ip] = refCount[ip], ip \in routeHolds' <=> ip \in routeHolds,
         Where(ip)' = Where(ip), hwNbr'[ip] = None <=> hwNbr[ip] = None,
         nbrDB[ip] # None => nbrDB'[ip] # None
  PROVE  HoldOf(ip)'
<1>1. NeighborHolds(ip)' <=> NeighborHolds(ip)
  BY DEF NeighborHolds
<1> QED BY <1>1 DEF HoldOf

LEMMA TablesSame ==
  ASSUME CoreInv, UNCHANGED <<nbrVars, hwNbr, routeHolds>>
  PROVE  TableType'
BY DEF CoreInv, TableType, nbrVars

LEMMA NhSame ==
  ASSUME CoreInv, UNCHANGED nhMgrVars
  PROVE  NhInv'
BY DEF CoreInv, NhInv, nhMgrVars

LEMMA StartCore ==
  ASSUME CoreInv, UNCHANGED routeHolds, NEW ip \in NextHop, NEW mac \in MacsOf[ip],
         \/ CreateIPNeighbor(ip, mac)
         \/ UpdateIPNeighbor(ip, mac)
         \/ DeleteIPNeighbor(ip)
  PROVE  CoreInv'
<1>1. PICK step \in {"hwCreate", "updNextHop", "hwDelete"}, m \in Mac :
        Begins(Owner[ip], step, ip, m)
  <2>1. mac \in Mac
    BY MacsOfAssumption
  <2>2. nbrDB[ip] # None => nbrDB[ip] \in Mac
    BY DEF CoreInv, TableType
  <2> QED BY <2>1, <2>2 DEF CreateIPNeighbor, UpdateIPNeighbor, DeleteIPNeighbor
<1>2. UNCHANGED <<nhMgrVars, nbrVars, l2Vars, hwNbr, panicked>>
  BY DEF CreateIPNeighbor, UpdateIPNeighbor, DeleteIPNeighbor
<1>3. TableType' /\ NhInv'
  BY <1>2, TablesSame, NhSame
<1>4. /\ ThreadInv'
      /\ Where(ip) = "idle"
      /\ \A k \in NextHop : Where(k)' = IF k = ip THEN step ELSE Where(k)
  BY <1>1, BeginsEffect DEF CoreInv, ClientStep
<1>5. ASSUME NEW k \in NextHop
      PROVE  HoldOf(k)'
  <2>1. HoldOf(k) /\ UNCHANGED <<refCount, routeHolds, hwNbr, nbrDB>>
    BY <1>2 DEF CoreInv, nhMgrVars, nbrVars
  <2>2. CASE k # ip
    BY <1>4, <2>1, <2>2, HoldSame
  <2>3. CASE k = ip
    <3>1. Where(k) = "idle" /\ Where(k)' = step
      BY <1>4, <2>3
    <3>2. NeighborHolds(k)' <=> NeighborHolds(k)
      BY <2>1, <3>1 DEF NeighborHolds
    <3> QED BY <2>1, <3>1, <3>2 DEF HoldOf, Forgetting
  <2> QED BY <2>2, <2>3
<1> QED BY <1>3, <1>4, <1>5 DEF CoreInv

LEMMA HwCreateCore ==
  ASSUME CoreInv, UNCHANGED routeHolds, NEW t \in Thread, HwCreate(t)
  PROVE  CoreInv'
<1>0. PICK ip, mac : ip = job[t].ip /\ mac = job[t].mac
  OBVIOUS
<1>1. /\ at[t] = "hwCreate" /\ at[t] \in ClientStep /\ t \in Client /\ ip \in NextHop /\ mac \in Mac
      /\ Where(ip) = "hwCreate"
  BY <1>0, ThreadFacts DEF CoreInv, HwCreate, UpdateStep, ClientStep
<1>2. UNCHANGED <<nhMgrVars, nbrVars, l2Vars, panicked>>
  BY DEF HwCreate
<1>3. NhInv'
  BY <1>2, NhSame
<1>4. CASE hwNbr[ip] # None
  <2>1. Moves(t, "idle") /\ UNCHANGED hwNbr
    BY <1>0, <1>4 DEF HwCreate, Moves
  <2>2. /\ ThreadInv'
        /\ \A k \in NextHop : Where(k)' = IF k = ip THEN "idle" ELSE Where(k)
    BY <1>0, <1>1, <2>1, MovesEffect DEF CoreInv
  <2>3. ASSUME NEW k \in NextHop
        PROVE  HoldOf(k)'
    <3>1. HoldOf(k) /\ UNCHANGED <<refCount, routeHolds, hwNbr, nbrDB>>
      BY <1>2, <2>1 DEF CoreInv, nhMgrVars, nbrVars
    <3>2. CASE k # ip
      BY <2>2, <3>1, <3>2, HoldSame
    <3>3. CASE k = ip
      <4>1. Where(k) = "hwCreate" /\ Where(k)' = "idle"
        BY <1>1, <2>2, <3>3
      <4>2. NeighborHolds(k)' <=> NeighborHolds(k)
        BY <3>1, <4>1 DEF NeighborHolds
      <4> QED BY <3>1, <4>1, <4>2 DEF HoldOf, Forgetting
    <3> QED BY <3>2, <3>3
  <2> QED BY <1>2, <1>3, <2>1, <2>2, <2>3, TablesSame DEF CoreInv
<1>5. CASE hwNbr[ip] = None
  <2>1. Moves(t, "takeNextHop") /\ hwNbr' = [hwNbr EXCEPT ![ip] = mac]
    BY <1>0, <1>1, <1>5 DEF HwCreate, Moves, ClientStep, UpdateStep
  <2>2. /\ ThreadInv'
        /\ \A k \in NextHop : Where(k)' = IF k = ip THEN "takeNextHop" ELSE Where(k)
    BY <1>0, <1>1, <2>1, MovesEffect DEF CoreInv
  <2>3. TableType'
    BY <1>1, <1>2, <2>1 DEF CoreInv, TableType, nbrVars
  <2>4. \A k \in NextHop : hwNbr'[k] = IF k = ip THEN mac ELSE hwNbr[k]
    BY <1>1, <2>1 DEF CoreInv, TableType
  <2>5. ASSUME NEW k \in NextHop
        PROVE  HoldOf(k)'
    <3>1. HoldOf(k) /\ UNCHANGED <<refCount, routeHolds, nbrDB>>
      BY <1>2 DEF CoreInv, nhMgrVars, nbrVars
    <3>2. CASE k # ip
      BY <2>2, <2>4, <3>1, <3>2, HoldSame
    <3>3. CASE k = ip
      <4>1. Where(k)' = "takeNextHop"
        BY <2>2, <3>3
      <4>2. ~NeighborHolds(k)' /\ ~NeighborHolds(k)
        BY <1>1, <1>5, <3>3, <4>1 DEF NeighborHolds
      <4> QED BY <3>1, <4>1, <4>2 DEF HoldOf, Forgetting
    <3> QED BY <3>2, <3>3
  <2> QED BY <1>3, <2>2, <2>3, <2>5 DEF CoreInv
<1> QED BY <1>4, <1>5

\* A reference taken on a next hop, for a neighbour or for a route.
LEMMA TakeCounts ==
  ASSUME NhInv, NEW ip \in NextHop, NEW op, CreateNextHop(ip, op)
  PROVE  /\ NhInv'
         /\ refCount'[ip] >= refCount[ip] + 1
         /\ \A k \in NextHop \ {ip} : refCount'[k] = refCount[k]
<1>0. refCount \in [NextHop -> Nat] /\ nextHopDB = {k \in NextHop : refCount[k] > 0}
  BY DEF NhInv
<1>1. ReferencesTaken(op) \in {1, 2}
  BY DEF ReferencesTaken
<1>2. refCount' = [refCount EXCEPT ![ip] =
                     IF ip \in nextHopDB THEN refCount[ip] + ReferencesTaken(op) ELSE 1]
  BY DEF CreateNextHop
<1>3. /\ refCount' \in [NextHop -> Nat]
      /\ refCount'[ip] = IF ip \in nextHopDB THEN refCount[ip] + ReferencesTaken(op) ELSE 1
      /\ \A k \in NextHop \ {ip} : refCount'[k] = refCount[k]
  BY <1>0, <1>1, <1>2
<1>4. refCount'[ip] >= refCount[ip] + 1
  <2>1. CASE ip \in nextHopDB
    BY <1>0, <1>1, <1>3, <2>1
  <2>2. CASE ip \notin nextHopDB
    BY <1>0, <1>3, <2>2
  <2> QED BY <2>1, <2>2
<1>5. nextHopDB' = {k \in NextHop : refCount'[k] > 0}
  <2>1. nextHopDB' = nextHopDB \cup {ip}
    BY DEF CreateNextHop
  <2>2. refCount'[ip] > 0
    BY <1>0, <1>3, <1>4
  <2> QED BY <1>0, <1>3, <2>1, <2>2
<1>6. hwNextHop' = nextHopDB' /\ hwGroup' = {}
  BY DEF CreateNextHop, NhInv
<1> QED BY <1>3, <1>4, <1>5, <1>6 DEF NhInv

\* A reference given back, with no group that could keep the next hop.
LEMMA DropCounts ==
  ASSUME NhInv, NEW ip \in NextHop, refCount[ip] > 0, DeleteNextHop(ip, {})
  PROVE  /\ NhInv'
         /\ ~DeleteNextHopFails(ip, {})
         /\ refCount'[ip] = refCount[ip] - 1
         /\ \A k \in NextHop \ {ip} : refCount'[k] = refCount[k]
<1>0. /\ refCount \in [NextHop -> Nat] /\ nextHopDB = {k \in NextHop : refCount[k] > 0}
      /\ hwGroup = {} /\ hwNextHop = nextHopDB
  BY DEF NhInv
<1>1. ip \in nextHopDB /\ ~NextHopInUse(ip, hwGroup, {})
  BY <1>0 DEF NextHopInUse
<1>2. refCount' = [refCount EXCEPT ![ip] = refCount[ip] - 1]
  BY <1>1 DEF DeleteNextHop
<1>3. /\ refCount' \in [NextHop -> Nat] /\ refCount'[ip] = refCount[ip] - 1
      /\ \A k \in NextHop \ {ip} : refCount'[k] = refCount[k]
  BY <1>0, <1>2
<1>4. DropsNextHop(ip, hwGroup, {}) <=> refCount[ip] = 1
  BY <1>1 DEF DropsNextHop
<1>5. /\ nextHopDB' = IF refCount[ip] = 1 THEN nextHopDB \ {ip} ELSE nextHopDB
      /\ hwNextHop' = IF refCount[ip] = 1 THEN hwNextHop \ {ip} ELSE hwNextHop
      /\ hwGroup' = hwGroup
  BY <1>4 DEF DeleteNextHop
<1>6. nextHopDB' = {k \in NextHop : refCount'[k] > 0}
  BY <1>0, <1>3, <1>5
<1>7. ~DeleteNextHopFails(ip, {})
  BY <1>1 DEF DeleteNextHopFails
<1> QED BY <1>0, <1>3, <1>5, <1>6, <1>7 DEF NhInv

LEMMA TakeNextHopCore ==
  ASSUME CoreInv, UNCHANGED routeHolds, NEW t \in Thread, TakeNextHop(t)
  PROVE  CoreInv'
<1>0. PICK ip : ip = job[t].ip
  OBVIOUS
<1>1. at[t] = "takeNextHop" /\ at[t] \in ClientStep /\ t \in Client /\ ip \in NextHop /\ Where(ip) = "takeNextHop"
  BY <1>0, ThreadFacts DEF CoreInv, TakeNextHop, UpdateStep, ClientStep
<1>2. /\ Moves(t, "storeNew") /\ UNCHANGED <<nbrVars, l2Vars, hwNbr, panicked>>
      /\ CreateNextHop(ip, "NBR_CREATE")
  BY <1>0, <1>1 DEF TakeNextHop, Moves, ClientStep, UpdateStep
<1>3. TableType'
  BY <1>2, TablesSame
<1>4. /\ NhInv' /\ refCount'[ip] >= refCount[ip] + 1
      /\ \A k \in NextHop \ {ip} : refCount'[k] = refCount[k]
      /\ refCount \in [NextHop -> Nat] /\ refCount' \in [NextHop -> Nat]
  BY <1>1, <1>2, TakeCounts DEF CoreInv, NhInv
<1>5. /\ ThreadInv'
      /\ \A k \in NextHop : Where(k)' = IF k = ip THEN "storeNew" ELSE Where(k)
  BY <1>0, <1>1, <1>2, MovesEffect DEF CoreInv
<1>6. ASSUME NEW k \in NextHop
      PROVE  HoldOf(k)'
  <2>1. HoldOf(k) /\ UNCHANGED <<routeHolds, hwNbr, nbrDB>>
    BY <1>2 DEF CoreInv, nbrVars
  <2>2. CASE k # ip
    BY <1>4, <1>5, <2>1, <2>2, HoldSame
  <2>3. CASE k = ip
    <3>1. Where(k) = "takeNextHop" /\ Where(k)' = "storeNew" /\ ~NeighborHolds(k)
      BY <1>1, <1>5, <2>3 DEF NeighborHolds
    <3>2. refCount[k] >= (IF k \in routeHolds THEN 1 ELSE 0)
      BY <1>4, <2>1, <3>1 DEF HoldOf
    <3>3. refCount'[k] >= (IF k \in routeHolds THEN 1 ELSE 0) + 1
      BY <1>4, <2>3, <3>2
    <3>4. refCount'[k] >= (IF k \in routeHolds' THEN 1 ELSE 0) + (IF NeighborHolds(k)' THEN 1 ELSE 0)
      BY <1>4, <2>1, <3>3
    <3> QED BY <2>1, <3>1, <3>4 DEF HoldOf, Forgetting
  <2> QED BY <2>2, <2>3
<1> QED BY <1>3, <1>4, <1>5, <1>6 DEF CoreInv

LEMMA StoreNewCore ==
  ASSUME CoreInv, UNCHANGED routeHolds, NEW t \in Thread, StoreNew(t)
  PROVE  CoreInv'
<1>0. PICK ip, mac : ip = job[t].ip /\ mac = job[t].mac
  OBVIOUS
<1>1. /\ at[t] = "storeNew" /\ at[t] \in ClientStep /\ t \in Client /\ ip \in NextHop
      /\ Where(ip) = "storeNew" /\ mac \in Mac /\ mac # None
  BY <1>0, ThreadFacts, NbrNoneAssumption DEF CoreInv, StoreNew, UpdateStep, ClientStep
<1>2. /\ Moves(t, "link") /\ UNCHANGED <<nhMgrVars, xref, hwNbr>>
      /\ nbrDB' = [nbrDB EXCEPT ![ip] = mac]
      /\ nbrKeys' = Append(nbrKeys, ip)
  BY <1>0, <1>1 DEF StoreNew, Moves, ClientStep, UpdateStep
<1>3. /\ nbrDB' \in [NextHop -> Mac \cup {None}]
      /\ \A k \in NextHop : nbrDB'[k] = IF k = ip THEN mac ELSE nbrDB[k]
  BY <1>1, <1>2 DEF CoreInv, TableType
<1>4. nbrKeys' \in Seq(NextHop)
  BY <1>1, <1>2, AppendNames DEF CoreInv, TableType
<1>5. TableType'
  BY <1>2, <1>3, <1>4 DEF CoreInv, TableType
<1>6. /\ ThreadInv'
      /\ \A k \in NextHop : Where(k)' = IF k = ip THEN "link" ELSE Where(k)
  BY <1>0, <1>1, <1>2, MovesEffect DEF CoreInv
<1>7. ASSUME NEW k \in NextHop
      PROVE  HoldOf(k)'
  <2>1. HoldOf(k) /\ UNCHANGED <<routeHolds, hwNbr, refCount>>
    BY <1>2 DEF CoreInv, nhMgrVars
  <2>2. CASE k # ip
    BY <1>3, <1>6, <2>1, <2>2, HoldSame
  <2>3. CASE k = ip
    <3>1. Where(k) = "storeNew" /\ Where(k)' = "link"
      BY <1>1, <1>6, <2>3
    <3>2. NeighborHolds(k)' <=> NeighborHolds(k)
      BY <2>1, <3>1 DEF NeighborHolds
    <3> QED BY <1>1, <1>3, <2>1, <2>3, <3>1, <3>2 DEF HoldOf, Forgetting
  <2> QED BY <2>2, <2>3
<1> QED BY <1>2, <1>5, <1>6, <1>7, NhSame DEF CoreInv

LEMMA LinkCore ==
  ASSUME CoreInv, UNCHANGED routeHolds, NEW t \in Thread, Link(t)
  PROVE  CoreInv'
<1>0. PICK ip, mac : ip = job[t].ip /\ mac = job[t].mac
  OBVIOUS
<1>1. /\ at[t] = "link" /\ at[t] \in ClientStep /\ t \in Client /\ ip \in NextHop
      /\ Where(ip) = "link" /\ mac \in Mac
  BY <1>0, ThreadFacts DEF CoreInv, Link, UpdateStep, ClientStep
<1>2. /\ Moves(t, "idle") /\ UNCHANGED <<nhMgrVars, nbrDB, nbrKeys, hwNbr>>
      /\ xref' = [xref EXCEPT ![mac] = Append(xref[mac], ip)]
  BY <1>0 DEF Link, Moves
<1>3. Append(xref[mac], ip) \in Seq(NextHop)
  BY <1>1, AppendNames DEF CoreInv, TableType
<1>4. TableType'
  BY <1>1, <1>2, <1>3 DEF CoreInv, TableType
<1>5. /\ ThreadInv'
      /\ \A k \in NextHop : Where(k)' = IF k = ip THEN "idle" ELSE Where(k)
  BY <1>0, <1>1, <1>2, MovesEffect DEF CoreInv
<1>6. ASSUME NEW k \in NextHop
      PROVE  HoldOf(k)'
  <2>1. HoldOf(k) /\ UNCHANGED <<routeHolds, hwNbr, nbrDB, refCount>>
    BY <1>2 DEF CoreInv, nhMgrVars
  <2>2. CASE k # ip
    BY <1>5, <2>1, <2>2, HoldSame
  <2>3. CASE k = ip
    <3>1. Where(k) = "link" /\ Where(k)' = "idle"
      BY <1>1, <1>5, <2>3
    <3>2. NeighborHolds(k)' <=> NeighborHolds(k)
      BY <2>1, <3>1 DEF NeighborHolds
    <3> QED BY <2>1, <3>1, <3>2 DEF HoldOf, Forgetting
  <2> QED BY <2>2, <2>3
<1> QED BY <1>2, <1>4, <1>5, <1>6, NhSame DEF CoreInv

LEMMA UpdNextHopCore ==
  ASSUME CoreInv, UNCHANGED routeHolds, NEW t \in Thread, UpdNextHop(t)
  PROVE  CoreInv'
<1>0. PICK ip : ip = job[t].ip
  OBVIOUS
<1>1. at[t] = "updNextHop" /\ at[t] \in ClientStep /\ ip \in NextHop /\ (t \in Client => Where(ip) = "updNextHop")
  BY <1>0, ThreadFacts DEF CoreInv, UpdNextHop, ClientStep
<1>2. UNCHANGED <<nhMgrVars, nbrVars, l2Vars, hwNbr, panicked>>
  BY DEF UpdNextHop
<1>3. PICK to \in {"hwUpdate", "idle"} : Moves(t, to)
  BY <1>1 DEF UpdNextHop, Moves, ClientStep, UpdateStep
<1>4. /\ ThreadInv'
      /\ \A k \in NextHop : Where(k)' = IF t \in Client /\ ip = k THEN to ELSE Where(k)
  BY <1>0, <1>1, <1>3, MovesEffect DEF CoreInv
<1>5. ASSUME NEW k \in NextHop
      PROVE  HoldOf(k)'
  <2>1. HoldOf(k) /\ UNCHANGED <<refCount, routeHolds, hwNbr, nbrDB>>
    BY <1>2 DEF CoreInv, nhMgrVars, nbrVars
  <2>2. CASE ~(t \in Client /\ ip = k)
    BY <1>4, <2>1, <2>2, HoldSame
  <2>3. CASE t \in Client /\ ip = k
    <3>1. Where(k) = "updNextHop" /\ Where(k)' \in {"hwUpdate", "idle"}
      BY <1>1, <1>4, <2>3
    <3>2. NeighborHolds(k)' <=> NeighborHolds(k)
      BY <2>1, <3>1 DEF NeighborHolds
    <3> QED BY <2>1, <3>1, <3>2 DEF HoldOf, Forgetting
  <2> QED BY <2>2, <2>3
<1> QED BY <1>2, <1>4, <1>5, TablesSame, NhSame DEF CoreInv

LEMMA HwUpdateCore ==
  ASSUME CoreInv, UNCHANGED routeHolds, NEW t \in Thread, HwUpdate(t)
  PROVE  CoreInv'
<1>0. PICK ip, mac : ip = job[t].ip /\ mac = job[t].mac
  OBVIOUS
<1>1. /\ at[t] = "hwUpdate" /\ at[t] \in ClientStep /\ ip \in NextHop /\ (t \in Client => Where(ip) = "hwUpdate")
      /\ mac \in Mac /\ mac # None
  BY <1>0, ThreadFacts, NbrNoneAssumption DEF CoreInv, HwUpdate, ClientStep
<1>2. UNCHANGED <<nhMgrVars, nbrVars, l2Vars, panicked>>
  BY DEF HwUpdate
<1>3. PICK to \in {"storeUpdated", "idle"} : Moves(t, to)
  BY <1>1 DEF HwUpdate, Moves, ClientStep, UpdateStep
<1>4. /\ ThreadInv'
      /\ \A k \in NextHop : Where(k)' = IF t \in Client /\ ip = k THEN to ELSE Where(k)
  BY <1>0, <1>1, <1>3, MovesEffect DEF CoreInv
<1>5. /\ hwNbr' \in [NextHop -> Mac \cup {None}]
      /\ \A k \in NextHop : hwNbr'[k] = None <=> hwNbr[k] = None
  <2>0. hwNbr \in [NextHop -> Mac \cup {None}]
    BY DEF CoreInv, TableType
  <2>1. CASE hwNbr[ip] = None
    BY <1>0, <2>0, <2>1 DEF HwUpdate
  <2>2. CASE hwNbr[ip] # None
    <3>1. hwNbr' = [hwNbr EXCEPT ![ip] = mac]
      BY <1>0, <2>2 DEF HwUpdate
    <3> QED BY <1>1, <2>0, <2>2, <3>1
  <2> QED BY <2>1, <2>2
<1>6. TableType'
  BY <1>2, <1>5 DEF CoreInv, TableType, nbrVars
<1>7. ASSUME NEW k \in NextHop
      PROVE  HoldOf(k)'
  <2>1. HoldOf(k) /\ UNCHANGED <<refCount, routeHolds, nbrDB>> /\ (hwNbr'[k] = None <=> hwNbr[k] = None)
    BY <1>2, <1>5 DEF CoreInv, nhMgrVars, nbrVars
  <2>2. CASE ~(t \in Client /\ ip = k)
    BY <1>4, <2>1, <2>2, HoldSame
  <2>3. CASE t \in Client /\ ip = k
    <3>1. Where(k) = "hwUpdate" /\ Where(k)' \in {"storeUpdated", "idle"}
      BY <1>1, <1>4, <2>3
    <3>2. NeighborHolds(k)' <=> NeighborHolds(k)
      BY <2>1, <3>1 DEF NeighborHolds
    <3> QED BY <2>1, <3>1, <3>2 DEF HoldOf, Forgetting
  <2> QED BY <2>2, <2>3
<1> QED BY <1>2, <1>4, <1>6, <1>7, NhSame DEF CoreInv

LEMMA StoreUpdatedCore ==
  ASSUME CoreInv, UNCHANGED routeHolds, NEW t \in Thread, StoreUpdated(t)
  PROVE  CoreInv'
<1>0. PICK ip, mac : ip = job[t].ip /\ mac = job[t].mac
  OBVIOUS
<1>1. /\ at[t] = "storeUpdated" /\ at[t] \in ClientStep /\ ip \in NextHop
      /\ t \in Client => Where(ip) = "storeUpdated"
      /\ mac \in Mac /\ mac # None
  BY <1>0, ThreadFacts, NbrNoneAssumption DEF CoreInv, StoreUpdated, ClientStep
<1>2. /\ Moves(t, "idle") /\ UNCHANGED <<nhMgrVars, nbrKeys, xref, hwNbr>>
      /\ nbrDB' = [nbrDB EXCEPT ![ip] = mac]
  BY <1>0 DEF StoreUpdated, Moves
<1>3. /\ nbrDB' \in [NextHop -> Mac \cup {None}]
      /\ \A k \in NextHop : nbrDB'[k] = IF k = ip THEN mac ELSE nbrDB[k]
  BY <1>1, <1>2 DEF CoreInv, TableType
<1>4. TableType'
  BY <1>2, <1>3 DEF CoreInv, TableType
<1>5. /\ ThreadInv'
      /\ \A k \in NextHop : Where(k)' = IF t \in Client /\ ip = k THEN "idle" ELSE Where(k)
  BY <1>0, <1>1, <1>2, MovesEffect DEF CoreInv
<1>6. ASSUME NEW k \in NextHop
      PROVE  HoldOf(k)'
  <2>1. /\ HoldOf(k) /\ UNCHANGED <<refCount, routeHolds, hwNbr>>
        /\ nbrDB[k] # None => nbrDB'[k] # None
    BY <1>1, <1>2, <1>3 DEF CoreInv, nhMgrVars
  <2>2. CASE ~(t \in Client /\ ip = k)
    BY <1>5, <2>1, <2>2, HoldSame
  <2>3. CASE t \in Client /\ ip = k
    <3>1. Where(k) = "storeUpdated" /\ Where(k)' = "idle"
      BY <1>1, <1>5, <2>3
    <3>2. NeighborHolds(k)' <=> NeighborHolds(k)
      BY <2>1, <3>1 DEF NeighborHolds
    <3> QED BY <2>1, <3>1, <3>2 DEF HoldOf, Forgetting
  <2> QED BY <2>2, <2>3
<1> QED BY <1>2, <1>4, <1>5, <1>6, NhSame DEF CoreInv

LEMMA HwDeleteCore ==
  ASSUME CoreInv, UNCHANGED routeHolds, NEW t \in Thread, HwDelete(t)
  PROVE  CoreInv'
<1>0. PICK ip : ip = job[t].ip
  OBVIOUS
<1>1. at[t] = "hwDelete" /\ at[t] \in ClientStep /\ t \in Client /\ ip \in NextHop /\ Where(ip) = "hwDelete"
  BY <1>0, ThreadFacts DEF CoreInv, HwDelete, UpdateStep, ClientStep
<1>2. /\ UNCHANGED <<nhMgrVars, nbrVars, l2Vars, panicked>>
      /\ hwNbr' = [hwNbr EXCEPT ![ip] = None]
      /\ Moves(t, IF hwNbr[ip] = None THEN "idle" ELSE "dropNextHop")
  BY <1>0, <1>1 DEF HwDelete, Moves, ClientStep, UpdateStep
<1>3. /\ hwNbr' \in [NextHop -> Mac \cup {None}]
      /\ \A k \in NextHop : hwNbr'[k] = IF k = ip THEN None ELSE hwNbr[k]
  BY <1>1, <1>2 DEF CoreInv, TableType
<1>4. TableType'
  BY <1>2, <1>3 DEF CoreInv, TableType, nbrVars
<1>5. /\ ThreadInv'
      /\ \A k \in NextHop : Where(k)' = IF k = ip
                                        THEN IF hwNbr[ip] = None THEN "idle" ELSE "dropNextHop"
                                        ELSE Where(k)
  BY <1>0, <1>1, <1>2, MovesEffect DEF CoreInv
<1>6. ASSUME NEW k \in NextHop
      PROVE  HoldOf(k)'
  <2>1. HoldOf(k) /\ UNCHANGED <<refCount, routeHolds, nbrDB>>
    BY <1>2 DEF CoreInv, nhMgrVars, nbrVars
  <2>2. CASE k # ip
    BY <1>3, <1>5, <2>1, <2>2, HoldSame
  <2>3. CASE k = ip
    <3>1. /\ Where(k) = "hwDelete" /\ hwNbr'[k] = None
          /\ Where(k)' = IF hwNbr[k] = None THEN "idle" ELSE "dropNextHop"
      BY <1>1, <1>3, <1>5, <2>3
    <3>2. NeighborHolds(k)' <=> NeighborHolds(k)
      BY <3>1 DEF NeighborHolds
    <3> QED BY <2>1, <3>1, <3>2 DEF HoldOf, Forgetting
  <2> QED BY <2>2, <2>3
<1> QED BY <1>2, <1>4, <1>5, <1>6, NhSame DEF CoreInv

LEMMA DropNextHopCore ==
  ASSUME CoreInv, UNCHANGED routeHolds, NEW t \in Thread, DropNextHop(t, {})
  PROVE  CoreInv'
<1>0. PICK ip : ip = job[t].ip
  OBVIOUS
<1>1. at[t] = "dropNextHop" /\ at[t] \in ClientStep /\ t \in Client /\ ip \in NextHop /\ Where(ip) = "dropNextHop"
  BY <1>0, ThreadFacts DEF CoreInv, DropNextHop, UpdateStep, ClientStep
<1>2. DeleteNextHop(ip, {}) /\ UNCHANGED <<nbrVars, l2Vars, hwNbr, panicked>>
  BY <1>0 DEF DropNextHop
<1>3. refCount \in [NextHop -> Nat] /\ HoldOf(ip) /\ NeighborHolds(ip)
  BY <1>1 DEF CoreInv, NhInv, NeighborHolds
<1>4. refCount[ip] >= (IF ip \in routeHolds THEN 1 ELSE 0) + 1 /\ hwNbr[ip] = None
  BY <1>1, <1>3 DEF HoldOf
<1>5. /\ NhInv' /\ ~DeleteNextHopFails(ip, {})
      /\ refCount'[ip] = refCount[ip] - 1
      /\ \A k \in NextHop \ {ip} : refCount'[k] = refCount[k]
  <2>1. refCount[ip] > 0
    BY <1>1, <1>3, <1>4
  <2> QED BY <1>1, <1>2, <2>1, DropCounts DEF CoreInv
<1>6. Moves(t, "forget")
  BY <1>0, <1>1, <1>5 DEF DropNextHop, Moves, ClientStep, UpdateStep
<1>7. /\ ThreadInv'
      /\ \A k \in NextHop : Where(k)' = IF k = ip THEN "forget" ELSE Where(k)
  BY <1>0, <1>1, <1>6, MovesEffect DEF CoreInv
<1>8. ASSUME NEW k \in NextHop
      PROVE  HoldOf(k)'
  <2>1. HoldOf(k) /\ UNCHANGED <<routeHolds, hwNbr, nbrDB>>
    BY <1>2 DEF CoreInv, nbrVars
  <2>2. CASE k # ip
    BY <1>5, <1>7, <2>1, <2>2, HoldSame
  <2>3. CASE k = ip
    <3>1. Where(k)' = "forget" /\ hwNbr'[k] = None
      BY <1>4, <1>7, <2>1, <2>3
    <3>2. ~NeighborHolds(k)'
      BY <3>1 DEF NeighborHolds
    <3>3. refCount'[k] >= (IF k \in routeHolds THEN 1 ELSE 0)
      BY <1>1, <1>3, <1>4, <1>5, <2>3
    <3>4. refCount'[k] >= (IF k \in routeHolds' THEN 1 ELSE 0) + (IF NeighborHolds(k)' THEN 1 ELSE 0)
      BY <2>1, <3>2, <3>3
    <3> QED BY <3>1, <3>4 DEF HoldOf, Forgetting
  <2> QED BY <2>2, <2>3
<1> QED BY <1>2, <1>5, <1>7, <1>8, TablesSame DEF CoreInv

\* The steps of UpdateNbrDb, after the ASIC and the next hop let go.
LEMMA ForgettingCore ==
  ASSUME CoreInv, UNCHANGED <<routeHolds, nhMgrVars, hwNbr>>, TableType',
         NEW t \in Thread, at[t] \in {"forget"} \cup Forgetting,
         NEW to \in Forgetting \cup {"idle"}, Moves(t, to),
         \A k \in NextHop : k # job[t].ip => nbrDB'[k] = nbrDB[k]
  PROVE  CoreInv'
<1>0. PICK ip : ip = job[t].ip
  OBVIOUS
<1>1. at[t] \in ClientStep /\ at[t] \notin UpdateStep
  BY DEF ClientStep, Forgetting, UpdateStep
<1>2. t \in Client /\ ip \in NextHop /\ Where(ip) = at[t]
  BY <1>0, <1>1, ThreadFacts DEF CoreInv
<1>3. /\ ThreadInv'
      /\ \A k \in NextHop : Where(k)' = IF k = ip THEN to ELSE Where(k)
  BY <1>0, <1>1, <1>2, MovesEffect DEF CoreInv
<1>4. ASSUME NEW k \in NextHop
      PROVE  HoldOf(k)'
  <2>1. HoldOf(k) /\ UNCHANGED <<refCount, routeHolds, hwNbr>>
    BY DEF CoreInv, nhMgrVars
  <2>2. CASE k # ip
    BY <1>0, <1>3, <2>1, <2>2, HoldSame
  <2>3. CASE k = ip
    <3>1. Where(k) \in {"forget"} \cup Forgetting /\ Where(k)' \in Forgetting \cup {"idle"}
      BY <1>2, <1>3, <2>3
    <3>2. hwNbr[k] = None
      BY <2>1, <3>1 DEF HoldOf
    <3>3. ~NeighborHolds(k)' /\ ~NeighborHolds(k)
      BY <2>1, <3>1, <3>2 DEF NeighborHolds, Forgetting
    <3> QED BY <2>1, <3>2, <3>3 DEF HoldOf
  <2> QED BY <2>2, <2>3
<1> QED BY <1>3, <1>4, NhSame DEF CoreInv

LEMMA ForgetCore ==
  ASSUME CoreInv, UNCHANGED routeHolds, NEW t \in Thread, Forget(t)
  PROVE  CoreInv'
<1>1. /\ at[t] = "forget" /\ Moves(t, "unlist")
      /\ UNCHANGED <<nhMgrVars, nbrKeys, xref, hwNbr>>
      /\ nbrDB' = [nbrDB EXCEPT ![job[t].ip] = None]
  BY DEF Forget, Moves, ClientStep, UpdateStep, Forgetting
<1>2. \A k \in NextHop : k # job[t].ip => nbrDB'[k] = nbrDB[k]
  BY <1>1 DEF CoreInv, TableType
<1>3. TableType'
  BY <1>1 DEF CoreInv, TableType
<1> QED BY <1>1, <1>2, <1>3, ForgettingCore DEF Forgetting

LEMMA UnlistCore ==
  ASSUME CoreInv, UNCHANGED routeHolds, NEW t \in Thread, Unlist(t)
  PROVE  CoreInv' /\ nbrDB' = nbrDB /\ nbrKeys' = nbrKeys
<1>0. PICK mac, rest : mac = job[t].mac /\ rest = RemoveIp(xref[mac], job[t].ip)
  OBVIOUS
<1>1. at[t] = "unlist" /\ UNCHANGED <<nhMgrVars, nbrDB, nbrKeys, hwNbr>>
  BY DEF Unlist
<1>2. mac \in Mac /\ xref[mac] \in Seq(NextHop)
  BY <1>0, <1>1, ThreadFacts DEF CoreInv, TableType, ClientStep, Forgetting
<1>3. CASE ~rest.ok
  <2>1. UNCHANGED <<xref, at, job, todo>>
    BY <1>0, <1>3 DEF Unlist, threadVars
  <2>2. ThreadInv' /\ \A k \in NextHop : Where(k)' = Where(k)
    BY <2>1 DEF CoreInv, ThreadInv, InCall, Where
  <2>3. TableType'
    BY <1>1, <2>1 DEF CoreInv, TableType
  <2>4. \A k \in NextHop : HoldOf(k)'
    BY <1>1, <2>2, HoldSame DEF CoreInv, nhMgrVars
  <2> QED BY <1>1, <2>2, <2>3, <2>4, NhSame DEF CoreInv
<1>4. CASE rest.ok
  <2>1. PICK list : list = SubSeq(rest.array, 1, rest.len)
    OBVIOUS
  <2>2. xref' = [xref EXCEPT ![mac] = list]
    BY <1>0, <1>4, <2>1 DEF Unlist
  <2>3. list \in Seq(NextHop)
    <3>1. PICK n \in Nat : n = Len(xref[mac]) /\ rest \in Removing(n, NextHop)
      BY <1>0, <1>2, RemoveIpType
    <3>2. rest.array \in [1 .. n -> NextHop] /\ rest.len \in 0 .. n
      BY <3>1 DEF Removing
    <3>3. rest.array \in Seq(NextHop) /\ Len(rest.array) = n
      BY <3>2
    <3> QED BY <2>1, <3>2, <3>3, SubSeqProperties
  <2>4. TableType'
    BY <1>1, <1>2, <2>2, <2>3 DEF CoreInv, TableType
  <2>5. PICK to \in {"dropAdj", "unkey"} : Goes(t, to)
    BY <1>0, <1>4 DEF Unlist
  <2>6. Moves(t, to) /\ to \in Forgetting
    BY <1>1, <2>5 DEF Moves, ClientStep, UpdateStep, Forgetting
  <2> QED BY <1>1, <2>4, <2>6, ForgettingCore DEF Forgetting
<1> QED BY <1>1, <1>3, <1>4

LEMMA DropAdjCore ==
  ASSUME CoreInv, UNCHANGED routeHolds, NEW t \in Thread, DropAdj(t)
  PROVE  CoreInv'
<1>1. at[t] = "dropAdj" /\ Moves(t, "unlink") /\ UNCHANGED <<nhMgrVars, nbrVars, hwNbr>>
  BY DEF DropAdj, Moves, ClientStep, UpdateStep, Forgetting
<1> QED BY <1>1, TablesSame, ForgettingCore DEF Forgetting, nbrVars

LEMMA UnlinkCore ==
  ASSUME CoreInv, UNCHANGED routeHolds, NEW t \in Thread, Unlink(t)
  PROVE  CoreInv'
<1>1. /\ at[t] = "unlink" /\ Moves(t, "unkey")
      /\ UNCHANGED <<nhMgrVars, nbrDB, nbrKeys, hwNbr>>
      /\ xref' = [xref EXCEPT ![job[t].mac] = <<>>]
  BY DEF Unlink, Moves, ClientStep, UpdateStep, Forgetting
<1>2. <<>> \in Seq(NextHop)
  OBVIOUS
<1>3. TableType'
  BY <1>1, <1>2 DEF CoreInv, TableType
<1> QED BY <1>1, <1>3, ForgettingCore DEF Forgetting

LEMMA UnkeyCore ==
  ASSUME CoreInv, UNCHANGED routeHolds, NEW t \in Thread, Unkey(t)
  PROVE  CoreInv'
<1>1. /\ at[t] = "unkey" /\ Moves(t, "idle")
      /\ UNCHANGED <<nhMgrVars, nbrDB, xref, hwNbr>>
      /\ nbrKeys' = RemoveFirst(nbrKeys, job[t].ip)
  BY DEF Unkey, Moves
<1>2. nbrKeys' \in Seq(NextHop)
  BY <1>1, RemoveFirstNames DEF CoreInv, TableType
<1>3. TableType'
  BY <1>1, <1>2 DEF CoreInv, TableType
<1> QED BY <1>1, <1>3, ForgettingCore DEF Forgetting

\* The callback thread moves between its own steps: no address is elsewhere.
LEMMA CallbackEffect ==
  ASSUME ThreadInv, NEW step \in {"updNextHop"} \cup FdbStep, at' = [at EXCEPT !["fdb"] = step],
         NEW j \in Job \cup {None}, job' = [job EXCEPT !["fdb"] = j],
         step # "idle" => j \in Job, step = "updNextHop" => j.ip \in NextHop,
         todo' \in Seq(NextHop)
  PROVE  ThreadInv' /\ \A ip \in NextHop : Where(ip)' = Where(ip)
<1>0. /\ at \in [Thread -> ClientStep \cup FdbStep] /\ job \in [Thread -> Job \cup {None}]
      /\ "fdb" \in Thread
  BY DEF ThreadInv, Thread
<1>1. /\ at' \in [Thread -> ClientStep \cup FdbStep] /\ job' \in [Thread -> Job \cup {None}]
      /\ at'["fdb"] = step /\ job'["fdb"] = j
      /\ \A u \in Thread \ {"fdb"} : at'[u] = at[u] /\ job'[u] = job[u]
  BY <1>0 DEF ClientStep
<1>2. \A c \in Client : at'[c] = at[c] /\ job'[c] = job[c]
  BY <1>1, FdbAssumption DEF Thread
<1>3. \A c \in Client : InCall(c)' <=> InCall(c)
  BY <1>2 DEF InCall
<1>4. at'["fdb"] \in UpdateStep => InCall("fdb")'
  BY <1>1 DEF InCall, UpdateStep, FdbStep
<1>5. at'["fdb"] \in UpdateStep \cup FdbStep
  BY <1>1 DEF UpdateStep
<1>6. ThreadInv'
  BY <1>1, <1>2, <1>3, <1>4, <1>5 DEF ThreadInv
<1>7. \A ip \in NextHop : Owner[ip] \in Client
  BY OwnerAssumption
<1> QED BY <1>2, <1>6, <1>7 DEF Where

LEMMA CallbackHolds ==
  ASSUME CoreInv, UNCHANGED <<routeHolds, nhMgrVars, nbrVars, hwNbr>>, ThreadInv',
         \A ip \in NextHop : Where(ip)' = Where(ip)
  PROVE  CoreInv'
<1>1. ASSUME NEW ip \in NextHop
      PROVE  HoldOf(ip)'
  BY HoldSame DEF CoreInv, nhMgrVars, nbrVars
<1> QED BY <1>1, NhSame, TablesSame DEF CoreInv

\* Nothing that these steps of the callback thread change is in the tables.
Callback ==
  \/ \E mac \in Mac : MacAged(mac) \/ \E port \in Port : MacLearned(mac, port)
  \/ ReadList
  \/ AgedEntry
  \/ MoveNext
  \/ MoveDone

LEMMA CallbackThreads ==
  ASSUME CoreInv, Callback
  PROVE  ThreadInv' /\ \A ip \in NextHop : Where(ip)' = Where(ip)
<1>0. /\ todo \in Seq(NextHop) /\ xref \in [Mac -> Seq(NextHop)]
      /\ at["fdb"] # "idle" => job["fdb"] \in Job
      /\ job = [job EXCEPT !["fdb"] = job["fdb"]]
      /\ job["fdb"] \in Job \cup {None}
  BY DEF CoreInv, TableType, ThreadInv, Thread
<1>1. CASE UNCHANGED threadVars
  BY <1>1 DEF CoreInv, ThreadInv, InCall, Where, threadVars
<1>2. ASSUME NEW mac \in Mac, NEW to \in {"list", "mark", "drop"}, FdbGoes(to, mac)
      PROVE  ThreadInv' /\ \A ip \in NextHop : Where(ip)' = Where(ip)
  <2>1. [ip |-> None, mac |-> mac] \in Job
    BY DEF Job
  <2>2. to \in FdbStep /\ to # "idle" /\ to # "updNextHop"
    BY DEF FdbStep
  <2> QED BY <1>0, <1>2, <2>1, <2>2, CallbackEffect DEF FdbGoes, CoreInv
<1>3. CASE FdbReturns
  <2>1. "idle" \in FdbStep /\ "idle" # "updNextHop" /\ None \in Job \cup {None}
    BY DEF FdbStep
  <2> QED BY <1>0, <1>3, <2>1, CallbackEffect DEF FdbReturns, CoreInv
<1>4. CASE \E mac \in Mac : MacAged(mac) \/ \E port \in Port : MacLearned(mac, port)
  BY <1>1, <1>2, <1>4 DEF MacAged, MacLearned
<1>5. CASE ReadList
  <2>1. /\ at' = [at EXCEPT !["fdb"] = "move"] /\ job' = job
        /\ at["fdb"] = "list" /\ todo' = xref[job["fdb"].mac]
    BY <1>5 DEF ReadList
  <2>2. job["fdb"] \in Job /\ todo' \in Seq(NextHop)
    BY <1>0, <2>1 DEF Job
  <2>3. "move" \in FdbStep /\ "move" # "updNextHop"
    BY DEF FdbStep
  <2> QED BY <1>0, <2>1, <2>2, <2>3, CallbackEffect DEF CoreInv
<1>6. CASE AgedEntry
  BY <1>3, <1>6 DEF AgedEntry
<1>7. CASE MoveNext
  <2>1. PICK ip : ip = Head(todo)
    OBVIOUS
  <2>2. PICK step \in {"move", "updNextHop"} :
          /\ at' = [at EXCEPT !["fdb"] = step]
          /\ at["fdb"] = "move" /\ todo # <<>> /\ todo' = Tail(todo)
          /\ job' = [job EXCEPT !["fdb"] = [job["fdb"] EXCEPT !.ip = ip]]
    BY <1>7, <2>1 DEF MoveNext
  <2>3. ip \in NextHop /\ todo' \in Seq(NextHop)
    BY <1>0, <2>1, <2>2, HeadTailProperties
  <2>4. PICK j \in Job : j = [job["fdb"] EXCEPT !.ip = ip] /\ j.ip = ip
    <3>1. job["fdb"] \in [ip : NextHop \cup {None}, mac : Mac]
      BY <1>0, <2>2 DEF Job
    <3>2. [job["fdb"] EXCEPT !.ip = ip] \in Job /\ [job["fdb"] EXCEPT !.ip = ip].ip = ip
      BY <2>3, <3>1 DEF Job
    <3> QED BY <3>2
  <2>5. step \in {"updNextHop"} \cup FdbStep
    BY <2>2 DEF FdbStep
  <2> QED BY <2>2, <2>3, <2>4, <2>5, CallbackEffect DEF CoreInv
<1>8. CASE MoveDone
  BY <1>3, <1>8 DEF MoveDone
<1> QED BY <1>4, <1>5, <1>6, <1>7, <1>8 DEF Callback

LEMMA CallbackCore ==
  ASSUME CoreInv, UNCHANGED routeHolds, Callback
  PROVE  CoreInv' /\ UNCHANGED <<nbrVars, hwNbr>> /\ \A ip \in NextHop : Where(ip)' = Where(ip)
<1>1. UNCHANGED <<nhMgrVars, nbrVars, hwNbr>>
  BY DEF Callback, MacAged, MacLearned, ReadList, AgedEntry, MoveNext, MoveDone
<1> QED BY <1>1, CallbackThreads, CallbackHolds

LEMMA RouteCore ==
  ASSUME CoreInv, NEW ip \in NextHop, RouteTakes(ip) \/ RouteReleases(ip)
  PROVE  CoreInv' /\ UNCHANGED nbrMgrVars /\ \A k \in NextHop : Where(k)' = Where(k)
<1>1. UNCHANGED nbrMgrVars
  BY DEF RouteTakes, RouteReleases
<1>2. UNCHANGED <<nbrVars, l2Vars, hwNbr, threadVars>>
  BY <1>1 DEF nbrMgrVars
<1>3. ThreadInv' /\ \A k \in NextHop : Where(k)' = Where(k)
  BY <1>2 DEF CoreInv, ThreadInv, InCall, Where, threadVars
<1>4. refCount \in [NextHop -> Nat] /\ \A k \in NextHop : HoldOf(k)
  BY DEF CoreInv, NhInv
<1>5. \A k \in NextHop : NeighborHolds(k)' <=> NeighborHolds(k)
  BY <1>2, <1>3 DEF NeighborHolds
<1>6. /\ NhInv' /\ routeHolds' \subseteq NextHop
      /\ \A k \in NextHop \ {ip} : /\ refCount'[k] = refCount[k]
                                   /\ k \in routeHolds' <=> k \in routeHolds
      /\ refCount'[ip] >= (IF ip \in routeHolds' THEN 1 ELSE 0) + (IF NeighborHolds(ip) THEN 1 ELSE 0)
  <2>0. routeHolds \subseteq NextHop
    BY DEF CoreInv, TableType
  <2>1. CASE RouteTakes(ip)
    <3>1. /\ ip \notin routeHolds /\ routeHolds' = routeHolds \cup {ip}
          /\ CreateNextHop(ip, "RT_NBR_CREATE")
      BY <2>1 DEF RouteTakes
    <3>2. /\ NhInv' /\ refCount'[ip] >= refCount[ip] + 1
          /\ \A k \in NextHop \ {ip} : refCount'[k] = refCount[k]
          /\ refCount' \in [NextHop -> Nat]
      BY <3>1, TakeCounts DEF CoreInv, NhInv
    <3>3. refCount[ip] >= (IF NeighborHolds(ip) THEN 1 ELSE 0)
      BY <1>4, <3>1 DEF HoldOf
    <3>4. refCount'[ip] >= 1 + (IF NeighborHolds(ip) THEN 1 ELSE 0)
      BY <1>4, <3>2, <3>3
    <3> QED BY <2>0, <3>1, <3>2, <3>4
  <2>2. CASE RouteReleases(ip)
    <3>1. ip \in routeHolds /\ routeHolds' = routeHolds \ {ip} /\ DeleteNextHop(ip, {})
      BY <2>2 DEF RouteReleases
    <3>2. refCount[ip] >= 1 + (IF NeighborHolds(ip) THEN 1 ELSE 0)
      BY <1>4, <3>1 DEF HoldOf
    <3>3. refCount[ip] > 0
      BY <1>4, <3>2
    <3>4. /\ NhInv' /\ refCount'[ip] = refCount[ip] - 1
          /\ \A k \in NextHop \ {ip} : refCount'[k] = refCount[k]
      BY <3>1, <3>3, DropCounts DEF CoreInv
    <3>5. refCount'[ip] >= (IF NeighborHolds(ip) THEN 1 ELSE 0)
      BY <1>4, <3>2, <3>4
    <3> QED BY <2>0, <3>1, <3>4, <3>5
  <2> QED BY <2>1, <2>2
<1>7. TableType'
  BY <1>2, <1>6 DEF CoreInv, TableType, nbrVars
<1>8. ASSUME NEW k \in NextHop
      PROVE  HoldOf(k)'
  <2>1. CASE k # ip
    BY <1>2, <1>3, <1>4, <1>6, <2>1, HoldSame DEF nbrVars
  <2>2. CASE k = ip
    <3>1. refCount'[k] >= (IF k \in routeHolds' THEN 1 ELSE 0) + (IF NeighborHolds(k)' THEN 1 ELSE 0)
      BY <1>5, <1>6, <2>2
    <3> QED BY <1>2, <1>3, <1>4, <3>1 DEF HoldOf, nbrVars
  <2> QED BY <2>1, <2>2
<1> QED BY <1>1, <1>3, <1>6, <1>7, <1>8 DEF CoreInv

LEMMA InitCore == Init => CoreInv
<1> SUFFICES ASSUME Init
             PROVE  CoreInv
  OBVIOUS
<1>1. /\ refCount = [ip \in NextHop |-> 0] /\ nextHopDB = {} /\ hwNextHop = {} /\ hwGroup = {}
      /\ nbrDB = [ip \in NextHop |-> None] /\ nbrKeys = <<>> /\ xref = [mac \in Mac |-> <<>>]
      /\ hwNbr = [ip \in NextHop |-> None] /\ routeHolds = {}
      /\ at = [t \in Thread |-> "idle"] /\ job = [t \in Thread |-> None] /\ todo = <<>>
  BY DEF Init, NHMgrInit, NbrMgrInit
<1>2. \A S : <<>> \in Seq(S)
  OBVIOUS
<1>3. TableType
  BY <1>1, <1>2 DEF TableType
<1>4. \A ip \in NextHop : Where(ip) = "idle"
  BY <1>1, OwnerAssumption DEF Where, Thread
<1>5. ThreadInv
  BY <1>1, <1>2 DEF ThreadInv, Thread, UpdateStep, FdbStep, ClientStep
<1>6. NhInv
  BY <1>1 DEF NhInv
<1>7. \A ip \in NextHop : HoldOf(ip)
  BY <1>1, <1>4 DEF HoldOf, NeighborHolds, Forgetting
<1> QED BY <1>3, <1>5, <1>6, <1>7 DEF CoreInv

LEMMA NextCore == CoreInv /\ [Next]_vars => CoreInv'
<1> SUFFICES ASSUME CoreInv, [Next]_vars
             PROVE  CoreInv'
  OBVIOUS
<1>1. CASE UNCHANGED vars
  <2>1. UNCHANGED <<nhMgrVars, nbrVars, hwNbr, threadVars, routeHolds>>
    BY <1>1 DEF vars, nbrMgrVars
  <2>2. ThreadInv' /\ \A k \in NextHop : Where(k)' = Where(k)
    BY <2>1 DEF CoreInv, ThreadInv, InCall, Where, threadVars
  <2> QED BY <2>1, <2>2, CallbackHolds
<1>2. CASE Calls /\ UNCHANGED routeHolds
  BY <1>2, StartCore DEF Calls
<1>3. CASE Callback /\ UNCHANGED routeHolds
  BY <1>3, CallbackCore
<1>4. CASE Steps /\ ~Callback /\ UNCHANGED routeHolds
  BY <1>4, HwCreateCore, TakeNextHopCore, StoreNewCore, LinkCore, UpdNextHopCore, HwUpdateCore,
     StoreUpdatedCore, HwDeleteCore, DropNextHopCore, ForgetCore, UnlistCore, DropAdjCore,
     UnlinkCore, UnkeyCore DEF Steps, Callback
<1>5. CASE \E ip \in Routed : RouteTakes(ip) \/ RouteReleases(ip)
  BY <1>5, RouteCore, RoutedAssumption
<1>6. Callbacks => Callback
  BY SeenAssumption DEF Callbacks, Callback
<1> QED BY <1>1, <1>2, <1>3, <1>4, <1>5, <1>6 DEF Next

LEMMA CoreInvariance == Spec => []CoreInv
<1> QED BY InitCore, NextCore, PTL DEF Spec

-----------------------------------------------------------------------------
(***************************************************************************)
(* The key list.                                                           *)
(***************************************************************************)
LEMMA StartKeys ==
  ASSUME CoreInv, KeysInv, NEW ip \in NextHop, NEW mac \in MacsOf[ip],
         \/ CreateIPNeighbor(ip, mac)
         \/ UpdateIPNeighbor(ip, mac)
         \/ DeleteIPNeighbor(ip)
  PROVE  KeysInv'
<1>1. PICK step \in {"hwCreate", "updNextHop", "hwDelete"}, m \in Mac :
        /\ Begins(Owner[ip], step, ip, m)
        /\ step = "hwCreate" => nbrDB[ip] = None
  <2>1. mac \in Mac
    BY MacsOfAssumption
  <2>2. nbrDB[ip] # None => nbrDB[ip] \in Mac
    BY DEF CoreInv, TableType
  <2> QED BY <2>1, <2>2 DEF CreateIPNeighbor, UpdateIPNeighbor, DeleteIPNeighbor
<1>2. UNCHANGED <<nbrDB, nbrKeys, hwNbr>>
  BY DEF CreateIPNeighbor, UpdateIPNeighbor, DeleteIPNeighbor, nbrVars
<1>3. /\ Where(ip) = "idle"
      /\ \A k \in NextHop : Where(k)' = IF k = ip THEN step ELSE Where(k)
  BY <1>1, BeginsEffect DEF CoreInv, ClientStep
<1>4. ASSUME NEW k \in NextHop
      PROVE  KeyOf(k)'
  <2>1. KeyOf(k) /\ (Names(nbrKeys, k)' <=> Names(nbrKeys, k))
    BY <1>2 DEF KeysInv, Names
  <2>2. CASE k = ip
    BY <1>1, <1>2, <1>3, <2>1, <2>2 DEF KeyOf, Creating, Forgetting
  <2>3. CASE k # ip
    BY <1>2, <1>3, <2>1, <2>3 DEF KeyOf
  <2> QED BY <2>2, <2>3
<1> QED BY <1>2, <1>4 DEF KeysInv

\* A step of a call that leaves the list alone.
LEMMA StepKeys ==
  ASSUME CoreInv, KeysInv, nbrKeys' = nbrKeys,
         NEW t \in Thread, at[t] \in ClientStep, NEW to, Moves(t, to),
         \A k \in NextHop : hwNbr'[k] # None =>
           hwNbr[k] # None \/ (t \in Client /\ k = job[t].ip /\ to = "takeNextHop"),
         \A k \in NextHop : nbrDB[k] # None =>
           nbrDB'[k] # None \/ (t \in Client /\ k = job[t].ip /\ to \in Forgetting),
         at[t] \in Forgetting => to \in Forgetting,
         to \in Creating => at[t] \in Creating,
         at[t] \in {"takeNextHop", "storeNew"} => to \in {"takeNextHop", "storeNew"}
  PROVE  KeysInv'
<1>1. \A k \in NextHop : Where(k)' = IF t \in Client /\ job[t].ip = k THEN to ELSE Where(k)
  BY MovesEffect DEF CoreInv
<1>2. t \in Client => Where(job[t].ip) = at[t]
  BY ThreadFacts DEF CoreInv
<1>3. ASSUME NEW k \in NextHop
      PROVE  KeyOf(k)'
  <2>1. KeyOf(k) /\ (Names(nbrKeys, k)' <=> Names(nbrKeys, k))
    BY DEF KeysInv, Names
  <2>2. CASE t \in Client /\ job[t].ip = k
    <3>1. Where(k) = at[t] /\ Where(k)' = to
      BY <1>1, <1>2, <2>2
    <3> QED BY <2>1, <3>1 DEF KeyOf
  <2>3. CASE ~(t \in Client /\ job[t].ip = k)
    <3>1. Where(k)' = Where(k)
      BY <1>1, <2>3
    <3>2. (hwNbr'[k] # None => hwNbr[k] # None) /\ (nbrDB[k] # None => nbrDB'[k] # None)
      BY <2>3
    <3> QED BY <2>1, <3>1, <3>2 DEF KeyOf
  <2> QED BY <2>2, <2>3
<1> QED BY <1>3 DEF KeysInv

LEMMA StepsOnKeys ==
  ASSUME CoreInv, KeysInv, NEW t \in Thread,
         \/ HwCreate(t) \/ TakeNextHop(t) \/ Link(t) \/ UpdNextHop(t) \/ HwUpdate(t)
         \/ StoreUpdated(t) \/ HwDelete(t) \/ DropNextHop(t, {})
         \/ Forget(t) \/ Unlist(t) \/ DropAdj(t) \/ Unlink(t)
  PROVE  KeysInv'
<1>0. nbrKeys' = nbrKeys /\ at[t] \in ClientStep
  BY DEF HwCreate, TakeNextHop, Link, UpdNextHop, HwUpdate, StoreUpdated, HwDelete, DropNextHop,
         Forget, Unlist, DropAdj, Unlink, nbrVars, ClientStep, Forgetting
<1>1. PICK ip, mac : ip = job[t].ip /\ mac = job[t].mac
  OBVIOUS
<1>2. /\ hwNbr \in [NextHop -> Mac \cup {None}] /\ nbrDB \in [NextHop -> Mac \cup {None}]
      /\ ip \in NextHop /\ mac \in Mac /\ mac # None
      /\ at[t] \notin UpdateStep => t \in Client
  BY <1>0, <1>1, ThreadFacts, NbrNoneAssumption DEF CoreInv, TableType
<1>3. CASE HwCreate(t)
  <2>1. CASE hwNbr[ip] # None
    <3>1. Moves(t, "idle") /\ UNCHANGED <<hwNbr, nbrDB>> /\ at[t] = "hwCreate"
      BY <1>1, <1>3, <2>1 DEF HwCreate, Moves, nbrVars
    <3> QED BY <1>0, <3>1, StepKeys DEF Creating, Forgetting
  <2>2. CASE hwNbr[ip] = None
    <3>1. /\ Moves(t, "takeNextHop") /\ at[t] = "hwCreate" /\ nbrDB' = nbrDB
          /\ hwNbr' = [hwNbr EXCEPT ![ip] = mac] /\ t \in Client
      BY <1>1, <1>2, <1>3, <2>2 DEF HwCreate, Moves, ClientStep, UpdateStep, nbrVars
    <3>2. \A k \in NextHop : hwNbr'[k] # None => hwNbr[k] # None \/ k = ip
      BY <1>2, <3>1
    <3> QED BY <1>0, <1>1, <3>1, <3>2, StepKeys DEF Creating, Forgetting
  <2> QED BY <2>1, <2>2
<1>4. CASE TakeNextHop(t)
  <2>1. Moves(t, "storeNew") /\ at[t] = "takeNextHop" /\ UNCHANGED <<hwNbr, nbrDB>>
    BY <1>4 DEF TakeNextHop, Moves, ClientStep, UpdateStep, nbrVars
  <2> QED BY <1>0, <2>1, StepKeys DEF Creating, Forgetting
<1>5. CASE Link(t)
  <2>1. Moves(t, "idle") /\ at[t] = "link" /\ UNCHANGED <<hwNbr, nbrDB>>
    BY <1>5 DEF Link, Moves
  <2> QED BY <1>0, <2>1, StepKeys DEF Creating, Forgetting
<1>6. CASE UpdNextHop(t)
  <2>1. PICK to \in {"hwUpdate", "idle"} :
          Moves(t, to) /\ at[t] = "updNextHop" /\ UNCHANGED <<hwNbr, nbrDB>>
    BY <1>6 DEF UpdNextHop, Moves, ClientStep, UpdateStep, nbrVars
  <2> QED BY <1>0, <2>1, StepKeys DEF Creating, Forgetting
<1>7. CASE HwUpdate(t)
  <2>1. PICK to \in {"storeUpdated", "idle"} :
          Moves(t, to) /\ at[t] = "hwUpdate" /\ nbrDB' = nbrDB
    BY <1>7 DEF HwUpdate, Moves, ClientStep, UpdateStep, nbrVars
  <2>2. \A k \in NextHop : hwNbr'[k] # None => hwNbr[k] # None
    <3>1. hwNbr' = hwNbr \/ (hwNbr[ip] # None /\ hwNbr' = [hwNbr EXCEPT ![ip] = mac])
      BY <1>1, <1>7 DEF HwUpdate
    <3> QED BY <1>2, <3>1
  <2> QED BY <1>0, <2>1, <2>2, StepKeys DEF Creating, Forgetting
<1>8. CASE StoreUpdated(t)
  <2>1. /\ Moves(t, "idle") /\ at[t] = "storeUpdated" /\ hwNbr' = hwNbr
        /\ nbrDB' = [nbrDB EXCEPT ![ip] = mac]
    BY <1>1, <1>8 DEF StoreUpdated, Moves
  <2>2. \A k \in NextHop : nbrDB[k] # None => nbrDB'[k] # None
    BY <1>2, <2>1
  <2> QED BY <1>0, <2>1, <2>2, StepKeys DEF Creating, Forgetting
<1>9. CASE HwDelete(t)
  <2>1. PICK to \in {"dropNextHop", "idle"} :
          /\ Moves(t, to) /\ at[t] = "hwDelete" /\ nbrDB' = nbrDB
          /\ hwNbr' = [hwNbr EXCEPT ![ip] = None]
    BY <1>1, <1>9 DEF HwDelete, Moves, ClientStep, UpdateStep, nbrVars
  <2>2. \A k \in NextHop : hwNbr'[k] # None => hwNbr[k] # None
    BY <1>2, <2>1
  <2> QED BY <1>0, <2>1, <2>2, StepKeys DEF Creating, Forgetting
<1>10. CASE DropNextHop(t, {})
  <2>1. PICK to \in {"forget", "idle"} :
          Moves(t, to) /\ at[t] = "dropNextHop" /\ UNCHANGED <<hwNbr, nbrDB>>
    BY <1>10 DEF DropNextHop, Moves, ClientStep, UpdateStep, nbrVars
  <2> QED BY <1>0, <2>1, StepKeys DEF Creating, Forgetting
<1>11. CASE Forget(t)
  <2>1. /\ Moves(t, "unlist") /\ at[t] = "forget" /\ hwNbr' = hwNbr /\ t \in Client
        /\ nbrDB' = [nbrDB EXCEPT ![ip] = None]
    BY <1>1, <1>2, <1>11 DEF Forget, Moves, ClientStep, UpdateStep, Forgetting
  <2>2. \A k \in NextHop : nbrDB[k] # None => nbrDB'[k] # None \/ k = ip
    BY <1>2, <2>1
  <2> QED BY <1>0, <1>1, <2>1, <2>2, StepKeys DEF Creating, Forgetting
<1>12. CASE Unlist(t)
  <2>1. at[t] = "unlist" /\ UNCHANGED <<hwNbr, nbrDB>>
    BY <1>12 DEF Unlist
  <2>2. UNCHANGED threadVars \/ \E to \in {"dropAdj", "unkey"} : Goes(t, to)
    BY <1>12 DEF Unlist
  <2>3. CASE UNCHANGED threadVars
    <3>1. \A k \in NextHop : Where(k)' = Where(k)
      BY <2>3 DEF threadVars, Where
    <3> QED BY <1>0, <2>1, <3>1 DEF KeysInv, KeyOf, Names
  <2>4. CASE \E to \in {"dropAdj", "unkey"} : Goes(t, to)
    <3>1. PICK to \in {"dropAdj", "unkey"} : Moves(t, to)
      BY <2>1, <2>4 DEF Moves, ClientStep, UpdateStep, Forgetting
    <3> QED BY <1>0, <2>1, <3>1, StepKeys DEF Creating, Forgetting
  <2> QED BY <2>2, <2>3, <2>4
<1>13. CASE DropAdj(t) \/ Unlink(t)
  <2>1. PICK to \in {"unlink", "unkey"} :
          Moves(t, to) /\ at[t] \in Forgetting /\ UNCHANGED <<hwNbr, nbrDB>>
    BY <1>13 DEF DropAdj, Unlink, Moves, ClientStep, UpdateStep, Forgetting, nbrVars
  <2> QED BY <1>0, <2>1, StepKeys DEF Creating, Forgetting
<1> QED BY <1>3, <1>4, <1>5, <1>6, <1>7, <1>8, <1>9, <1>10, <1>11, <1>12, <1>13

\* What a client adds to the list or takes out of it is the address of its call.
LEMMA StoreNewKeys ==
  ASSUME CoreInv, KeysInv, NEW t \in Thread, StoreNew(t)
  PROVE  KeysInv'
<1>0. PICK ip, mac : ip = job[t].ip /\ mac = job[t].mac
  OBVIOUS
<1>1. /\ at[t] = "storeNew" /\ at[t] \in ClientStep /\ t \in Client /\ ip \in NextHop
      /\ Where(ip) = "storeNew" /\ mac \in Mac /\ mac # None
  BY <1>0, ThreadFacts, NbrNoneAssumption DEF CoreInv, StoreNew, UpdateStep, ClientStep
<1>2. /\ Moves(t, "link") /\ hwNbr' = hwNbr
      /\ nbrDB' = [nbrDB EXCEPT ![ip] = mac]
      /\ nbrKeys' = Append(nbrKeys, ip)
  BY <1>0, <1>1 DEF StoreNew, Moves, ClientStep, UpdateStep
<1>3. \A k \in NextHop : nbrDB'[k] = IF k = ip THEN mac ELSE nbrDB[k]
  BY <1>1, <1>2 DEF CoreInv, TableType
<1>4. ~Names(nbrKeys, ip)
  BY <1>1 DEF KeysInv, KeyOf, Creating
<1>5. IsInjective(nbrKeys') /\ \A k : Names(nbrKeys', k) <=> Names(nbrKeys, k) \/ k = ip
  <2>1. nbrKeys \in Seq(NextHop) /\ IsInjective(nbrKeys)
    BY DEF CoreInv, TableType, KeysInv
  <2> QED BY <1>1, <1>2, <1>4, <2>1, AppendNames
<1>6. \A k \in NextHop : Where(k)' = IF k = ip THEN "link" ELSE Where(k)
  BY <1>0, <1>1, <1>2, MovesEffect DEF CoreInv
<1>7. ASSUME NEW k \in NextHop
      PROVE  KeyOf(k)'
  <2>1. KeyOf(k) /\ (Names(nbrKeys, k)' <=> Names(nbrKeys, k) \/ k = ip)
    BY <1>5 DEF KeysInv, Names
  <2>2. CASE k = ip
    <3>1. nbrDB'[k] # None /\ Where(k)' = "link" /\ Names(nbrKeys, k)'
      BY <1>1, <1>3, <1>6, <2>1, <2>2
    <3> QED BY <3>1 DEF KeyOf, Creating
  <2>3. CASE k # ip
    <3>1. /\ nbrDB'[k] = nbrDB[k] /\ Where(k)' = Where(k) /\ hwNbr'[k] = hwNbr[k]
          /\ Names(nbrKeys, k)' <=> Names(nbrKeys, k)
      BY <1>2, <1>3, <1>6, <2>1, <2>3
    <3> QED BY <2>1, <3>1 DEF KeyOf
  <2> QED BY <2>2, <2>3
<1> QED BY <1>5, <1>7 DEF KeysInv

LEMMA UnkeyKeys ==
  ASSUME CoreInv, KeysInv, NEW t \in Thread, Unkey(t)
  PROVE  KeysInv'
<1>0. PICK ip : ip = job[t].ip
  OBVIOUS
<1>1. /\ at[t] = "unkey" /\ at[t] \in ClientStep /\ t \in Client /\ ip \in NextHop
      /\ Where(ip) = "unkey"
  BY <1>0, ThreadFacts DEF CoreInv, Unkey, UpdateStep, ClientStep, Forgetting
<1>2. /\ Moves(t, "idle") /\ UNCHANGED <<nbrDB, hwNbr>>
      /\ nbrKeys' = RemoveFirst(nbrKeys, ip)
  BY <1>0 DEF Unkey, Moves
<1>3. IsInjective(nbrKeys') /\ \A k : Names(nbrKeys', k) <=> Names(nbrKeys, k) /\ k # ip
  <2>1. nbrKeys \in Seq(NextHop) /\ IsInjective(nbrKeys)
    BY DEF CoreInv, TableType, KeysInv
  <2> QED BY <1>2, <2>1, RemoveFirstNames
<1>4. \A k \in NextHop : Where(k)' = IF k = ip THEN "idle" ELSE Where(k)
  BY <1>0, <1>1, <1>2, MovesEffect DEF CoreInv
<1>5. hwNbr[ip] = None
  BY <1>1 DEF CoreInv, HoldOf, Forgetting
<1>6. ASSUME NEW k \in NextHop
      PROVE  KeyOf(k)'
  <2>1. KeyOf(k) /\ (Names(nbrKeys, k)' <=> Names(nbrKeys, k) /\ k # ip)
    BY <1>3 DEF KeysInv, Names
  <2>2. CASE k = ip
    BY <1>2, <1>5, <2>1, <2>2 DEF KeyOf
  <2>3. CASE k # ip
    BY <1>2, <1>4, <2>1, <2>3 DEF KeyOf
  <2> QED BY <2>2, <2>3
<1> QED BY <1>3, <1>6 DEF KeysInv

LEMMA InitKeys == Init => KeysInv
<1> SUFFICES ASSUME Init
             PROVE  KeysInv
  OBVIOUS
<1>1. nbrKeys = <<>> /\ hwNbr = [ip \in NextHop |-> None]
  BY DEF Init, NbrMgrInit
<1>2. IsInjective(<<>>) /\ \A k : ~Names(<<>>, k)
  BY DEF IsInjective, Names
<1> QED BY <1>1, <1>2 DEF KeysInv, KeyOf

LEMMA NextKeys == CoreInv /\ KeysInv /\ [Next]_vars => KeysInv'
<1> SUFFICES ASSUME CoreInv, KeysInv, [Next]_vars
             PROVE  KeysInv'
  OBVIOUS
<1>1. ASSUME UNCHANGED <<nbrDB, nbrKeys, hwNbr>>, \A ip \in NextHop : Where(ip)' = Where(ip)
      PROVE  KeysInv'
  BY <1>1 DEF KeysInv, KeyOf, Names
<1>2. CASE UNCHANGED vars
  <2>1. UNCHANGED <<nbrVars, hwNbr, threadVars>>
    BY <1>2 DEF vars, nbrMgrVars
  <2> QED BY <1>1, <2>1 DEF nbrVars, threadVars, Where
<1>3. CASE Calls
  BY <1>3, StartKeys DEF Calls
<1>4. CASE Callback /\ UNCHANGED routeHolds
  BY <1>1, <1>4, CallbackCore DEF nbrVars
<1>5. CASE Steps /\ ~Callback
  BY <1>5, StepsOnKeys, StoreNewKeys, UnkeyKeys DEF Steps, Callback
<1>6. CASE \E ip \in Routed : RouteTakes(ip) \/ RouteReleases(ip)
  <2>1. UNCHANGED nbrMgrVars /\ \A ip \in NextHop : Where(ip)' = Where(ip)
    BY <1>6, RouteCore, RoutedAssumption
  <2> QED BY <1>1, <2>1 DEF nbrMgrVars, nbrVars
<1>7. Callbacks => Callback
  BY SeenAssumption DEF Callbacks, Callback
<1> QED BY <1>2, <1>3, <1>4, <1>5, <1>6, <1>7 DEF Next

LEMMA KeysInvariance == Spec => [](CoreInv /\ KeysInv)
<1>1. Init => CoreInv /\ KeysInv
  BY InitCore, InitKeys
<1>2. CoreInv /\ KeysInv /\ [Next]_vars => (CoreInv /\ KeysInv)'
  BY NextCore, NextKeys
<1> QED BY <1>1, <1>2, PTL DEF Spec

-----------------------------------------------------------------------------
(***************************************************************************)
(* The theorems.                                                           *)
(***************************************************************************)
\* An address with no call of a thread on it has none of its owner on it.
LEMMA NotWorkedOn ==
  ASSUME CoreInv, NEW ip \in NextHop, ~WorkedOn(ip)
  PROVE  Where(ip) = "idle"
<1>1. Owner[ip] \in Thread /\ at[Owner[ip]] # "move"
  BY OwnerAssumption DEF CoreInv, ThreadInv, Thread, ClientStep, Forgetting
<1> QED BY <1>1 DEF WorkedOn, Where

\* An address with an entry in the ASIC that no call works on is a neighbour
\* and has a next hop, in the database and in the ASIC: creates, updates and
\* deletes of clients, the moves of MACs and the routes that share the next hop
\* cannot take it away, whatever the clients report and however the callback
\* thread overlaps them.
THEOREM NeighborsKeepTheirNextHops == Spec => []HwNeighborsHeld
<1>1. CoreInv => HwNeighborsHeld
  <2> SUFFICES ASSUME CoreInv, NEW ip \in NextHop, hwNbr[ip] # None, ~WorkedOn(ip)
               PROVE  nbrDB[ip] # None /\ ip \in nextHopDB /\ ip \in hwNextHop
    BY DEF HwNeighborsHeld
  <2>1. Where(ip) = "idle"
    BY NotWorkedOn
  <2>2. HoldOf(ip) /\ NeighborHolds(ip)
    BY <2>1 DEF CoreInv, NeighborHolds
  <2>3. refCount[ip] > 0 /\ nbrDB[ip] # None
    <3>1. refCount[ip] \in Nat
      BY DEF CoreInv, NhInv
    <3> QED BY <2>1, <2>2, <3>1 DEF HoldOf
  <2> QED BY <2>3 DEF CoreInv, NhInv
<1> QED BY <1>1, CoreInvariance, PTL

\* The key list names what the ASIC has, once, and nothing that is gone: the
\* clients change it and the tables one after the other, and the callback
\* thread, which stores a neighbour again after its delete, gives it no key.
THEOREM KeysAreExact == Spec => []KeysExact
<1>1. CoreInv /\ KeysInv => KeysExact
  <2> SUFFICES ASSUME CoreInv, KeysInv
               PROVE  KeysExact
    OBVIOUS
  <2>1. ASSUME NEW i \in DOMAIN nbrKeys
        PROVE  nbrDB[nbrKeys[i]] # None \/ BeingForgotten(nbrKeys[i])
    <3>1. PICK ip \in NextHop : ip = nbrKeys[i] /\ Names(nbrKeys, ip)
      BY DEF CoreInv, TableType, Names
    <3>2. nbrDB[ip] # None \/ Where(ip) \in Forgetting
      BY <3>1 DEF KeysInv, KeyOf
    <3>3. Where(ip) \in Forgetting => BeingForgotten(ip)
      BY DEF Where, Forgetting, BeingForgotten
    <3> QED BY <3>1, <3>2, <3>3
  <2>2. ASSUME NEW ip \in NextHop, hwNbr[ip] # None, ~WorkedOn(ip)
        PROVE  ip \in Range(nbrKeys)
    <3>1. Names(nbrKeys, ip)
      BY <2>2, NotWorkedOn DEF KeysInv, KeyOf
    <3> QED BY <3>1 DEF Names, Range
  <2> QED BY <2>1, <2>2 DEF KeysInv, KeysExact
<1> QED BY <1>1, KeysInvariance, PTL
=============================================================================
