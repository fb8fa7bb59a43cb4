---------------------------- MODULE Endpoint_proofs ----------------------------
(***************************************************************************)
(* Proofs about the nodes of one program (Endpoint): the rings they are    *)
(* joined to stay rings with one master, every open socket but those of    *)
(* nodes joined as they ran has an owner, and what they send is taken by   *)
(* those that receive it, for any number of nodes, joined in any order.    *)
(***************************************************************************)
EXTENDS Endpoint, FiniteSetTheorems, TLAPS

-----------------------------------------------------------------------------
(* Walking along the ring.                                                 *)

LEMMA LeastNat ==
  ASSUME NEW T \in SUBSET Nat, T # {}
  PROVE  \E n \in T : \A m \in T : n <= m
<1>1. PICK n \in T : \A m \in T : <<m, n>> \notin OpToRel(<, Nat)
  BY WFMin, NatLessThanWellFounded, Zenon
<1>2. \A m \in T : ~(m < n)
  BY <1>1, Zenon DEF OpToRel
<1> QED BY <1>2

Links == [Nodes -> Nodes \cup {NoNode}]
After(next, x) == IF x = NoNode THEN NoNode ELSE next[x]

(* The first k + 1 stops of a walk.                                        *)
IsWalk(next, n, k, w) ==
  w = [j \in 0 .. k |-> IF j = 0 THEN n
                        ELSE IF w[j - 1] = NoNode THEN NoNode ELSE next[w[j - 1]]]

LEMMA WalksExist ==
  ASSUME NEW next \in Links, NEW n \in Nodes, NEW k \in Nat
  PROVE  \E w : IsWalk(next, n, k, w)
<1> SUFFICES ASSUME \A w : ~IsWalk(next, n, k, w)
             PROVE  FALSE
  OBVIOUS
<1> DEFINE T == {i \in Nat : \A w : ~IsWalk(next, n, i, w)}
<1>1. PICK i \in T : \A m \in T : i <= m
  <2>1. T \in SUBSET Nat /\ T # {}
    OBVIOUS
  <2> HIDE DEF T
  <2> QED BY <2>1, LeastNat, Zenon
<1>2. CASE i = 0
  <2> DEFINE v == [j \in 0 .. 0 |-> n]
  <2>1. IsWalk(next, n, 0, v)
    BY DEF IsWalk
  <2> QED BY <1>1, <1>2, <2>1
<1>3. CASE i # 0
  <2>1. i - 1 \in Nat /\ i - 1 \notin T
    BY <1>1, <1>3
  <2>2. PICK w : IsWalk(next, n, i - 1, w)
    BY <2>1
  <2> DEFINE v == [j \in 0 .. i |-> IF j < i THEN w[j] ELSE After(next, w[i - 1])]
  <2>3. \A j \in 0 .. i - 1 :
          w[j] = IF j = 0 THEN n ELSE IF w[j - 1] = NoNode THEN NoNode ELSE next[w[j - 1]]
    BY <2>1, <2>2, Zenon DEF IsWalk
  <2>4. \A j \in 0 .. i :
          v[j] = IF j = 0 THEN n ELSE IF v[j - 1] = NoNode THEN NoNode ELSE next[v[j - 1]]
    <3> TAKE j \in 0 .. i
    <3>1. CASE j < i
      <4>1. v[j] = w[j] /\ (j # 0 => v[j - 1] = w[j - 1]) /\ j \in 0 .. i - 1
        BY <3>1, <2>1
      <4> HIDE DEF v
      <4> QED BY <4>1, <2>3, Zenon
    <3>2. CASE j = i
      <4>1. v[j] = After(next, w[i - 1]) /\ v[j - 1] = w[i - 1] /\ j # 0
        BY <3>2, <2>1
      <4> HIDE DEF v
      <4> QED BY <4>1, Zenon DEF After
    <3> QED BY <3>1, <3>2, <1>1
  <2>5. DOMAIN v = 0 .. i /\ v = [j \in 0 .. i |-> v[j]]
    OBVIOUS
  <2> HIDE DEF v
  <2>6. v = [j \in 0 .. i |-> IF j = 0 THEN n
                        ELSE IF v[j - 1] = NoNode THEN NoNode ELSE next[v[j - 1]]]
    BY <2>4, <2>5
  <2>7. IsWalk(next, n, i, v)
    BY <2>6 DEF IsWalk
  <2> QED BY <1>1, <2>7
<1> QED BY <1>2, <1>3

(* The stops WalkOf passes.                                                *)
Walk(next, n) ==
  CHOOSE w : w = [j \in 0 .. Cardinality(Nodes) |->
    IF j = 0 THEN n ELSE IF w[j - 1] = NoNode THEN NoNode ELSE next[w[j - 1]]]

LEMMA WalkOfStops ==
  ASSUME NEW next, NEW n
  PROVE  WalkOf(next, n) = {Walk(next, n)[k] : k \in DOMAIN Walk(next, n)} \ {NoNode}
BY Zenon DEF WalkOf, Walk

LEMMA NodeCount == Cardinality(Nodes) \in Nat
BY NodeAssumption, FS_CardinalityType

LEMMA WalkSteps ==
  ASSUME NEW next \in Links, NEW n \in Nodes
  PROVE  /\ DOMAIN Walk(next, n) = 0 .. Cardinality(Nodes)
         /\ Walk(next, n)[0] = n
         /\ \A k \in 0 .. Cardinality(Nodes) :
              k # 0 => Walk(next, n)[k] = After(next, Walk(next, n)[k - 1])
<1> DEFINE w == Walk(next, n)
<1>1. PICK v : IsWalk(next, n, Cardinality(Nodes), v)
  BY WalksExist, NodeCount
<1>2. w = [j \in 0 .. Cardinality(Nodes) |->
              IF j = 0 THEN n ELSE IF w[j - 1] = NoNode THEN NoNode ELSE next[w[j - 1]]]
  BY <1>1, Zenon DEF IsWalk, Walk
<1> HIDE DEF w
<1>3. DOMAIN w = 0 .. Cardinality(Nodes)
  BY <1>2
<1>4. \A k \in 0 .. Cardinality(Nodes) :
        w[k] = IF k = 0 THEN n ELSE IF w[k - 1] = NoNode THEN NoNode ELSE next[w[k - 1]]
  BY <1>2, Zenon
<1>5. 0 \in 0 .. Cardinality(Nodes)
  BY NodeCount
<1>6. w[0] = n
  BY <1>4, <1>5
<1>7. \A k \in 0 .. Cardinality(Nodes) : k # 0 => w[k] = After(next, w[k - 1])
  BY <1>4, Zenon DEF After
<1> QED BY <1>3, <1>6, <1>7 DEF w

Closed(next, S) == \A x \in S : next[x] \in S \cup {NoNode}

(* A walk stays in every set it cannot leave.                              *)
LEMMA WalkStaysIn ==
  ASSUME NEW next \in Links, NEW n \in Nodes, NEW S \in SUBSET Nodes,
         n \in S, Closed(next, S)
  PROVE  WalkOf(next, n) \subseteq S
<1> DEFINE w == Walk(next, n)
           T == {i \in 0 .. Cardinality(Nodes) : w[i] \notin S \cup {NoNode}}
<1>1. T = {}
  <2> SUFFICES ASSUME T # {}
               PROVE  FALSE
    OBVIOUS
  <2>1. T \in SUBSET Nat
    BY NodeCount
  <2>2. PICK i \in T : \A m \in T : i <= m
    <3> HIDE DEF T
    <3> QED BY <2>1, LeastNat
  <2>3. i # 0
    BY WalkSteps, <2>2
  <2>4. i - 1 \in 0 .. Cardinality(Nodes) /\ i - 1 \notin T
    BY <2>2, <2>3, NodeCount
  <2>5. w[i - 1] \in S \cup {NoNode}
    BY <2>4
  <2>6. w[i] = After(next, w[i - 1])
    BY WalkSteps, <2>2, <2>3
  <2>7. w[i] \in S \cup {NoNode}
    BY <2>5, <2>6 DEF After, Closed
  <2> QED BY <2>2, <2>7
<1>2. \A k \in DOMAIN w : w[k] \in S \cup {NoNode}
  BY <1>1, WalkSteps
<1> HIDE DEF w
<1> QED BY <1>2, WalkOfStops DEF w

LEMMA WalkInNodes ==
  ASSUME NEW next \in Links, NEW n \in Nodes
  PROVE  WalkOf(next, n) \subseteq Nodes /\ n \in WalkOf(next, n)
<1>1. Closed(next, Nodes)
  BY DEF Closed, Links
<1>2. WalkOf(next, n) \subseteq Nodes
  BY <1>1, WalkStaysIn
<1>3. 0 \in 0 .. Cardinality(Nodes)
  BY NodeCount
<1>4. n \in WalkOf(next, n)
  <2>1. 0 \in DOMAIN Walk(next, n) /\ Walk(next, n)[0] = n /\ n # NoNode
    BY <1>3, WalkSteps, NodeAssumption
  <2> QED BY <2>1, WalkOfStops
<1> QED BY <1>2, <1>4

(* One stop more than there are nodes: a walk that has not ended is at a   *)
(* node it was at before, so it can be followed no further.                *)
LEMMA WalkCloses ==
  ASSUME NEW next \in Links, NEW n \in Nodes
  PROVE  Closed(next, WalkOf(next, n))
<1> DEFINE N == Cardinality(Nodes)
           w == Walk(next, n)
<1>1. N \in Nat /\ DOMAIN w = 0 .. N
  BY NodeCount, WalkSteps
<1>2. WalkOf(next, n) = {w[k] : k \in 0 .. N} \ {NoNode}
  BY <1>1, WalkOfStops
<1>3. \A k \in 0 .. N : k # 0 => w[k] = After(next, w[k - 1])
  BY WalkSteps
<1>4. \A k \in 0 .. N : w[k] \in Nodes \cup {NoNode}
  BY <1>2, WalkInNodes
<1> HIDE DEF w, N
<1>5. \A k \in 0 .. N : k < N => After(next, w[k]) = w[k + 1]
  <2> TAKE k \in 0 .. N
  <2>1. k < N => k + 1 \in 0 .. N /\ k + 1 # 0 /\ (k + 1) - 1 = k
    BY <1>1
  <2> QED BY <1>3, <2>1, Zenon
<1>6. ASSUME w[N] # NoNode
      PROVE  \E k \in 0 .. N : k < N /\ w[k] = w[N]
  <2>1. \A k \in 0 .. N : w[k] \in Nodes
    <3> DEFINE E == {k \in Nat : k <= N /\ w[N - k] = NoNode}
    <3>1. ASSUME NEW e \in E, \A m \in E : e <= m
          PROVE  FALSE
      <4>1. CASE e = 0
        BY <4>1, <1>6, <1>1
      <4>2. CASE e # 0
        <5>1. N - e \in 0 .. N /\ N - e < N /\ (N - e) + 1 = N - (e - 1) /\ e - 1 \in Nat
          BY <4>2, <1>1
        <5>2. After(next, w[N - e]) = w[N - (e - 1)]
          BY <5>1, <1>5
        <5>3. w[N - (e - 1)] = NoNode
          BY <5>2 DEF After
        <5>4. e - 1 \in E
          BY <5>1, <5>3, <1>1
        <5> QED BY <5>4, <5>1, <3>1
      <4> QED BY <4>1, <4>2
    <3>2. E = {}
      <4>1. E \in SUBSET Nat
        OBVIOUS
      <4> HIDE DEF E
      <4> QED BY <3>1, <4>1, LeastNat
    <3> SUFFICES ASSUME NEW k \in 0 .. N, w[k] = NoNode
                 PROVE  FALSE
      BY <1>4
    <3>3. N - k \in Nat /\ N - k <= N /\ N - (N - k) = k
      BY <1>1
    <3> QED BY <3>2, <3>3
  <2> DEFINE g == [k \in 0 .. N |-> w[k]]
  <2>2. g \in [0 .. N -> Nodes]
    BY <2>1
  <2>3. IsFiniteSet(0 .. N) /\ Cardinality(0 .. N) = N + 1
    BY FS_Interval, <1>1
  <2>4. IsFiniteSet(Nodes) /\ Cardinality(Nodes) < Cardinality(0 .. N)
    BY <2>3, <1>1, NodeAssumption DEF N
  <2>5. \E x, y \in 0 .. N : x # y /\ g[x] = g[y]
    <3> HIDE DEF g
    <3> QED BY ONLY <2>2, <2>3, <2>4, FS_PigeonHole, Zenon
  <2>6. PICK i, j \in 0 .. N : i < j /\ w[i] = w[j]
    BY <2>5, <1>1
  <2> DEFINE E == {k \in Nat : j + k <= N /\ w[i + k] # w[j + k]}
  <2>7. ASSUME NEW e \in E, \A m \in E : e <= m
        PROVE  FALSE
    <3>1. CASE e = 0
      BY <3>1, <2>6, <1>1
    <3>2. CASE e # 0
      <4> DEFINE a == i + (e - 1)
                 b == j + (e - 1)
      <4>1. e - 1 \in Nat /\ a \in 0 .. N /\ b \in 0 .. N /\ a < N /\ b < N
            /\ a + 1 = i + e /\ b + 1 = j + e /\ j + (e - 1) <= N
        BY <3>2, <2>6, <1>1
      <4>2. w[a] = w[b]
        <5>1. e - 1 \notin E
          BY <2>7, <4>1
        <5> QED BY <5>1, <4>1
      <4>3. w[a + 1] = w[b + 1]
        <5> HIDE DEF a, b
        <5> QED BY <4>1, <4>2, <1>5
      <4> QED BY <4>1, <4>3
    <3> QED BY <3>1, <3>2
  <2>8. E = {}
    <3>1. E \in SUBSET Nat
      OBVIOUS
    <3> HIDE DEF E
    <3> QED BY <2>7, <3>1, LeastNat
  <2>9. N - j \in Nat /\ j + (N - j) = N /\ i + (N - j) \in 0 .. N /\ i + (N - j) < N
    BY <2>6, <1>1
  <2>10. w[i + (N - j)] = w[N]
    BY <2>8, <2>9
  <2> QED BY <2>9, <2>10
<1>7. ASSUME NEW k \in 0 .. N, w[k] # NoNode
      PROVE  next[w[k]] \in {w[m] : m \in 0 .. N}
  <2>1. \E m \in 0 .. N : m < N /\ w[m] = w[k]
    <3>1. CASE k < N
      BY <3>1
    <3>2. CASE k = N
      BY <3>2, <1>6, <1>7
    <3> QED BY <3>1, <3>2, <1>1
  <2>2. PICK m \in 0 .. N : m < N /\ w[m] = w[k]
    BY <2>1
  <2>3. next[w[k]] = w[m + 1] /\ m + 1 \in 0 .. N
    BY <2>2, <1>5, <1>7, <1>1 DEF After
  <2> QED BY <2>3
<1> QED BY <1>2, <1>7 DEF Closed

-----------------------------------------------------------------------------
(* Rings.                                                                  *)

(* Who comes after a node, a node that is alone coming after itself.       *)
Successor(next, x) == IF next[x] = NoNode THEN x ELSE next[x]

RingLinks(next) ==
  /\ next \in Links
  /\ \A x, y \in Nodes : Successor(next, x) = Successor(next, y) => x = y

(* Whoever is in a set of nodes that no ring leaves comes after one of it. *)
LEMMA Preceded ==
  ASSUME NEW next, RingLinks(next), NEW S \in SUBSET Nodes, Closed(next, S), NEW s \in S
  PROVE  \E x \in S : Successor(next, x) = s
<1> DEFINE f == [x \in S |-> Successor(next, x)]
<1>1. \A x \in S : Successor(next, x) \in S
  BY DEF Closed, Successor
<1>2. f \in [S -> S]
  BY <1>1
<1>3. \A x, y \in S : f[x] = f[y] => x = y
  BY DEF RingLinks
<1>4. IsFiniteSet(S)
  BY NodeAssumption, FS_Subset
<1> HIDE DEF f
<1>5. f \in Injection(S, S)
  BY <1>2, <1>3 DEF Injection, IsInjective
<1>6. f \in Surjection(S, S)
  BY ONLY <1>5, <1>4, FS_Injection, Zenon
<1>7. \E x \in S : f[x] = s
  BY <1>6 DEF Surjection
<1> QED BY <1>7 DEF f

LEMMA RingReturns ==
  ASSUME NEW next, RingLinks(next), NEW n \in Nodes, NEW m \in WalkOf(next, n)
  PROVE  n \in WalkOf(next, m)
<1> DEFINE A == WalkOf(next, n)
           B == WalkOf(next, m)
<1>1. next \in Links
  BY DEF RingLinks
<1>2. A \subseteq Nodes /\ n \in A /\ Closed(next, A)
  BY <1>1, WalkInNodes, WalkCloses
<1>3. B \subseteq Nodes /\ m \in B /\ Closed(next, B)
  BY <1>1, <1>2, WalkInNodes, WalkCloses
<1> SUFFICES ASSUME n \notin B
             PROVE  FALSE
  OBVIOUS
<1>4. m \in A
  OBVIOUS
<1> HIDE DEF A, B
<1>5. Closed(next, A \ B)
  <2> SUFFICES ASSUME NEW x \in A \ B, next[x] # NoNode
               PROVE  next[x] \in A \ B
    BY DEF Closed
  <2>1. next[x] \in A
    BY <1>2 DEF Closed
  <2>2. ASSUME next[x] \in B
        PROVE  FALSE
    <3>1. PICK y \in B : Successor(next, y) = next[x]
      BY <2>2, <1>3, Preceded
    <3>2. x \in Nodes /\ y \in Nodes /\ Successor(next, x) = next[x]
      BY <1>2, <1>3 DEF Successor
    <3>3. x = y
      BY <3>1, <3>2 DEF RingLinks
    <3> QED BY <3>3
  <2> QED BY <2>1, <2>2
<1>6. A \subseteq A \ B
  <2>1. A \ B \in SUBSET Nodes /\ n \in A \ B
    BY <1>2
  <2>2. WalkOf(next, n) \subseteq A \ B
    BY <2>1, <1>1, <1>5, WalkStaysIn
  <2> QED BY <2>2 DEF A
<1> QED BY <1>6, <1>4, <1>3

LEMMA OneRing ==
  ASSUME NEW next, RingLinks(next), NEW n \in Nodes, NEW m \in WalkOf(next, n)
  PROVE  WalkOf(next, m) = WalkOf(next, n)
<1>1. next \in Links
  BY DEF RingLinks
<1>2. WalkOf(next, n) \subseteq Nodes /\ Closed(next, WalkOf(next, n))
  BY <1>1, WalkInNodes, WalkCloses
<1>3. m \in Nodes
  BY <1>2
<1>4. WalkOf(next, m) \subseteq WalkOf(next, n)
  BY <1>1, <1>2, <1>3, WalkStaysIn
<1>5. WalkOf(next, m) \subseteq Nodes /\ Closed(next, WalkOf(next, m))
  BY <1>1, <1>3, WalkInNodes, WalkCloses
<1>6. n \in WalkOf(next, m)
  BY RingReturns
<1>7. WalkOf(next, n) \subseteq WalkOf(next, m)
  BY <1>1, <1>5, <1>6, WalkStaysIn
<1> QED BY <1>4, <1>7

-----------------------------------------------------------------------------
(* Joining two rings.                                                      *)

Started(x, y) == [peer EXCEPT ![x] = y]
LastOf(x, y) == CHOOSE m \in WalkOf(Started(x, y), y) : Started(x, y)[m] \in {NoNode, y}

LEMMA JoinedIs ==
  ASSUME NEW n1, NEW n2
  PROVE  Joined(n1, n2) =
           [Started(n1, n2) EXCEPT
              ![LastOf(n1, n2)] = IF peer[n1] = NoNode THEN n1 ELSE peer[n1]]
BY Zenon DEF Joined, Started, LastOf

LEMMA StartedIs ==
  ASSUME peer \in Links, NEW n1 \in Nodes, NEW n2 \in Nodes
  PROVE  /\ Started(n1, n2) \in Links
         /\ Started(n1, n2)[n1] = n2
         /\ \A x \in Nodes : x # n1 => Started(n1, n2)[x] = peer[x]
BY DEF Started, Links

(* The walk that looks for the end of the ring finds it.                   *)
LEMMA LastExists ==
  ASSUME RingLinks(peer), NEW n1 \in Nodes, NEW n2 \in Nodes
  PROVE  /\ LastOf(n1, n2) \in WalkOf(Started(n1, n2), n2)
         /\ Started(n1, n2)[LastOf(n1, n2)] \in {NoNode, n2}
<1> DEFINE s == Started(n1, n2)
           S == WalkOf(s, n2)
<1>1. s \in Links /\ s[n1] = n2 /\ \A x \in Nodes : x # n1 => s[x] = peer[x]
  BY StartedIs DEF RingLinks
<1>2. S \subseteq Nodes /\ n2 \in S /\ Closed(s, S)
  BY <1>1, WalkInNodes, WalkCloses
<1>3. ASSUME \A m \in S : s[m] \notin {NoNode, n2}
      PROVE  FALSE
  <2> HIDE DEF S, s
  <2>1. n1 \notin S
    BY <1>1, <1>3
  <2>2. \A x \in S : peer[x] \in S /\ peer[x] \notin {n2, NoNode}
    BY <2>1, <1>1, <1>2, <1>3 DEF Closed
  <2>3. Closed(peer, S)
    BY <2>2 DEF Closed
  <2>4. PICK x \in S : Successor(peer, x) = n2
    BY <2>3, <1>2, Preceded
  <2> QED BY <2>4, <2>2 DEF Successor
<1>4. \E m \in S : s[m] \in {NoNode, n2}
  BY <1>3
<1> QED BY <1>4, Zenon DEF LastOf

(* The node found at the end of the ring is the one n2 comes after, or n1. *)
LEMMA LastPrecedes ==
  ASSUME RingLinks(peer), NEW n1 \in Nodes, NEW n2 \in Nodes, LastOf(n1, n2) # n1
  PROVE  Successor(peer, LastOf(n1, n2)) = n2
<1> DEFINE s == Started(n1, n2)
           S == WalkOf(s, n2)
           l == LastOf(n1, n2)
<1>1. s \in Links /\ s[n1] = n2 /\ \A x \in Nodes : x # n1 => s[x] = peer[x]
  BY StartedIs DEF RingLinks
<1>2. S \subseteq Nodes /\ n2 \in S /\ Closed(s, S)
  BY <1>1, WalkInNodes, WalkCloses
<1>3. l \in S /\ s[l] \in {NoNode, n2} /\ l \in Nodes /\ l # n1
  BY <1>2, LastExists
<1>4. \A T \in SUBSET Nodes : n2 \in T /\ Closed(s, T) => S \subseteq T
  BY <1>1, WalkStaysIn
<1> HIDE DEF s, S, l
<1>5. peer[l] \in {NoNode, n2}
  BY <1>1, <1>3
<1>6. ASSUME peer[l] = NoNode, l # n2
      PROVE  FALSE
  <2>1. ASSUME NEW x \in S \ {l}, s[x] = l
        PROVE  FALSE
    <3>1. x # n1 /\ x \in Nodes
      BY <2>1, <1>1, <1>2, <1>6
    <3>2. peer[x] = l
      BY <2>1, <3>1, <1>1
    <3>3. Successor(peer, x) = l /\ Successor(peer, l) = l
      BY <3>2, <1>6, <1>3, NodeAssumption DEF Successor
    <3> QED BY <3>3, <3>1, <2>1, <1>3 DEF RingLinks
  <2>2. Closed(s, S \ {l})
    BY <2>1, <1>2 DEF Closed
  <2>3. S \subseteq S \ {l}
    BY <2>2, <1>4, <1>2, <1>6
  <2> QED BY <2>3, <1>3
<1>7. Successor(peer, l) = n2
  BY <1>5, <1>6, NodeAssumption DEF Successor
<1> QED BY <1>7 DEF l

LEMMA JoinedAt ==
  ASSUME RingLinks(peer), NEW n1 \in Nodes, NEW n2 \in Nodes
  PROVE  /\ LastOf(n1, n2) \in Nodes
         /\ Joined(n1, n2) \in Links
         /\ Joined(n1, n2)[LastOf(n1, n2)] = Successor(peer, n1)
         /\ LastOf(n1, n2) # n1 => Joined(n1, n2)[n1] = n2
         /\ \A x \in Nodes \ {n1, LastOf(n1, n2)} : Joined(n1, n2)[x] = peer[x]
<1> DEFINE s == Started(n1, n2)
           l == LastOf(n1, n2)
           j == Joined(n1, n2)
<1>1. s \in Links /\ s[n1] = n2 /\ \A x \in Nodes : x # n1 => s[x] = peer[x]
  BY StartedIs DEF RingLinks
<1>2. l \in Nodes
  BY LastExists, <1>1, WalkInNodes
<1>3. j = [s EXCEPT ![l] = IF peer[n1] = NoNode THEN n1 ELSE peer[n1]]
  BY JoinedIs
<1>4. (IF peer[n1] = NoNode THEN n1 ELSE peer[n1]) = Successor(peer, n1)
  BY DEF Successor
<1>5. Successor(peer, n1) \in Nodes
  BY DEF Successor, RingLinks, Links
<1> HIDE DEF s, l, j
<1>6. j = [s EXCEPT ![l] = Successor(peer, n1)]
  BY <1>3, <1>4
<1>7. j \in Links
  BY <1>6, <1>5, <1>1, <1>2 DEF Links
<1>8. j[l] = Successor(peer, n1) /\ \A x \in Nodes : x # l => j[x] = s[x]
  BY <1>6, <1>1, <1>2 DEF Links
<1> QED BY <1>7, <1>8, <1>1, <1>2 DEF l, j

LEMMA JoinedIsRing ==
  ASSUME RingLinks(peer), NEW n1 \in Nodes, NEW n2 \in Nodes
  PROVE  RingLinks(Joined(n1, n2))
<1> DEFINE l == LastOf(n1, n2)
           j == Joined(n1, n2)
<1>1. /\ l \in Nodes /\ j \in Links
      /\ j[l] = Successor(peer, n1)
      /\ l # n1 => j[n1] = n2
      /\ \A x \in Nodes \ {n1, l} : j[x] = peer[x]
  BY JoinedAt
<1>2. l # n1 => Successor(peer, l) = n2
  BY LastPrecedes
<1> HIDE DEF l, j
<1>3. Successor(peer, n1) \in Nodes
  BY DEF Successor, RingLinks, Links
<1>4. \A x \in Nodes : Successor(j, x) =
        IF x = l THEN Successor(peer, n1) ELSE IF x = n1 THEN Successor(peer, l)
        ELSE Successor(peer, x)
  BY <1>1, <1>2, <1>3, NodeAssumption DEF Successor
<1>5. \A x, y \in Nodes : Successor(peer, x) = Successor(peer, y) => x = y
  BY DEF RingLinks
<1>6. \A x, y \in Nodes : Successor(j, x) = Successor(j, y) => x = y
  BY <1>4, <1>5, <1>1
<1>7. RingLinks(j)
  BY <1>1, <1>6 DEF RingLinks
<1> QED BY <1>7 DEF j

(* All a join changes is in the ring it makes.                             *)
LEMMA JoinedHolds ==
  ASSUME RingLinks(peer), NEW n1 \in Nodes, NEW n2 \in Nodes
  PROVE  /\ n1 \in WalkOf(Joined(n1, n2), n1)
         /\ LastOf(n1, n2) \in WalkOf(Joined(n1, n2), n1)
<1> DEFINE l == LastOf(n1, n2)
           j == Joined(n1, n2)
           R == WalkOf(j, n1)
           s == Started(n1, n2)
<1>1. /\ l \in Nodes /\ j \in Links
      /\ l # n1 => j[n1] = n2
      /\ \A x \in Nodes \ {n1, l} : j[x] = peer[x]
  BY JoinedAt
<1>2. s \in Links /\ s[n1] = n2 /\ \A x \in Nodes : x # n1 => s[x] = peer[x]
  BY StartedIs DEF RingLinks
<1>3. R \subseteq Nodes /\ n1 \in R /\ Closed(j, R)
  BY <1>1, WalkInNodes, WalkCloses
<1>4. l \in WalkOf(s, n2)
  BY LastExists
<1>5. n2 \in R /\ Closed(s, R) => WalkOf(s, n2) \subseteq R
  BY <1>2, <1>3, WalkStaysIn
<1> HIDE DEF l, j, R, s
<1>6. ASSUME l \notin R
      PROVE  FALSE
  <2>1. l # n1
    BY <1>6, <1>3
  <2>2. n2 \in R
    BY <2>1, <1>1, <1>3, NodeAssumption DEF Closed
  <2>3. \A x \in R : s[x] = j[x]
    BY <2>1, <1>6, <1>1, <1>2, <1>3
  <2>4. Closed(s, R)
    BY <2>3, <1>3 DEF Closed
  <2> QED BY <2>2, <2>4, <1>5, <1>4, <1>6
<1> QED BY <1>3, <1>6 DEF l, j, R

LEMMA JoinedOthers ==
  ASSUME RingLinks(peer), NEW n1 \in Nodes, NEW n2 \in Nodes,
         NEW x \in Nodes, x \notin WalkOf(Joined(n1, n2), n1)
  PROVE  /\ WalkOf(Joined(n1, n2), x) = WalkOf(peer, x)
         /\ WalkOf(peer, x) \cap WalkOf(Joined(n1, n2), n1) = {}
<1> DEFINE l == LastOf(n1, n2)
           j == Joined(n1, n2)
           R == WalkOf(j, n1)
           X == WalkOf(j, x)
           P == WalkOf(peer, x)
<1>1. /\ l \in Nodes /\ j \in Links /\ peer \in Links
      /\ \A y \in Nodes \ {n1, l} : j[y] = peer[y]
  BY JoinedAt DEF RingLinks
<1>2. n1 \in R /\ l \in R
  BY JoinedHolds
<1>3. RingLinks(j)
  BY JoinedIsRing
<1>4. X \subseteq Nodes /\ x \in X /\ Closed(j, X)
  BY <1>1, WalkInNodes, WalkCloses
<1>5. P \subseteq Nodes /\ x \in P /\ Closed(peer, P)
  BY <1>1, WalkInNodes, WalkCloses
<1>6. X \cap R = {}
  <2> SUFFICES ASSUME NEW y \in X, y \in R
               PROVE  FALSE
    OBVIOUS
  <2>1. WalkOf(j, y) = WalkOf(j, x) /\ WalkOf(j, y) = WalkOf(j, n1)
    <3> HIDE DEF j
    <3> QED BY <1>3, OneRing
  <2> QED BY <2>1, <1>4
<1>7. Closed(peer, X) => P \subseteq X
  BY <1>1, <1>4, WalkStaysIn
<1>8. Closed(j, P) => X \subseteq P
  BY <1>1, <1>5, WalkStaysIn
<1> HIDE DEF l, j, R, X, P
<1>9. \A y \in X : j[y] = peer[y]
  BY <1>6, <1>2, <1>1, <1>4
<1>10. P \subseteq X
  BY <1>9, <1>7, <1>4 DEF Closed
<1>11. X \subseteq P
  BY <1>8, <1>9, <1>10, <1>5 DEF Closed
<1>12. P = X /\ P \cap R = {}
  BY <1>10, <1>11, <1>6
<1> QED BY <1>12 DEF j, R, X, P

LEMMA JoinedFrom ==
  ASSUME RingLinks(peer), NEW n1 \in Nodes, NEW n2 \in Nodes
  PROVE  WalkOf(Joined(n1, n2), n1) \subseteq Ring(n1) \cup Ring(n2)
<1> DEFINE l == LastOf(n1, n2)
           j == Joined(n1, n2)
           U == WalkOf(peer, n1) \cup WalkOf(peer, n2)
           s == Started(n1, n2)
<1>1. /\ l \in Nodes /\ j \in Links /\ peer \in Links
      /\ j[l] = Successor(peer, n1)
      /\ l # n1 => j[n1] = n2
      /\ \A y \in Nodes \ {n1, l} : j[y] = peer[y]
  BY JoinedAt DEF RingLinks
<1>2. U \subseteq Nodes /\ n1 \in U /\ n2 \in U /\ Closed(peer, U)
  BY <1>1, WalkInNodes, WalkCloses DEF Closed
<1> HIDE DEF l, j, U, s
<1>3. Successor(peer, n1) \in U
  BY <1>2 DEF Successor, Closed
<1>4. Closed(j, U)
  BY <1>1, <1>2, <1>3 DEF Closed
<1>5. WalkOf(j, n1) \subseteq U
  BY <1>4, <1>2, <1>1, WalkStaysIn
<1> QED BY <1>5 DEF j, U, Ring

-----------------------------------------------------------------------------
(* What is sent is accepted.                                               *)

LEMMA Merged ==
  ASSUME NEW f, NEW g
  PROVE  /\ DOMAIN MergedFormats(f, g) = DOMAIN f \cup DOMAIN g
         /\ \A t \in DOMAIN f : MergedFormats(f, g)[t] = f[t]
         /\ \A t \in DOMAIN g : t \notin DOMAIN f => MergedFormats(f, g)[t] = g[t]
BY DEF MergedFormats

LEMMA FormatTypes ==
  /\ DOMAIN DiscoveryFormats = {"poll", "reply", "ipprog", "ipreply"}
  /\ DOMAIN DataFormats =
       {"datarequest", "datareply", "address", "dmx", "input", "todrequest", "toddata"}
  /\ DOMAIN RdmFormats =
       {"firmware", "todcontrol", "rdm", "rdmsub", "diagdata", "firmwarereply"}
  /\ DOMAIN ShowFormats = {"sync", "nzs", "command", "timecode", "timesync", "trigger"}
  /\ DOMAIN FileFormats =
       {"directory", "directoryreply", "filetnmaster", "filefnmaster", "filefnreply",
        "mediapatch", "mediacontrol", "mediacontrolreply"}
<1>1. DOMAIN DiscoveryFormats = {"poll", "reply", "ipprog", "ipreply"}
  BY DEF DiscoveryFormats
<1>2. DOMAIN DataFormats =
        {"datarequest", "datareply", "address", "dmx", "input", "todrequest", "toddata"}
  BY DEF DataFormats
<1>3. DOMAIN RdmFormats =
        {"firmware", "todcontrol", "rdm", "rdmsub", "diagdata", "firmwarereply"}
  BY DEF RdmFormats
<1>4. DOMAIN ShowFormats = {"sync", "nzs", "command", "timecode", "timesync", "trigger"}
  BY DEF ShowFormats
<1>5. DOMAIN FileFormats =
        {"directory", "directoryreply", "filetnmaster", "filefnmaster", "filefnreply",
         "mediapatch", "mediacontrol", "mediacontrolreply"}
  BY DEF FileFormats
<1> QED BY <1>1, <1>2, <1>3, <1>4, <1>5

LEMMA FormatOf ==
  /\ \A t \in DOMAIN DiscoveryFormats : Format[t] = DiscoveryFormats[t]
  /\ \A t \in DOMAIN DataFormats : Format[t] = DataFormats[t]
  /\ \A t \in DOMAIN RdmFormats : Format[t] = RdmFormats[t]
  /\ \A t \in DOMAIN ShowFormats : Format[t] = ShowFormats[t]
  /\ \A t \in DOMAIN FileFormats : Format[t] = FileFormats[t]
  /\ DOMAIN Format = DOMAIN DiscoveryFormats \cup DOMAIN DataFormats \cup DOMAIN RdmFormats
                       \cup DOMAIN ShowFormats \cup DOMAIN FileFormats
<1> DEFINE A == DiscoveryFormats
           B == DataFormats
           C == RdmFormats
           D == ShowFormats
           E == FileFormats
           DE == MergedFormats(D, E)
           CDE == MergedFormats(C, DE)
           BCDE == MergedFormats(B, CDE)
<1>1. Format = MergedFormats(A, BCDE)
  BY DEF Format
<1>2. /\ DOMAIN A \cap (DOMAIN B \cup DOMAIN C \cup DOMAIN D \cup DOMAIN E) = {}
      /\ DOMAIN B \cap (DOMAIN C \cup DOMAIN D \cup DOMAIN E) = {}
      /\ DOMAIN C \cap (DOMAIN D \cup DOMAIN E) = {}
      /\ DOMAIN D \cap DOMAIN E = {}
  BY FormatTypes
<1>3. /\ DOMAIN DE = DOMAIN D \cup DOMAIN E
      /\ \A t \in DOMAIN D : DE[t] = D[t]
      /\ \A t \in DOMAIN E : t \notin DOMAIN D => DE[t] = E[t]
  BY Merged
<1>4. /\ DOMAIN CDE = DOMAIN C \cup DOMAIN DE
      /\ \A t \in DOMAIN C : CDE[t] = C[t]
      /\ \A t \in DOMAIN DE : t \notin DOMAIN C => CDE[t] = DE[t]
  BY Merged
<1>5. /\ DOMAIN BCDE = DOMAIN B \cup DOMAIN CDE
      /\ \A t \in DOMAIN B : BCDE[t] = B[t]
      /\ \A t \in DOMAIN CDE : t \notin DOMAIN B => BCDE[t] = CDE[t]
  BY Merged
<1>6. /\ DOMAIN MergedFormats(A, BCDE) = DOMAIN A \cup DOMAIN BCDE
      /\ \A t \in DOMAIN A : MergedFormats(A, BCDE)[t] = A[t]
      /\ \A t \in DOMAIN BCDE : t \notin DOMAIN A => MergedFormats(A, BCDE)[t] = BCDE[t]
  BY Merged
<1> HIDE DEF A, B, C, D, E, DE, CDE, BCDE
<1>7. \A t \in DOMAIN A : Format[t] = A[t]
  BY <1>1, <1>6
<1>8. \A t \in DOMAIN B : Format[t] = B[t]
  BY <1>1, <1>6, <1>5, <1>2
<1>9. \A t \in DOMAIN C : Format[t] = C[t]
  BY <1>1, <1>6, <1>5, <1>4, <1>2
<1>10. \A t \in DOMAIN D : Format[t] = D[t]
  BY <1>1, <1>6, <1>5, <1>4, <1>3, <1>2
<1>11. \A t \in DOMAIN E : Format[t] = E[t]
  BY <1>1, <1>6, <1>5, <1>4, <1>3, <1>2
<1>12. DOMAIN Format = DOMAIN A \cup DOMAIN B \cup DOMAIN C \cup DOMAIN D \cup DOMAIN E
  BY <1>1, <1>6, <1>5, <1>4, <1>3
<1> QED BY <1>7, <1>8, <1>9, <1>10, <1>11, <1>12 DEF A, B, C, D, E

(* The size of the fixed part of each kind of packet.                      *)
LEMMA Headers ==
  /\ Format["poll"].header = 22 /\ Format["ipprog"].header = 34
  /\ Format["datarequest"].header = 40 /\ Format["datareply"].header = 20
  /\ Format["address"].header = 107 /\ Format["input"].header = 20
  /\ Format["dmx"].header = 18 /\ Format["todrequest"].header = 24
  /\ Format["todcontrol"].header = 24 /\ Format["sync"].header = 14
  /\ Format["nzs"].header = 18 /\ Format["command"].header = 16
  /\ Format["timecode"].header = 19 /\ Format["timesync"].header = 24
  /\ Format["trigger"].header = 18 /\ Format["directory"].header = 25
  /\ Format["filetnmaster"].header = 40 /\ Format["filefnmaster"].header = 27
  /\ Format["mediapatch"].header = 17 /\ Format["mediacontrol"].header = 26
  /\ Format["mediacontrolreply"].header = 26
<1>1. Format["poll"] = Fixed(22) /\ Format["ipprog"] = Fixed(34)
  BY FormatOf, FormatTypes DEF DiscoveryFormats
<1>2. /\ Format["datarequest"] = Fixed(40) /\ Format["datareply"].header = 20
      /\ Format["address"] = Fixed(107) /\ Format["dmx"].header = 18
      /\ Format["input"] = Fixed(20) /\ Format["todrequest"].header = 24
  BY FormatOf, FormatTypes DEF DataFormats, Variable
<1>3. Format["todcontrol"] = Fixed(24)
  BY FormatOf, FormatTypes DEF RdmFormats
<1>4. /\ Format["sync"] = Fixed(14) /\ Format["nzs"].header = 18
      /\ Format["command"].header = 16 /\ Format["timecode"] = Fixed(19)
      /\ Format["timesync"] = Fixed(24) /\ Format["trigger"].header = 18
  BY FormatOf, FormatTypes DEF ShowFormats, Variable
<1>5. /\ Format["directory"] = Fixed(25) /\ Format["filetnmaster"].header = 40
      /\ Format["filefnmaster"].header = 27 /\ Format["mediapatch"].header = 17
      /\ Format["mediacontrol"].header = 26 /\ Format["mediacontrolreply"].header = 26
  BY FormatOf, FormatTypes DEF FileFormats, Variable
<1> QED BY <1>1, <1>2, <1>3, <1>4, <1>5 DEF Fixed

SentTypes ==
  {"poll", "ipprog", "datarequest", "datareply", "address", "input", "dmx", "todrequest",
   "todcontrol", "sync", "nzs", "command", "timecode", "timesync", "trigger", "directory",
   "filetnmaster", "filefnmaster", "mediapatch", "mediacontrol", "mediacontrolreply"}

LEMMA SentTypesHaveFormats ==
  ASSUME NEW t \in SentTypes
  PROVE  t \in DOMAIN Format /\ t # "reply" /\ Format[t].header \in Nat
         /\ (t = "poll" => Format[t].header >= 14)
<1>1. t \in DOMAIN Format
  BY FormatOf, FormatTypes DEF SentTypes
<1>2. Format[t].header \in Nat /\ (t = "poll" => Format[t].header >= 14)
  BY Headers DEF SentTypes
<1>3. t # "reply"
  BY DEF SentTypes
<1> QED BY <1>1, <1>2, <1>3

Good(p) == Accepted(p) \/ LeftToTheCaller(p)

(* A packet laid out by the library has the length and the version its     *)
(* receiver asks for: its fields decide.                                   *)
LEMMA FieldsDecide ==
  ASSUME NEW t \in SentTypes, NEW to, NEW data \in Nat, NEW body,
         FieldsInRange(Packet(t, to, data, body)) \/ LeftToTheCaller(Packet(t, to, data, body))
  PROVE  Good(Packet(t, to, data, body))
<1> DEFINE p == Packet(t, to, data, body)
<1>1. p.type = t /\ p.ver = 14 /\ p.length = Format[t].header + data /\ p.body = body
  BY DEF Packet, ARTNET_VERSION
<1>2. t \in DOMAIN Format /\ t # "reply" /\ Format[t].header \in Nat
      /\ (t = "poll" => Format[t].header >= 14)
  BY SentTypesHaveFormats
<1> HIDE DEF p
<1>3. MinLength(t) = IF t = "poll" THEN 14 ELSE Format[t].header
  BY <1>2 DEF MinLength
<1>4. packet_length_is_valid(p)
  BY <1>1, <1>2, <1>3 DEF packet_length_is_valid
<1>5. ASSUME FieldsInRange(p)
      PROVE  Accepted(p)
  BY <1>1, <1>4, <1>5 DEF Accepted, packet_fields_are_valid, ARTNET_VERSION
<1>6. Good(p)
  BY <1>5, Zenon DEF Good, p
<1> QED BY <1>6 DEF p

(* The kinds whose fields no test looks at.                                *)
LEMMA PlainPackets ==
  ASSUME NEW t \in {"poll", "ipprog", "sync", "directory", "filetnmaster", "mediacontrol",
                    "mediacontrolreply"},
         NEW to, NEW data \in Nat, NEW body
  PROVE  Good(Packet(t, to, data, body))
<1> DEFINE p == Packet(t, to, data, body)
<1>1. p.type = t
  BY DEF Packet
<1> HIDE DEF p
<1>2. FieldsInRange(p)
  BY <1>1 DEF FieldsInRange, DataInRange, RdmInRange, ShowInRange
<1>3. t \in SentTypes
  BY DEF SentTypes
<1> QED BY <1>2, <1>3, FieldsDecide DEF p

(* For the others: what each test asks of the body.                        *)
LEMMA FieldsOf ==
  ASSUME NEW t \in SentTypes, NEW to, NEW data \in Nat, NEW b
  PROVE  LET p == Packet(t, to, data, b)
         IN /\ t \in {"timecode", "timesync", "trigger", "filefnmaster", "mediapatch"} =>
                 (ShowInRange(p) => FieldsInRange(p))
            /\ t \in {"todrequest", "todcontrol"} => (RdmInRange(p) => FieldsInRange(p))
            /\ t \in {"datarequest", "datareply", "address", "input", "dmx", "nzs", "command"} =>
                 (DataInRange(p) => FieldsInRange(p))
<1> DEFINE p == Packet(t, to, data, b)
<1>1. p.type = t
  BY DEF Packet
<1> HIDE DEF p
<1>2. ASSUME t \in {"timecode", "timesync", "trigger", "filefnmaster", "mediapatch"}
      PROVE  DataInRange(p) /\ RdmInRange(p)
  BY <1>1, <1>2 DEF DataInRange, RdmInRange
<1>3. ASSUME t \in {"todrequest", "todcontrol"}
      PROVE  DataInRange(p) /\ ShowInRange(p)
  BY <1>1, <1>3 DEF DataInRange, ShowInRange
<1>4. ASSUME t \in {"datarequest", "datareply", "address", "input", "dmx", "nzs", "command"}
      PROVE  RdmInRange(p) /\ ShowInRange(p)
  BY <1>1, <1>4 DEF RdmInRange, ShowInRange
<1> QED BY <1>2, <1>3, <1>4 DEF FieldsInRange, p

(* The fields a packet laid out by the library has.                        *)
LEMMA PacketFields ==
  ASSUME NEW t, NEW to, NEW data, NEW b
  PROVE  /\ Packet(t, to, data, b).type = t /\ Packet(t, to, data, b).body = b
         /\ Packet(t, to, data, b).length = Format[t].header + data
BY DEF Packet

LEMMA DataRequestGood ==
  ASSUME NEW to, NEW code
  PROVE  Good(Packet("datarequest", to, 0, [code |-> code]))
<1> DEFINE p == Packet("datarequest", to, 0, [code |-> code])
<1>1. p.type = "datarequest" /\ p.body.code = code
  BY PacketFields
<1> HIDE DEF p
<1>2. DataInRange(p) \/ LeftToTheCaller(p)
  BY <1>1 DEF DataInRange, LeftToTheCaller
<1>3. "datarequest" \in SentTypes
  BY DEF SentTypes
<1> QED BY <1>2, <1>3, FieldsOf, FieldsDecide DEF p

LEMMA DataReplyGood ==
  ASSUME NEW to, NEW b, b.len \in 0 .. 512
  PROVE  Good(Packet("datareply", to, 512, b))
<1> DEFINE p == Packet("datareply", to, 512, b)
<1>1. p.type = "datareply" /\ p.body = b /\ p.length = 20 + 512
  BY PacketFields, Headers
<1> HIDE DEF p
<1>2. DataInRange(p) \/ LeftToTheCaller(p)
  BY <1>1, Headers DEF DataInRange, LeftToTheCaller, Sized, Fits
<1>3. "datareply" \in SentTypes
  BY DEF SentTypes
<1> QED BY <1>2, <1>3, FieldsOf, FieldsDecide DEF p

LEMMA AddressGood ==
  ASSUME NEW to, NEW acn \in 0 .. 255
  PROVE  Good(Packet("address", to, 0, [bindIndex |-> 1, acnPriority |-> acn]))
<1> DEFINE p == Packet("address", to, 0, [bindIndex |-> 1, acnPriority |-> acn])
<1>1. p.type = "address" /\ p.body.bindIndex = 1 /\ p.body.acnPriority = acn
  BY PacketFields
<1> HIDE DEF p
<1>2. DataInRange(p) \/ LeftToTheCaller(p)
  BY <1>1 DEF DataInRange, LeftToTheCaller
<1>3. "address" \in SentTypes
  BY DEF SentTypes
<1> QED BY <1>2, <1>3, FieldsOf, FieldsDecide DEF p

LEMMA InputGood ==
  ASSUME NEW to, NEW ports \in 0 .. 4
  PROVE  Good(Packet("input", to, 0, [bindIndex |-> 1, numbports |-> ports]))
<1> DEFINE p == Packet("input", to, 0, [bindIndex |-> 1, numbports |-> ports])
<1>1. p.type = "input" /\ p.body.bindIndex = 1 /\ p.body.numbports = ports
  BY PacketFields
<1> HIDE DEF p
<1>2. DataInRange(p)
  BY <1>1 DEF DataInRange
<1>3. "input" \in SentTypes
  BY DEF SentTypes
<1> QED BY <1>2, <1>3, FieldsOf, FieldsDecide DEF p

LEMMA DmxGood ==
  ASSUME NEW to, NEW len \in 2 .. 512, len % 2 = 0
  PROVE  Good(Packet("dmx", to, len, [len |-> len]))
<1> DEFINE p == Packet("dmx", to, len, [len |-> len])
<1>1. p.type = "dmx" /\ p.body.len = len /\ p.length = 18 + len
  BY PacketFields, Headers
<1> HIDE DEF p
<1>2. DataInRange(p)
  BY <1>1, Headers DEF DataInRange, Sized, Fits, ARTNET_DMX_LENGTH
<1>3. "dmx" \in SentTypes
  BY DEF SentTypes
<1> QED BY <1>2, <1>3, FieldsOf, FieldsDecide DEF p

(* A node that sends an ArtNzs of the VLC start code itself answers for    *)
(* the layout of the payload, but not for its length.                      *)
LEMMA NzsGood ==
  ASSUME NEW to, NEW code, NEW len \in 1 .. 512, NEW vlc \in BOOLEAN,
         code \notin {0, 204}, vlc => len >= ARTNET_VLC_MIN_LENGTH
  PROVE  Good(Packet("nzs", to, len, [startCode |-> code, len |-> len, vlc |-> vlc]))
<1> DEFINE p == Packet("nzs", to, len, [startCode |-> code, len |-> len, vlc |-> vlc])
<1>1. /\ p.type = "nzs" /\ p.body.startCode = code /\ p.body.len = len /\ p.body.vlc = vlc
      /\ p.length = 18 + len
  BY PacketFields, Headers
<1> HIDE DEF p
<1>2. Sized(p, 1, ARTNET_DMX_LENGTH)
  BY <1>1, Headers DEF Sized, Fits, ARTNET_DMX_LENGTH
<1>3. DataInRange(p) \/ LeftToTheCaller(p)
  BY <1>1, <1>2 DEF DataInRange, LeftToTheCaller
<1>4. "nzs" \in SentTypes
  BY DEF SentTypes
<1> QED BY <1>3, <1>4, FieldsOf, FieldsDecide DEF p

LEMMA CommandGood ==
  ASSUME NEW to, NEW len \in 0 .. 512, NEW nul
  PROVE  Good(Packet("command", to, len, [len |-> len, nul |-> nul]))
<1> DEFINE p == Packet("command", to, len, [len |-> len, nul |-> nul])
<1>1. p.type = "command" /\ p.body.len = len /\ p.length = 16 + len
  BY PacketFields, Headers
<1> HIDE DEF p
<1>2. Sized(p, 0, ARTNET_DMX_LENGTH)
  BY <1>1, Headers DEF Sized, Fits, ARTNET_DMX_LENGTH
<1>3. DataInRange(p) \/ LeftToTheCaller(p)
  BY <1>1, <1>2 DEF DataInRange, LeftToTheCaller
<1>4. "command" \in SentTypes
  BY DEF SentTypes
<1> QED BY <1>3, <1>4, FieldsOf, FieldsDecide DEF p

LEMMA TodRequestGood ==
  ASSUME NEW to, NEW ports \in 1 .. 4, NEW net
  PROVE  Good(Packet("todrequest", to, ARTNET_MAX_RDM_ADCOUNT,
                     [command |-> 0, adCount |-> ports, net |-> net]))
<1> DEFINE p == Packet("todrequest", to, ARTNET_MAX_RDM_ADCOUNT,
                       [command |-> 0, adCount |-> ports, net |-> net])
<1>1. p.type = "todrequest" /\ p.body.command = 0 /\ p.body.adCount = ports
  BY PacketFields
<1> HIDE DEF p
<1>2. RdmInRange(p)
  BY <1>1 DEF RdmInRange, ARTNET_MAX_RDM_ADCOUNT
<1>3. "todrequest" \in SentTypes /\ ARTNET_MAX_RDM_ADCOUNT \in Nat
  BY DEF SentTypes, ARTNET_MAX_RDM_ADCOUNT
<1> QED BY <1>2, <1>3, FieldsOf, FieldsDecide DEF p

LEMMA TodControlGood ==
  ASSUME NEW to, NEW action \in Nat
  PROVE  Good(Packet("todcontrol", to, 0, [cmd |-> action]))
<1> DEFINE p == Packet("todcontrol", to, 0, [cmd |-> action])
<1>1. p.type = "todcontrol" /\ p.body.cmd = action
  BY PacketFields
<1> HIDE DEF p
<1>2. RdmInRange(p) \/ LeftToTheCaller(p)
  BY <1>1 DEF RdmInRange, LeftToTheCaller
<1>3. "todcontrol" \in SentTypes
  BY DEF SentTypes
<1> QED BY <1>2, <1>3, FieldsOf, FieldsDecide DEF p

LEMMA TimecodeGood ==
  ASSUME NEW to, NEW t, TimecodeInRange(t)
  PROVE  Good(Packet("timecode", to, 0, t))
<1> DEFINE p == Packet("timecode", to, 0, t)
<1>1. p.type = "timecode" /\ p.body = t
  BY PacketFields
<1> HIDE DEF p
<1>2. ShowInRange(p)
  BY <1>1 DEF ShowInRange
<1>3. "timecode" \in SentTypes
  BY DEF SentTypes
<1> QED BY <1>2, <1>3, FieldsOf, FieldsDecide DEF p

LEMMA TimesyncGood ==
  ASSUME NEW to, NEW t, TimesyncInRange(t)
  PROVE  Good(Packet("timesync", to, 0, t))
<1> DEFINE p == Packet("timesync", to, 0, t)
<1>1. p.type = "timesync" /\ p.body = t
  BY PacketFields
<1> HIDE DEF p
<1>2. ShowInRange(p)
  BY <1>1 DEF ShowInRange
<1>3. "timesync" \in SentTypes
  BY DEF SentTypes
<1> QED BY <1>2, <1>3, FieldsOf, FieldsDecide DEF p

LEMMA TriggerGood ==
  ASSUME NEW to, NEW key, key <= 3
  PROVE  Good(Packet("trigger", to, 512, [key |-> key]))
<1> DEFINE p == Packet("trigger", to, 512, [key |-> key])
<1>1. p.type = "trigger" /\ p.body.key = key
  BY PacketFields
<1> HIDE DEF p
<1>2. ShowInRange(p)
  BY <1>1 DEF ShowInRange
<1>3. "trigger" \in SentTypes
  BY DEF SentTypes
<1> QED BY <1>2, <1>3, FieldsOf, FieldsDecide DEF p

LEMMA FileNameGood ==
  ASSUME NEW to, NEW chars \in 1 .. 255
  PROVE  Good(Packet("filefnmaster", to, 256, [len |-> chars, nul |-> TRUE]))
<1> DEFINE p == Packet("filefnmaster", to, 256, [len |-> chars, nul |-> TRUE])
<1>1. /\ p.type = "filefnmaster" /\ p.body.len = chars /\ p.body.nul = TRUE
      /\ p.length = 27 + 256
  BY PacketFields, Headers
<1> HIDE DEF p
<1>2. ShowInRange(p)
  BY <1>1, Headers DEF ShowInRange, Fits
<1>3. "filefnmaster" \in SentTypes
  BY DEF SentTypes
<1> QED BY <1>2, <1>3, FieldsOf, FieldsDecide DEF p

LEMMA MediaPatchGood ==
  ASSUME NEW to, NEW len \in 1 .. 512
  PROVE  Good(Packet("mediapatch", to, len, [len |-> len]))
<1> DEFINE p == Packet("mediapatch", to, len, [len |-> len])
<1>1. p.type = "mediapatch" /\ p.body.len = len /\ p.length = 17 + len
  BY PacketFields, Headers
<1> HIDE DEF p
<1>2. ShowInRange(p)
  BY <1>1, Headers DEF ShowInRange, Sized, Fits, ARTNET_DMX_LENGTH
<1>3. "mediapatch" \in SentTypes
  BY DEF SentTypes
<1> QED BY <1>2, <1>3, FieldsOf, FieldsDecide DEF p

GoodSet(ps) == \A p \in ps : Good(p)

LEMMA IfSent ==
  ASSUME NEW allowed, NEW p, allowed => Good(p)
  PROVE  GoodSet(SendIf(allowed, p))
BY DEF GoodSet, SendIf

LEMMA PollsGood ==
  ASSUME NEW type, NEW to
  PROVE  GoodSet(artnet_tx_poll(type, to))
<1>1. Good(Packet("poll", to, 0, NoBody))
  BY PlainPackets
<1> QED BY <1>1, IfSent DEF artnet_tx_poll

LEMMA TodRequestsGood ==
  GoodSet(artnet_tx_tod_request(PortsOfNet))
BY TodRequestGood, PortAssumption DEF GoodSet, artnet_tx_tod_request

LEMMA NothingElse ==
  ASSUME NEW n, NEW ps, artnet_net_send(n, ps), GoodSet(ps)
  PROVE  GoodSet(sent') /\ UNCHANGED <<mode, ip, peer, master, sd, sockets>>
BY DEF artnet_net_send, Reached, GoodSet

LEMMA DataRepliesGood ==
  ASSUME NEW to, NEW code, NEW text \in Texts
  PROVE  GoodSet(artnet_tx_data_reply(to, code, text))
<1>1. text.len \in {0, 4, 512, 513}
  <2>1. CASE text = [len |-> 4, nul |-> FALSE]
    BY <2>1
  <2>2. CASE text \in [len : {0, 512, 513}, nul : {TRUE}]
    BY <2>2
  <2>3. text = [len |-> 4, nul |-> FALSE] \/ text \in [len : {0, 512, 513}, nul : {TRUE}]
    BY DEF Texts
  <2> QED BY <2>1, <2>2, <2>3
<1> DEFINE b == [code |-> code, len |-> Smaller(text.len, 512),
                 nul |-> text.nul /\ text.len <= 512]
<1>2. b.len \in 0 .. 512
  BY <1>1 DEF Smaller
<1>3. artnet_tx_data_reply(to, code, text) = {Packet("datareply", to, 512, b)}
  BY DEF artnet_tx_data_reply
<1> HIDE DEF b
<1>4. Good(Packet("datareply", to, 512, b))
  BY <1>2, DataReplyGood
<1> QED BY <1>3, <1>4 DEF GoodSet

LEMMA ProgramsGood ==
  ASSUME NEW n, Programs(n)
  PROVE  GoodSet(sent') /\ UNCHANGED <<mode, ip, peer, master, sd, sockets>>
<1>1. ASSUME NEW ps, artnet_net_send(n, ps), GoodSet(ps)
      PROVE  GoodSet(sent') /\ UNCHANGED <<mode, ip, peer, master, sd, sockets>>
  BY <1>1, NothingElse
<1>2. CASE artnet_send_poll(n)
  BY <1>2, <1>1, PollsGood DEF artnet_send_poll
<1>3. CASE artnet_send_address(n)
  <2>1. ASSUME NEW to, NEW acn \in {200, 201, 255}
        PROVE  GoodSet(tx_address(to, acn))
    <3>1. acn \in 0 .. 255
      OBVIOUS
    <3>2. Good(Packet("address", to, 0, [bindIndex |-> 1, acnPriority |-> acn]))
      BY Zenon, <3>1, AddressGood
    <3> QED BY <3>2 DEF GoodSet, tx_address
  <2> QED BY <1>3, <1>1, <2>1 DEF artnet_send_address
<1>4. CASE artnet_send_input(n)
  <2>1. ASSUME NEW to, NEW ports \in {0, 4}
        PROVE  GoodSet(tx_input(to, ports))
    BY InputGood DEF GoodSet, tx_input
  <2> QED BY <1>4, <1>1, <2>1 DEF artnet_send_input
<1>5. CASE artnet_send_ipprog(n)
  <2>1. \A to : GoodSet(artnet_tx_ipprog(to))
    BY PlainPackets DEF GoodSet, artnet_tx_ipprog
  <2> QED BY <1>5, <1>1, <2>1 DEF artnet_send_ipprog
<1>6. CASE artnet_send_data_request(n)
  <2>1. \A to, code : GoodSet(artnet_tx_data_request(to, code))
    BY DataRequestGood DEF GoodSet, artnet_tx_data_request
  <2> QED BY <1>6, <1>1, <2>1 DEF artnet_send_data_request
<1>7. CASE artnet_send_data_reply(n)
  BY <1>7, <1>1, DataRepliesGood DEF artnet_send_data_reply
<1>8. CASE artnet_send_tod_request(n)
  BY <1>8, <1>1, TodRequestsGood DEF artnet_send_tod_request
<1>9. CASE artnet_send_tod_control(n)
  <2>1. \A action \in {0, 4, 5} : GoodSet(artnet_tx_tod_control(action))
    BY TodControlGood DEF GoodSet, artnet_tx_tod_control
  <2> QED BY <1>9, <1>1, <2>1 DEF artnet_send_tod_control
<1> QED BY <1>2, <1>3, <1>4, <1>5, <1>6, <1>7, <1>8, <1>9 DEF Programs

LEMMA NzsPacketsGood ==
  ASSUME NEW code, NEW data \in VlcData
  PROVE  GoodSet(NzsPackets(Subscribers, code, data))
<1>1. /\ data.len \in 1 .. 512 /\ data.vlc \in BOOLEAN
      /\ data.vlc => data.len >= ARTNET_VLC_MIN_LENGTH
  <2>1. CASE data = [len |-> 21, vlc |-> FALSE]
    BY <2>1
  <2>2. CASE data = [len |-> 22, vlc |-> FALSE]
    BY <2>2
  <2>3. CASE data = [len |-> 22, vlc |-> TRUE]
    BY <2>3 DEF ARTNET_VLC_MIN_LENGTH
  <2> QED BY <2>1, <2>2, <2>3 DEF VlcData
<1>2. ASSUME code \notin {0, 204}, NEW to
      PROVE  Good(Packet("nzs", to, data.len,
                         [startCode |-> code, len |-> data.len, vlc |-> data.vlc]))
  BY <1>1, <1>2, NzsGood
<1>3. ASSUME NEW p \in NzsPackets(Subscribers, code, data)
      PROVE  Good(p)
  BY <1>2, <1>3 DEF NzsPackets
<1> QED BY <1>3 DEF GoodSet

LEMMA PlaysGood ==
  ASSUME NEW n, Plays(n)
  PROVE  GoodSet(sent') /\ UNCHANGED <<mode, ip, peer, master, sd, sockets>>
<1>1. ASSUME NEW ps, artnet_net_send(n, ps), GoodSet(ps)
      PROVE  GoodSet(sent') /\ UNCHANGED <<mode, ip, peer, master, sd, sockets>>
  BY <1>1, NothingElse
<1>2. CASE artnet_send_sync(n)
  <2>1. GoodSet(artnet_tx_sync)
    BY PlainPackets DEF GoodSet, artnet_tx_sync
  <2> QED BY <1>2, <1>1, <2>1 DEF artnet_send_sync
<1>3. CASE artnet_raw_send_dmx(n)
  <2>1. ASSUME NEW len \in Payloads
        PROVE  GoodSet(tx_dmx(Subscribers, len))
    <3>1. ASSUME len \in 2 .. 512, len % 2 = 0, NEW to
          PROVE  Good(Packet("dmx", to, len, [len |-> len]))
      BY <3>1, DmxGood
    <3>2. ASSUME NEW p \in tx_dmx(Subscribers, len)
          PROVE  Good(p)
      BY <3>1, <3>2 DEF tx_dmx, ARTNET_DMX_LENGTH
    <3> QED BY <3>2 DEF GoodSet
  <2> QED BY <1>3, <1>1, <2>1 DEF artnet_raw_send_dmx
<1>4. CASE artnet_send_nzs(n)
  BY <1>4, <1>1, NzsPacketsGood DEF artnet_send_nzs
<1>5. CASE artnet_send_vlc(n)
  <2>1. \A data \in VlcData : GoodSet(VlcPackets(Subscribers, data))
    BY NzsPacketsGood DEF VlcPackets, GoodSet
  <2> QED BY <1>5, <1>1, <2>1 DEF artnet_send_vlc
<1>6. CASE artnet_send_command(n)
  <2>1. ASSUME NEW to, NEW text \in Texts
        PROVE  GoodSet(artnet_tx_command(to, text))
    <3>1. text.len \in 0 .. ARTNET_DMX_LENGTH =>
            Good(Packet("command", to, text.len, [len |-> text.len, nul |-> text.nul]))
      BY CommandGood DEF ARTNET_DMX_LENGTH
    <3> QED BY <3>1, IfSent, Zenon DEF artnet_tx_command
  <2> QED BY <1>6, <1>1, <2>1 DEF artnet_send_command
<1>7. CASE artnet_send_timecode(n)
  <2>1. ASSUME NEW t
        PROVE  GoodSet(artnet_tx_timecode(t))
    <3>1. TimecodeInRange(t) => Good(Packet("timecode", Broadcast, 0, t))
      BY TimecodeGood
    <3> QED BY <3>1, IfSent, Zenon DEF artnet_tx_timecode
  <2> QED BY <1>7, <1>1, <2>1 DEF artnet_send_timecode
<1>8. CASE artnet_send_timesync(n)
  <2>1. ASSUME NEW t
        PROVE  GoodSet(artnet_tx_timesync(t))
    <3>1. TimesyncInRange(t) => Good(Packet("timesync", Broadcast, 0, t))
      BY TimesyncGood
    <3> QED BY <3>1, IfSent, Zenon DEF artnet_tx_timesync
  <2> QED BY <1>8, <1>1, <2>1 DEF artnet_send_timesync
<1>9. CASE artnet_send_trigger(n)
  <2>1. ASSUME NEW key, NEW len
        PROVE  GoodSet(artnet_tx_trigger(key, len))
    <3>1. key <= 3 /\ len \in 0 .. ARTNET_DMX_LENGTH =>
            Good(Packet("trigger", Broadcast, 512, [key |-> key]))
      BY TriggerGood
    <3> DEFINE allowed == key <= 3 /\ len \in 0 .. ARTNET_DMX_LENGTH
               p == Packet("trigger", Broadcast, 512, [key |-> key])
    <3>2. artnet_tx_trigger(key, len) = SendIf(allowed, p)
      BY Zenon DEF artnet_tx_trigger
    <3>3. allowed => Good(p)
      BY <3>1
    <3> HIDE DEF allowed, p
    <3> QED BY <3>2, <3>3, IfSent
  <2> QED BY <1>9, <1>1, <2>1 DEF artnet_send_trigger
<1> QED BY <1>2, <1>3, <1>4, <1>5, <1>6, <1>7, <1>8, <1>9 DEF Plays

LEMMA TransfersGood ==
  ASSUME NEW n, Transfers(n)
  PROVE  GoodSet(sent') /\ UNCHANGED <<mode, ip, peer, master, sd, sockets>>
<1>1. ASSUME NEW ps, artnet_net_send(n, ps), GoodSet(ps)
      PROVE  GoodSet(sent') /\ UNCHANGED <<mode, ip, peer, master, sd, sockets>>
  BY <1>1, NothingElse
<1>2. CASE artnet_send_directory(n)
  <2>1. GoodSet(artnet_tx_directory(Subscribers))
    BY PlainPackets DEF GoodSet, artnet_tx_directory
  <2> QED BY <1>2, <1>1, <2>1 DEF artnet_send_directory
<1>3. CASE artnet_send_file_tn_master(n)
  <2>1. ASSUME NEW to, NEW words \in {0, 512, 513}
        PROVE  GoodSet(artnet_tx_file_tn_master(to, words))
    <3>1. 2 * Smaller(words, 512) \in Nat
      BY DEF Smaller
    <3> QED BY <3>1, PlainPackets DEF GoodSet, artnet_tx_file_tn_master
  <2> QED BY <1>3, <1>1, <2>1 DEF artnet_send_file_tn_master
<1>4. CASE artnet_send_file_fn_master(n)
  <2>1. ASSUME NEW to, NEW chars \in {0, 1, 256}
        PROVE  GoodSet(artnet_tx_file_fn_master(to, chars))
    <3>1. chars > 0 => Smaller(chars, 255) \in 1 .. 255
      BY DEF Smaller
    <3>2. chars > 0 =>
            Good(Packet("filefnmaster", to, 256, [len |-> Smaller(chars, 255), nul |-> TRUE]))
      BY <3>1, FileNameGood
    <3> QED BY <3>2, IfSent, Zenon DEF artnet_tx_file_fn_master
  <2> QED BY <1>4, <1>1, <2>1 DEF artnet_send_file_fn_master
<1>5. CASE artnet_send_media_patch(n)
  <2>1. ASSUME NEW to, NEW len
        PROVE  GoodSet(artnet_tx_media_patch(to, len))
    <3>1. len \in 1 .. ARTNET_DMX_LENGTH => Good(Packet("mediapatch", to, len, [len |-> len]))
      BY MediaPatchGood DEF ARTNET_DMX_LENGTH
    <3> QED BY <3>1, IfSent, Zenon DEF artnet_tx_media_patch
  <2> QED BY <1>5, <1>1, <2>1 DEF artnet_send_media_patch
<1>6. ASSUME NEW t \in {"mediacontrol", "mediacontrolreply"}, NEW to, NEW len \in Payloads
      PROVE  GoodSet(artnet_tx_media_control(t, to, len))
  <2>1. len \in Nat
    BY DEF Payloads
  <2>2. Good(Packet(t, to, len, NoBody))
    BY <2>1, PlainPackets
  <2> QED BY <2>2, IfSent DEF artnet_tx_media_control
<1>7. CASE artnet_send_media_control(n)
  BY <1>7, <1>1, <1>6 DEF artnet_send_media_control
<1>8. CASE artnet_send_media_control_reply(n)
  BY <1>8, <1>1, <1>6 DEF artnet_send_media_control_reply
<1> QED BY <1>2, <1>3, <1>4, <1>5, <1>7, <1>8 DEF Transfers

-----------------------------------------------------------------------------
(* The invariant: the peer pointers are a permutation of the nodes (a node *)
(* without a peer being its own successor), and every ring has one master. *)

OneMaster(next, m) ==
  \A n \in Nodes : \E x \in WalkOf(next, n) : m[x] /\ \A y \in WalkOf(next, n) : m[y] => y = x

NodesInv ==
  /\ mode \in [Nodes -> {"none", "standby", "on", "freed"}]
  /\ sd \in [Nodes -> Sockets \cup {NoSocket}]
  /\ open \subseteq Sockets
  /\ master \in [Nodes -> BOOLEAN]
  /\ RingLinks(peer)
  /\ OneMaster(peer, master)

LEMMA InitNodes ==
  ASSUME Init
  PROVE  NodesInv /\ SocketsOwned /\ GoodSet(sent)
<1>1. RingLinks(peer)
  BY DEF Init, RingLinks, Links, Successor
<1>2. OneMaster(peer, master)
  <2> SUFFICES ASSUME NEW n \in Nodes
               PROVE  \E x \in WalkOf(peer, n) :
                        master[x] /\ \A y \in WalkOf(peer, n) : master[y] => y = x
    BY DEF OneMaster
  <2>1. Closed(peer, {n})
    BY DEF Closed, Init
  <2>2. WalkOf(peer, n) \subseteq {n} /\ n \in WalkOf(peer, n)
    BY <1>1, <2>1, WalkStaysIn, WalkInNodes DEF RingLinks
  <2>3. master[n]
    BY DEF Init
  <2> QED BY <2>2, <2>3
<1>3. SocketsOwned /\ GoodSet(sent)
  BY DEF Init, SocketsOwned, GoodSet
<1> QED BY <1>1, <1>2, <1>3 DEF Init, NodesInv

LEMMA JoinKeepsMasters ==
  ASSUME NodesInv, NEW n1 \in Nodes, NEW n2 \in Nodes, artnet_join(n1, n2)
  PROVE  OneMaster(peer', master')
<1> DEFINE j == Joined(n1, n2)
           R == WalkOf(j, n1)
<1>1. peer' = j /\ master' = [m \in Nodes |-> m = n1 \/ (master[m] /\ m \notin R)]
  <2>1. peer' = j
    BY DEF artnet_join
  <2>2. master' = [m \in Nodes |-> m = n1 \/ (master[m] /\ m \notin WalkOf(peer', n1))]
    BY DEF artnet_join
  <2> HIDE DEF j
  <2> QED BY <2>1, <2>2
<1>2. RingLinks(peer) /\ OneMaster(peer, master)
  BY DEF NodesInv
<1>3. RingLinks(j) /\ j \in Links
  BY <1>2, JoinedIsRing DEF RingLinks
<1>4. R \subseteq Nodes /\ n1 \in R
  BY <1>3, WalkInNodes
<1>5. ASSUME NEW n \in Nodes
      PROVE  \E x \in WalkOf(j, n) : master'[x] /\ \A y \in WalkOf(j, n) : master'[y] => y = x
  <2>1. WalkOf(j, n) \subseteq Nodes
    BY <1>3, WalkInNodes
  <2>2. CASE n \in R
    <3>1. WalkOf(j, n) = R
      BY <2>2, <1>3, OneRing
    <3> HIDE DEF R, j
    <3> QED BY <3>1, <1>1, <1>4
  <2>3. CASE n \notin R
    <3>1. WalkOf(j, n) = WalkOf(peer, n) /\ WalkOf(peer, n) \cap R = {}
      BY <2>3, <1>2, JoinedOthers
    <3>2. PICK x \in WalkOf(peer, n) : master[x] /\ \A y \in WalkOf(peer, n) : master[y] => y = x
      BY <1>2 DEF OneMaster
    <3> HIDE DEF R, j
    <3>3. \A y \in WalkOf(j, n) : master'[y] <=> master[y]
      BY <3>1, <2>1, <1>1, <1>4
    <3> QED BY <3>1, <3>2, <3>3
  <2> QED BY <2>2, <2>3
<1> HIDE DEF j
<1> QED BY <1>1, <1>5 DEF OneMaster

LEMMA NewStep ==
  ASSUME NodesInv, NEW n \in Nodes, artnet_new(n)
  PROVE  NodesInv' /\ GoodSet(sent') /\ (SocketsOwned => SocketsOwned')
<1>1. /\ mode' \in [Nodes -> {"none", "standby", "on", "freed"}]
      /\ \A m \in Nodes : mode[m] = "on" => mode'[m] = "on"
      /\ UNCHANGED <<peer, master, sd, open, abandoned>> /\ sent' = {}
  BY DEF artnet_new, NodesInv, sockets
<1>2. NodesInv'
  BY <1>1 DEF NodesInv
<1>3. SocketsOwned => SocketsOwned'
  BY <1>1 DEF SocketsOwned
<1> QED BY <1>1, <1>2, <1>3 DEF GoodSet

LEMMA StartStep ==
  ASSUME NodesInv, NEW n \in Nodes, artnet_start(n)
  PROVE  NodesInv' /\ GoodSet(sent') /\ (SocketsOwned => SocketsOwned')
<1>1. /\ mode[n] = "standby" /\ mode' = [mode EXCEPT ![n] = "on"]
      /\ UNCHANGED <<peer, master, abandoned>> /\ artnet_net_start(n)
  BY DEF artnet_start
<1>2. GoodSet(sent')
  <2>1. CASE TypeOf[n] = "srv"
    <3>1. sent' = Reached(sd'[n], artnet_tx_poll("srv", Broadcast)
                                    \cup artnet_tx_tod_request(PortsOfNet))
      BY <2>1 DEF artnet_start
    <3>2. GoodSet(artnet_tx_poll("srv", Broadcast)) /\ GoodSet(artnet_tx_tod_request(PortsOfNet))
      BY PollsGood, TodRequestsGood
    <3> QED BY <3>1, <3>2 DEF Reached, GoodSet
  <2>2. CASE TypeOf[n] # "srv"
    BY <2>2 DEF artnet_start, GoodSet
  <2> QED BY <2>1, <2>2
<1>3. mode' \in [Nodes -> {"none", "standby", "on", "freed"}]
      /\ mode'[n] = "on" /\ \A m \in Nodes : mode[m] = "on" => mode'[m] = "on"
  BY <1>1 DEF NodesInv
<1>4. CASE ~master[n]
  <2>1. UNCHANGED <<sd, open>>
    BY <1>4, <1>1 DEF artnet_net_start
  <2> QED BY <2>1, <1>1, <1>2, <1>3 DEF NodesInv, SocketsOwned
<1>5. CASE master[n]
  <2>1. PICK s \in Sockets \ open :
          /\ sd' = [m \in Nodes |-> IF m \in Ring(n) THEN s ELSE sd[m]]
          /\ open' = open \cup {s}
    BY <1>5, <1>1 DEF artnet_net_start
  <2>2. peer \in Links /\ n \in Ring(n)
    BY WalkInNodes DEF NodesInv, RingLinks, Ring
  <2>3. NodesInv'
    BY <2>1, <1>1, <1>3 DEF NodesInv
  <2>4. ASSUME SocketsOwned
        PROVE  SocketsOwned'
    <3> SUFFICES ASSUME NEW t \in open' \ abandoned'
                 PROVE  \E k \in Nodes : mode'[k] = "on" /\ master'[k] /\ sd'[k] = t
      BY DEF SocketsOwned
    <3>1. CASE t = s
      BY <3>1, <2>1, <2>2, <1>1, <1>3, <1>5
    <3>2. CASE t \in open \ abandoned
      <4>1. PICK k \in Nodes : mode[k] = "on" /\ master[k] /\ sd[k] = t
        BY <3>2, <2>4 DEF SocketsOwned
      <4>2. k # n
        BY <4>1, <1>1
      <4>3. k \notin Ring(n)
        BY <4>1, <4>2, <2>2, <1>5 DEF NodesInv, OneMaster, Ring
      <4> QED BY <4>1, <4>3, <2>1, <1>1, <1>3
    <3> QED BY <3>1, <3>2, <2>1, <1>1
  <2> QED BY <2>3, <2>4, <1>2
<1> QED BY <1>4, <1>5 DEF NodesInv

LEMMA CloseStep ==
  ASSUME NodesInv, NEW n \in Nodes, artnet_stop(n) \/ artnet_destroy(n)
  PROVE  NodesInv' /\ GoodSet(sent') /\ (SocketsOwned => SocketsOwned')
<1>1. /\ mode' \in [Nodes -> {"none", "standby", "on", "freed"}]
      /\ \A m \in Nodes : m # n => mode'[m] = mode[m]
      /\ UNCHANGED <<peer, master, sd>> /\ sent' = {}
      /\ open' \subseteq open
      /\ open' \ abandoned' \subseteq open \ abandoned
      /\ mode[n] = "on" => open' = open \ {sd[n]}
  BY DEF artnet_stop, artnet_destroy, NodesInv
<1>2. NodesInv'
  BY <1>1 DEF NodesInv
<1>3. ASSUME SocketsOwned
      PROVE  SocketsOwned'
  <2> SUFFICES ASSUME NEW t \in open' \ abandoned'
               PROVE  \E k \in Nodes : mode'[k] = "on" /\ master'[k] /\ sd'[k] = t
    BY DEF SocketsOwned
  <2>1. PICK k \in Nodes : mode[k] = "on" /\ master[k] /\ sd[k] = t
    BY <1>1, <1>3 DEF SocketsOwned
  <2>2. k # n
    BY <2>1, <1>1
  <2> QED BY <2>1, <2>2, <1>1
<1> QED BY <1>1, <1>2, <1>3 DEF GoodSet

LEMMA JoinStep ==
  ASSUME NodesInv, NEW n1 \in Nodes, NEW n2 \in Nodes, artnet_join(n1, n2)
  PROVE  NodesInv' /\ GoodSet(sent') /\ (SocketsOwned => SocketsOwned')
<1>1. /\ peer' = Joined(n1, n2) /\ sent' = {} /\ UNCHANGED <<mode, sd, open>>
      /\ master' = [m \in Nodes |-> m = n1 \/ (master[m] /\ m \notin WalkOf(peer', n1))]
      /\ abandoned' = abandoned \cup
           (open \cap {sd[m] : m \in {x \in WalkOf(peer', n1) : mode[x] = "on"}})
  BY DEF artnet_join
<1>2. RingLinks(peer)
  BY DEF NodesInv
<1>3. RingLinks(peer')
  BY <1>1, <1>2, JoinedIsRing
<1>4. OneMaster(peer', master')
  BY JoinKeepsMasters
<1>5. master' \in [Nodes -> BOOLEAN]
  BY <1>1 DEF NodesInv
<1>6. NodesInv'
  BY <1>1, <1>3, <1>4, <1>5 DEF NodesInv
<1>7. ASSUME SocketsOwned
      PROVE  SocketsOwned'
  <2> SUFFICES ASSUME NEW t \in open' \ abandoned'
               PROVE  \E k \in Nodes : mode'[k] = "on" /\ master'[k] /\ sd'[k] = t
    BY DEF SocketsOwned
  <2>1. PICK k \in Nodes : mode[k] = "on" /\ master[k] /\ sd[k] = t
    BY <1>1, <1>7 DEF SocketsOwned
  <2>2. k \notin WalkOf(peer', n1)
    BY <2>1, <1>1
  <2> QED BY <2>1, <2>2, <1>1
<1> QED BY <1>1, <1>6, <1>7 DEF GoodSet

LEMMA NodesStep ==
  ASSUME NodesInv, GoodSet(sent), [Next]_vars
  PROVE  NodesInv' /\ GoodSet(sent') /\ (SocketsOwned => SocketsOwned')
<1>1. CASE UNCHANGED vars
  BY <1>1 DEF vars, sockets, NodesInv, SocketsOwned
<1>2. ASSUME NEW n \in Nodes, Lives(n)
      PROVE  NodesInv' /\ GoodSet(sent') /\ (SocketsOwned => SocketsOwned')
  BY <1>2, NewStep, StartStep, CloseStep, Zenon DEF Lives
<1>3. ASSUME NEW n \in Nodes, Programs(n) \/ Plays(n) \/ Transfers(n)
      PROVE  NodesInv' /\ GoodSet(sent') /\ (SocketsOwned => SocketsOwned')
  <2>1. GoodSet(sent') /\ UNCHANGED <<mode, ip, peer, master, sd, sockets>>
    BY <1>3, ProgramsGood, PlaysGood, TransfersGood
  <2> QED BY <2>1 DEF sockets, NodesInv, SocketsOwned
<1>4. CASE \E n1, n2 \in Nodes : artnet_join(n1, n2)
  BY <1>4, JoinStep, Zenon
<1> QED BY <1>1, <1>2, <1>3, <1>4, Zenon DEF Next

LEMMA InvImpliesRings ==
  ASSUME NodesInv
  PROVE  RingsSound
<1> SUFFICES ASSUME NEW n \in Nodes
             PROVE  /\ \A m \in Ring(n) : n \in Ring(m)
                    /\ Cardinality({m \in Ring(n) : master[m]}) = 1
                    /\ peer[n] = NoNode => Ring(n) = {n}
  BY DEF RingsSound
<1>1. RingLinks(peer) /\ peer \in Links
  BY DEF NodesInv, RingLinks
<1>2. \A m \in Ring(n) : n \in Ring(m)
  BY <1>1, RingReturns DEF Ring
<1>3. PICK x \in Ring(n) : master[x] /\ \A y \in Ring(n) : master[y] => y = x
  BY DEF NodesInv, OneMaster, Ring
<1>4. {m \in Ring(n) : master[m]} = {x}
  BY <1>3
<1>5. Cardinality({m \in Ring(n) : master[m]}) = 1
  BY <1>4, FS_Singleton
<1>6. ASSUME peer[n] = NoNode
      PROVE  Ring(n) = {n}
  <2>1. Closed(peer, {n})
    BY <1>6 DEF Closed
  <2> QED BY <2>1, <1>1, WalkStaysIn, WalkInNodes DEF Ring
<1> QED BY <1>2, <1>5, <1>6

(* However the nodes of a program are created, joined, started, stopped    *)
(* and destroyed, artnet_join leaves rings that close, each with exactly   *)
(* one master, whether or not nodes of the rings are running.              *)
THEOREM RingsClose == Spec => []RingsSound
<1>1. Init => NodesInv /\ GoodSet(sent)
  BY InitNodes
<1>2. NodesInv /\ GoodSet(sent) /\ [Next]_vars => NodesInv' /\ GoodSet(sent)'
  BY NodesStep DEF GoodSet
<1>3. NodesInv => RingsSound
  BY InvImpliesRings
<1> QED BY <1>1, <1>2, <1>3, PTL DEF Spec

(* Every packet one of the library's transmitting functions lays out       *)
(* passes packet_length_is_valid and packet_fields_are_valid of a node of  *)
(* the library that receives it, or carries a value the caller answers for.*)
THEOREM SendersAndReceiversAgree == Spec => []SentIsAccepted
<1>1. Init => NodesInv /\ GoodSet(sent)
  BY InitNodes
<1>2. NodesInv /\ GoodSet(sent) /\ [Next]_vars => NodesInv' /\ GoodSet(sent)'
  BY NodesStep DEF GoodSet
<1>3. GoodSet(sent) => SentIsAccepted
  BY Zenon DEF GoodSet, Good, SentIsAccepted
<1> QED BY <1>1, <1>2, <1>3, PTL DEF Spec

(* In whatever order artnet_join, artnet_start, artnet_stop and            *)
(* artnet_destroy are called for the nodes that share sockets, every open  *)
(* socket belongs to a running master that will close it, but those of the *)
(* nodes that ran while artnet_join put their ring under another master.   *)
THEOREM SocketsHaveOwners == Spec => []SocketsOwned
<1>1. Init => NodesInv /\ GoodSet(sent) /\ SocketsOwned
  BY InitNodes
<1>2. NodesInv /\ GoodSet(sent) /\ SocketsOwned /\ [Next]_vars
        => NodesInv' /\ GoodSet(sent)' /\ SocketsOwned'
  BY NodesStep DEF GoodSet
<1> QED BY <1>1, <1>2, PTL DEF Spec
=============================================================================
