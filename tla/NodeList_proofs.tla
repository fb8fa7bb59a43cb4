---------------------------- MODULE NodeList_proofs ----------------------------
(***************************************************************************)
(* Proofs about the list of discovered nodes (NodeList): it stays a sound  *)
(* linked list, it holds whom the node has heard of, and a reader under    *)
(* the sequence lock sees it as it was at one moment, for any number of    *)
(* nodes and any heap.                                                     *)
(*                                                                         *)
(* The argument names the cells of the list in order: a chain of length n  *)
(* is a function s from 1 .. n to Cells.                                   *)
(***************************************************************************)
EXTENDS NodeList, FiniteSetTheorems, TLAPS

LEMMA LeastNat ==
  ASSUME NEW T \in SUBSET Nat, T # {}
  PROVE  \E n \in T : \A m \in T : n <= m
<1>1. PICK n \in T : \A m \in T : <<m, n>> \notin OpToRel(<, Nat)
  BY WFMin, NatLessThanWellFounded, Zenon
<1>2. \A m \in T : ~(m < n)
  BY <1>1, Zenon DEF OpToRel
<1> QED BY <1>2

-----------------------------------------------------------------------------
(* Following the next pointers.                                            *)

(* s names the cells from first on, in the order the pointers of h give.   *)
IsChain(h, first, n, s) ==
  /\ s \in [1 .. n -> Cells]
  /\ \A i, j \in 1 .. n : s[i] = s[j] => i = j
  /\ first = IF n = 0 THEN Nil ELSE s[1]
  /\ \A i \in 1 .. n : h[s[i]].next = IF i = n THEN Nil ELSE s[i + 1]

LEMMA CellCount == Cardinality(Cells) \in Nat
BY HeapAssumption, FS_CardinalityType

(* A chain has at most as many cells as the heap.                          *)
LEMMA ChainFits ==
  ASSUME NEW h, NEW first, NEW n \in Nat, NEW s, IsChain(h, first, n, s)
  PROVE  n <= Cardinality(Cells)
<1>1. s \in Injection(1 .. n, Cells)
  BY DEF IsChain, Injection, IsInjective
<1>2. Cardinality(1 .. n) <= Cardinality(Cells)
  BY <1>1, HeapAssumption, FS_Injection
<1>3. Cardinality(1 .. n) = n
  BY FS_Interval
<1> QED BY <1>2, <1>3

Hops(c) ==
  CHOOSE cell : cell = [k \in 0 .. Cardinality(Cells) |->
    IF k = 0 THEN c ELSE IF cell[k - 1] = Nil THEN Nil ELSE heap[cell[k - 1]].next]

LEMMA FollowHops ==
  ASSUME NEW c
  PROVE  Follow(c) =
           [k \in 1 .. Cardinality({i \in DOMAIN Hops(c) : Hops(c)[i] # Nil}) |-> Hops(c)[k - 1]]
BY Zenon DEF Follow, Hops

LEMMA HopsAlong ==
  ASSUME NEW c, NEW n \in Nat, NEW s, IsChain(heap, c, n, s)
  PROVE  /\ DOMAIN Hops(c) = 0 .. Cardinality(Cells)
         /\ \A k \in 0 .. Cardinality(Cells) : Hops(c)[k] = IF k < n THEN s[k + 1] ELSE Nil
<1> DEFINE N == Cardinality(Cells)
           v == [k \in 0 .. N |-> IF k < n THEN s[k + 1] ELSE Nil]
           w == Hops(c)
<1>1. N \in Nat /\ n <= N
  BY CellCount, ChainFits
<1>2. /\ s \in [1 .. n -> Cells] /\ Nil \notin Cells
      /\ c = IF n = 0 THEN Nil ELSE s[1]
      /\ \A i \in 1 .. n : heap[s[i]].next = IF i = n THEN Nil ELSE s[i + 1]
  BY HeapAssumption DEF IsChain
<1> HIDE DEF N
<1>3. \A k \in 0 .. N :
        v[k] = IF k = 0 THEN c ELSE IF v[k - 1] = Nil THEN Nil ELSE heap[v[k - 1]].next
  <2> TAKE k \in 0 .. N
  <2>1. CASE k = 0
    BY <2>1, <1>1, <1>2
  <2>2. CASE k # 0 /\ k - 1 < n
    <3>1. k \in 1 .. n /\ (k - 1) + 1 = k /\ k - 1 \in 0 .. N
      BY <2>2, <1>1
    <3>2. v[k - 1] = s[k]
      BY <3>1
    <3>3. v[k - 1] # Nil /\ heap[v[k - 1]].next = IF k = n THEN Nil ELSE s[k + 1]
      BY <3>1, <3>2, <1>2
    <3>4. v[k] = IF k = n THEN Nil ELSE s[k + 1]
      BY <3>1
    <3> HIDE DEF v
    <3> QED BY <3>3, <3>4, <2>2
  <2>3. CASE k # 0 /\ ~(k - 1 < n)
    <3>1. v[k] = Nil /\ v[k - 1] = Nil
      BY <2>3, <1>1
    <3> HIDE DEF v
    <3> QED BY <3>1, <2>3
  <2> QED BY <2>1, <2>2, <2>3
<1>4. v = [k \in 0 .. N |-> v[k]]
  OBVIOUS
<1>5. v = [k \in 0 .. N |->
             IF k = 0 THEN c ELSE IF v[k - 1] = Nil THEN Nil ELSE heap[v[k - 1]].next]
  <2> HIDE DEF v
  <2> QED BY <1>3, <1>4
<1>6. w = [k \in 0 .. N |->
             IF k = 0 THEN c ELSE IF w[k - 1] = Nil THEN Nil ELSE heap[w[k - 1]].next]
  <2> HIDE DEF v
  <2> QED BY <1>5, Zenon DEF Hops, N
<1> HIDE DEF w
<1>7. DOMAIN w = 0 .. N
  BY <1>6
<1>8. \A k \in 0 .. N :
        w[k] = IF k = 0 THEN c ELSE IF w[k - 1] = Nil THEN Nil ELSE heap[w[k - 1]].next
  BY <1>6, Zenon
<1> HIDE DEF v
<1>9. \A k \in 0 .. N : w[k] = v[k]
  <2> DEFINE E == {k \in 0 .. N : w[k] # v[k]}
  <2> SUFFICES ASSUME E # {}
               PROVE  FALSE
    OBVIOUS
  <2>1. PICK k \in E : \A m \in E : k <= m
    <3>1. E \in SUBSET Nat
      BY <1>1
    <3> HIDE DEF E
    <3> QED BY <3>1, LeastNat
  <2>2. CASE k = 0
    BY <2>1, <2>2, <1>3, <1>8
  <2>3. CASE k # 0
    <3>1. k - 1 \in 0 .. N /\ k - 1 \notin E
      BY <2>1, <2>3, <1>1
    <3>2. w[k - 1] = v[k - 1]
      BY <3>1
    <3> QED BY <2>1, <2>3, <3>2, <1>3, <1>8
  <2> QED BY <2>2, <2>3
<1>10. \A k \in 0 .. N : w[k] = IF k < n THEN s[k + 1] ELSE Nil
  BY <1>9 DEF v
<1> QED BY <1>7, <1>10 DEF w, N

LEMMA FollowChain ==
  ASSUME NEW c, NEW n \in Nat, NEW s, IsChain(heap, c, n, s)
  PROVE  Follow(c) = s
<1> DEFINE N == Cardinality(Cells)
           w == Hops(c)
           I == {i \in DOMAIN w : w[i] # Nil}
<1>1. N \in Nat /\ n <= N
  BY CellCount, ChainFits
<1>2. DOMAIN w = 0 .. N /\ \A k \in 0 .. N : w[k] = IF k < n THEN s[k + 1] ELSE Nil
  BY HopsAlong
<1>3. s \in [1 .. n -> Cells] /\ Nil \notin Cells
  BY HeapAssumption DEF IsChain
<1>4. Follow(c) = [k \in 1 .. Cardinality(I) |-> w[k - 1]]
  BY FollowHops
<1> HIDE DEF w, N
<1>5. I = 0 .. n - 1
  BY <1>1, <1>2, <1>3
<1>6. Cardinality(I) = n
  <2>1. Cardinality(0 .. n - 1) = n
    BY FS_Interval
  <2> QED BY <2>1, <1>5
<1> HIDE DEF I
<1>7. \A k \in 1 .. n : w[k - 1] = s[k]
  BY <1>1, <1>2
<1>8. Follow(c) = [k \in 1 .. n |-> w[k - 1]]
  BY <1>4, <1>6
<1> QED BY <1>8, <1>7, <1>3

-----------------------------------------------------------------------------
(* The invariant of the list.                                              *)

Places == {"idle", "recv", "update", "updated", "check", "expire", "expired", "send"}
Address == Cells \cup {Nil}

ListTypes ==
  /\ heap \in [Cells -> [node : Nodes \cup {Nil}, age : 0 .. Old, next : Address, live : BOOLEAN]]
  /\ list \in [first : Address, last : Address, current : Address, length : Nat]
  /\ loop \in [at : Places, node : Nodes \cup {Nil}, pp : Address]
  /\ silence \in [Nodes -> 0 .. Old]
  /\ loop.at = "update" => loop.node \in Nodes

(* The cells of the chain are the allocated ones, hold one node each, and  *)
(* an entry is as old as its node has been silent.                         *)
HoldsNodes(n, s) ==
  /\ \A c \in Cells : heap[c].live <=> \E i \in 1 .. n : s[i] = c
  /\ \A i \in 1 .. n : heap[s[i]].node \in Nodes
  /\ \A i, j \in 1 .. n : heap[s[i]].node = heap[s[j]].node => i = j
  /\ \A i \in 1 .. n : heap[s[i]].age = silence[heap[s[i]].node]
  /\ \A m \in Nodes : silence[m] <= NodeTimeout => \E i \in 1 .. n : heap[s[i]].node = m

(* While entries are dropped, last and current are left behind.            *)
Ends(n, s) ==
  /\ list.length = n
  /\ loop.at # "expire" =>
       /\ list.last = IF n = 0 THEN Nil ELSE s[n]
       /\ list.current # Nil => heap[list.current].live
  /\ loop.at = "expire" /\ loop.pp # Nil => heap[loop.pp].live

ListOf(n, s) ==
  /\ IsChain(heap, list.first, n, s)
  /\ HoldsNodes(n, s)
  /\ Ends(n, s)

ListInv == ListTypes /\ \E n \in Nat : \E s : ListOf(n, s)

LEMMA ListInit ==
  ASSUME Init
  PROVE  ListInv
<1> DEFINE s == [i \in 1 .. 0 |-> Nil]
<1>1. ListTypes
  BY BoundAssumption DEF Init, ListTypes, FreeCell, Address, Places, Old
<1>2. IsChain(heap, list.first, 0, s)
  BY DEF IsChain, Init
<1>3. HoldsNodes(0, s)
  BY BoundAssumption DEF HoldsNodes, Init, FreeCell, Old
<1>4. Ends(0, s)
  BY DEF Ends, Init
<1> HIDE DEF s
<1> QED BY <1>1, <1>2, <1>3, <1>4 DEF ListInv, ListOf

(* Steps that leave the list alone.                                        *)
LEMMA ListKept ==
  ASSUME ListInv, UNCHANGED <<heap, list, silence>>,
         loop' \in [at : Places, node : Nodes \cup {Nil}, pp : Address],
         loop'.at = "update" => loop'.node \in Nodes,
         loop.at = "expire" => loop'.at = "expire",
         loop'.at = "expire" /\ loop'.pp # Nil => heap[loop'.pp].live
  PROVE  ListInv'
<1>0. PICK n \in Nat : \E s : ListOf(n, s)
  BY DEF ListInv
<1>1. PICK s : ListOf(n, s)
  BY <1>0
<1>2. ListTypes'
  BY DEF ListInv, ListTypes
<1>3. ListOf(n, s)'
  BY <1>1 DEF ListOf, HoldsNodes, Ends
<1> QED BY <1>2, <1>3 DEF ListInv

LEMMA TickList ==
  ASSUME ListInv, Tick
  PROVE  ListInv'
<1>0. PICK n \in Nat : \E s : ListOf(n, s)
  BY DEF ListInv
<1>1. PICK s : ListOf(n, s)
  BY <1>0
<1>2. /\ heap' = [c \in Cells |-> IF heap[c].live THEN [heap[c] EXCEPT !.age = Older(@)]
                                                 ELSE heap[c]]
      /\ silence' = [m \in Nodes |-> Older(silence[m])]
      /\ UNCHANGED <<list, loop>>
  BY DEF Tick
<1>3. ListTypes
  BY DEF ListInv
<1>4. \A age \in 0 .. Old : Older(age) \in 0 .. Old /\ (Older(age) <= NodeTimeout => age <= NodeTimeout)
  BY BoundAssumption DEF Older, Old
<1>5. ASSUME NEW c \in Cells
      PROVE  /\ heap'[c] \in [node : Nodes \cup {Nil}, age : 0 .. Old, next : Address, live : BOOLEAN]
             /\ heap'[c].node = heap[c].node /\ heap'[c].next = heap[c].next
             /\ heap'[c].live = heap[c].live
             /\ heap[c].live => heap'[c].age = Older(heap[c].age)
  <2>1. heap[c] \in [node : Nodes \cup {Nil}, age : 0 .. Old, next : Address, live : BOOLEAN]
    BY <1>3 DEF ListTypes
  <2>2. heap[c].age \in 0 .. Old
    BY <2>1
  <2>3. Older(heap[c].age) \in 0 .. Old
    BY <2>2, <1>4
  <2>4. heap'[c] = IF heap[c].live THEN [heap[c] EXCEPT !.age = Older(heap[c].age)] ELSE heap[c]
    BY <1>2
  <2> HIDE DEF Address
  <2> QED BY <2>1, <2>3, <2>4
<1>6. heap' \in [Cells -> [node : Nodes \cup {Nil}, age : 0 .. Old, next : Address, live : BOOLEAN]]
  BY <1>2, <1>5
<1>7. silence' \in [Nodes -> 0 .. Old] /\ \A m \in Nodes : silence'[m] = Older(silence[m])
  BY <1>2, <1>3, <1>4 DEF ListTypes
<1>8. ListTypes'
  BY <1>6, <1>7, <1>2, <1>3 DEF ListTypes
<1>9. /\ IsChain(heap, list.first, n, s) /\ HoldsNodes(n, s) /\ Ends(n, s)
      /\ \A i \in 1 .. n : s[i] \in Cells
  BY <1>1 DEF ListOf, IsChain
<1>10. IsChain(heap', list'.first, n, s)
  BY <1>9, <1>5, <1>2 DEF IsChain
<1>11. HoldsNodes(n, s)'
  <2>1. \A c \in Cells : heap'[c].live <=> \E i \in 1 .. n : s[i] = c
    BY <1>9, <1>5 DEF HoldsNodes
  <2>2. \A i \in 1 .. n : heap'[s[i]].node \in Nodes /\ heap'[s[i]].node = heap[s[i]].node
    BY <1>9, <1>5 DEF HoldsNodes
  <2>3. \A i \in 1 .. n : heap'[s[i]].age = silence'[heap'[s[i]].node]
    <3> TAKE i \in 1 .. n
    <3>1. heap[s[i]].live /\ heap[s[i]].age = silence[heap[s[i]].node]
      BY <1>9 DEF HoldsNodes
    <3>2. heap'[s[i]].age = Older(heap[s[i]].age)
      BY <3>1, <1>5, <1>9
    <3> QED BY <3>1, <3>2, <2>2, <1>7
  <2>4. \A m \in Nodes : silence'[m] <= NodeTimeout => silence[m] <= NodeTimeout
    BY <1>7, <1>4, <1>3 DEF ListTypes
  <2> QED BY <2>1, <2>2, <2>3, <2>4, <1>9 DEF HoldsNodes
<1>12. Ends(n, s)'
  <2>1. list.current \in Address /\ loop.pp \in Address
    BY <1>3 DEF ListTypes
  <2> QED BY <2>1, <1>9, <1>5, <1>2 DEF Ends, Address
<1> QED BY <1>8, <1>10, <1>11, <1>12 DEF ListInv, ListOf

LEMMA EntriesAre ==
  ASSUME NEW n \in Nat, NEW s, ListOf(n, s)
  PROVE  /\ Entries = s
         /\ DOMAIN s = 1 .. n /\ \A i \in 1 .. n : s[i] \in Cells
         /\ ToSet(Entries) = {s[i] : i \in 1 .. n}
         /\ Listed = {heap[s[i]].node : i \in 1 .. n}
<1>1. IsChain(heap, list.first, n, s)
  BY DEF ListOf
<1>2. Entries = s
  BY <1>1, FollowChain DEF Entries
<1>3. DOMAIN s = 1 .. n /\ \A i \in 1 .. n : s[i] \in Cells
  BY <1>1 DEF IsChain
<1>4. ToSet(Entries) = {s[i] : i \in 1 .. n}
  BY <1>2, <1>3 DEF ToSet
<1>5. Listed = {heap[s[i]].node : i \in 1 .. n}
  BY <1>2, <1>3 DEF Listed, NodesOf, ToSet
<1> QED BY <1>2, <1>3, <1>4, <1>5

Cell == [node : Nodes \cup {Nil}, age : 0 .. Old, next : Address, live : BOOLEAN]

LEMMA RefreshList ==
  ASSUME ListInv, loop.at = "update", NEW c \in ToSet(Entries), heap[c].node = loop.node,
         Refresh(c), silence' = [silence EXCEPT ![loop.node] = 0]
  PROVE  ListInv'
<1>0. PICK n \in Nat : \E s : ListOf(n, s)
  BY DEF ListInv
<1>1. PICK s : ListOf(n, s)
  BY <1>0
<1>2. ListTypes /\ loop.node \in Nodes
  BY DEF ListInv, ListTypes
<1>3. PICK k \in 1 .. n : c = s[k]
  BY <1>1, EntriesAre
<1>4. /\ IsChain(heap, list.first, n, s) /\ HoldsNodes(n, s) /\ Ends(n, s)
      /\ \A i \in 1 .. n : s[i] \in Cells /\ c \in Cells
  BY <1>1, <1>3 DEF ListOf, IsChain
<1>5. /\ heap' = [heap EXCEPT ![c].age = 0] /\ UNCHANGED list
      /\ loop' = [at |-> "updated", node |-> Nil, pp |-> Nil]
  BY DEF Refresh, GoTo
<1>6. heap[c] \in Cell
  BY <1>2, <1>3, <1>4 DEF ListTypes, Cell
<1>7. heap' = [heap EXCEPT ![c] = [heap[c] EXCEPT !.age = 0]]
  BY <1>5
<1>8. [heap[c] EXCEPT !.age = 0] \in Cell
  BY <1>6, BoundAssumption DEF Cell, Old
<1>9. /\ heap' \in [Cells -> Cell]
      /\ \A d \in Cells : heap'[d] = IF d = c THEN [heap[c] EXCEPT !.age = 0] ELSE heap[d]
  BY <1>7, <1>8, <1>2 DEF ListTypes, Cell
<1>10. /\ silence' \in [Nodes -> 0 .. Old]
       /\ \A m \in Nodes : silence'[m] = IF m = loop.node THEN 0 ELSE silence[m]
  BY <1>2, BoundAssumption DEF ListTypes, Old
<1>11. ASSUME NEW d \in Cells
       PROVE  /\ heap'[d].node = heap[d].node /\ heap'[d].next = heap[d].next
              /\ heap'[d].live = heap[d].live
              /\ heap'[d].age = IF d = c THEN 0 ELSE heap[d].age
  BY <1>6, <1>9 DEF Cell
<1>12. ListTypes'
  BY <1>5, <1>9, <1>10, <1>2 DEF ListTypes, Cell, Places, Address
<1>13. IsChain(heap', list'.first, n, s)
  BY <1>4, <1>5, <1>11 DEF IsChain
<1>14. HoldsNodes(n, s)'
  <2>1. \A d \in Cells : heap'[d].live <=> \E i \in 1 .. n : s[i] = d
    BY <1>4, <1>11 DEF HoldsNodes
  <2>2. \A i \in 1 .. n : heap'[s[i]].node = heap[s[i]].node /\ heap[s[i]].node \in Nodes
    BY <1>4, <1>11 DEF HoldsNodes
  <2>3. \A i \in 1 .. n : heap'[s[i]].age = silence'[heap'[s[i]].node]
    <3> TAKE i \in 1 .. n
    <3>1. heap[s[i]].age = silence[heap[s[i]].node]
      BY <1>4 DEF HoldsNodes
    <3>2. s[i] = c <=> heap[s[i]].node = loop.node
      BY <1>3, <1>4 DEF HoldsNodes
    <3> QED BY <3>1, <3>2, <2>2, <1>10, <1>11, <1>4
  <2>4. \A m \in Nodes : silence'[m] <= NodeTimeout => \E i \in 1 .. n : heap'[s[i]].node = m
    <3> SUFFICES ASSUME NEW m \in Nodes, silence'[m] <= NodeTimeout
                 PROVE  \E i \in 1 .. n : heap'[s[i]].node = m
      OBVIOUS
    <3>1. CASE m = loop.node
      BY <3>1, <1>3, <2>2
    <3>2. CASE m # loop.node
      BY <3>2, <1>10, <1>4, <2>2 DEF HoldsNodes
    <3> QED BY <3>1, <3>2
  <2>5. \A i, j \in 1 .. n : heap'[s[i]].node = heap'[s[j]].node => i = j
    BY <2>2, <1>4 DEF HoldsNodes
  <2> QED BY <2>1, <2>2, <2>3, <2>4, <2>5 DEF HoldsNodes
<1>15. Ends(n, s)'
  <2>1. list.current \in Address
    BY <1>2 DEF ListTypes
  <2> QED BY <2>1, <1>4, <1>5, <1>11 DEF Ends, Address
<1> QED BY <1>12, <1>13, <1>14, <1>15 DEF ListInv, ListOf

(* A new entry goes behind the last one.                                   *)
LEMMA AddToList ==
  ASSUME ListInv, loop.at = "update", loop.node \notin Listed,
         NEW c \in Cells, ~heap[c].live, AddEntry(c),
         silence' = [silence EXCEPT ![loop.node] = 0],
         loop' = [at |-> "updated", node |-> Nil, pp |-> Nil]
  PROVE  ListInv'
<1>0. PICK n \in Nat : \E s : ListOf(n, s)
  BY DEF ListInv
<1>1. PICK s : ListOf(n, s)
  BY <1>0
<1>2. ListTypes /\ loop.node \in Nodes /\ Nil \notin Cells
  BY HeapAssumption DEF ListInv, ListTypes
<1>3. /\ IsChain(heap, list.first, n, s) /\ HoldsNodes(n, s) /\ Ends(n, s)
      /\ s \in [1 .. n -> Cells]
  BY <1>1 DEF ListOf, IsChain
<1> DEFINE t == [i \in 1 .. n + 1 |-> IF i = n + 1 THEN c ELSE s[i]]
           entry == [node |-> loop.node, age |-> 0, next |-> Nil, live |-> TRUE]
<1>4. /\ t \in [1 .. n + 1 -> Cells] /\ t[n + 1] = c
      /\ \A i \in 1 .. n : t[i] = s[i] /\ i \in 1 .. n + 1 /\ i # n + 1
      /\ \A i \in 1 .. n + 1 : i # n + 1 => i \in 1 .. n
  BY <1>3
<1>5. /\ \A i \in 1 .. n : s[i] # c /\ s[i] \in Cells /\ heap[s[i]].live
      /\ \A i \in 1 .. n : heap[s[i]].node # loop.node
  <2>1. \A i \in 1 .. n : heap[s[i]].node # loop.node
    BY <1>1, EntriesAre
  <2> QED BY <2>1, <1>3 DEF HoldsNodes
<1>6. list.last = IF n = 0 THEN Nil ELSE s[n]
  BY <1>3 DEF Ends
<1>7. /\ heap' = [d \in Cells |->
            IF d = c THEN entry
            ELSE IF d = list.last THEN [heap[d] EXCEPT !.next = c] ELSE heap[d]]
      /\ list' = [list EXCEPT !.first = IF @ = Nil THEN c ELSE @, !.last = c, !.length = @ + 1]
  BY DEF AddEntry
<1>8. entry \in Cell
  BY <1>2, BoundAssumption DEF Cell, Address, Old
<1>9. ASSUME NEW d \in Cells, d # c
      PROVE  /\ heap'[d] \in Cell
             /\ heap'[d].node = heap[d].node /\ heap'[d].age = heap[d].age
             /\ heap'[d].live = heap[d].live
             /\ heap'[d].next = IF d = list.last THEN c ELSE heap[d].next
  <2>1. heap[d] \in Cell /\ c \in Address
    BY <1>2 DEF ListTypes, Cell, Address
  <2>2. heap'[d] = IF d = list.last THEN [heap[d] EXCEPT !.next = c] ELSE heap[d]
    BY <1>7, <1>9
  <2> HIDE DEF Address
  <2> QED BY <2>1, <2>2 DEF Cell
<1>10. /\ heap'[c].node = loop.node /\ heap'[c].age = 0 /\ heap'[c].next = Nil
       /\ heap'[c].live = TRUE /\ heap'[c] \in Cell
  BY <1>7, <1>8
<1> HIDE DEF entry, t
<1>11. heap' \in [Cells -> Cell]
  BY <1>7, <1>9, <1>10
<1>12. /\ list'.first = (IF n = 0 THEN c ELSE list.first) /\ list'.last = c
       /\ list'.length = list.length + 1 /\ list'.current = list.current
       /\ list' \in [first : Address, last : Address, current : Address, length : Nat]
  <2>1. list \in [first : Address, last : Address, current : Address, length : Nat]
    BY <1>2 DEF ListTypes
  <2>2. list.first = Nil <=> n = 0
    BY <1>2, <1>3 DEF IsChain
  <2>3. list' = [list EXCEPT !.first = IF n = 0 THEN c ELSE list.first, !.last = c,
                             !.length = list.length + 1]
    BY <1>7, <2>2
  <2>4. c \in Address
    BY DEF Address
  <2> HIDE DEF Address
  <2>5. (IF n = 0 THEN c ELSE list.first) \in Address /\ list.length + 1 \in Nat
    BY <2>1, <2>4
  <2>6. /\ list'.first = (IF n = 0 THEN c ELSE list.first) /\ list'.last = c
        /\ list'.length = list.length + 1 /\ list'.current = list.current
    BY <2>1, <2>3
  <2>7. list' \in [first : Address, last : Address, current : Address, length : Nat]
    BY <2>1, <2>3, <2>4, <2>5
  <2> QED BY <2>6, <2>7
<1>13. /\ silence' \in [Nodes -> 0 .. Old]
       /\ \A m \in Nodes : silence'[m] = IF m = loop.node THEN 0 ELSE silence[m]
  BY <1>2, BoundAssumption DEF ListTypes, Old
<1>14. ListTypes'
  BY <1>11, <1>12, <1>13 DEF ListTypes, Cell, Places, Address
<1>15. IsChain(heap', list'.first, n + 1, t)
  <2>1. \A i, j \in 1 .. n + 1 : t[i] = t[j] => i = j
    BY <1>3, <1>4, <1>5 DEF IsChain
  <2>2. list'.first = t[1]
    BY <1>12, <1>4, <1>3 DEF IsChain
  <2>3. ASSUME NEW i \in 1 .. n + 1
        PROVE  heap'[t[i]].next = IF i = n + 1 THEN Nil ELSE t[i + 1]
    <3>1. CASE i = n + 1
      BY <3>1, <1>4, <1>10
    <3>2. CASE i = n
      <4>1. t[i] = s[n] /\ t[i + 1] = c /\ s[n] = list.last /\ s[n] \in Cells /\ s[n] # c
        BY <3>2, <1>4, <1>5, <1>6
      <4> QED BY <4>1, <1>9, <3>2
    <3>3. CASE i \in 1 .. n - 1
      <4>1. /\ i \in 1 .. n /\ i # n /\ n \in 1 .. n /\ i + 1 \in 1 .. n /\ n # 0
            /\ t[i] = s[i] /\ t[i + 1] = s[i + 1] /\ s[i] \in Cells /\ s[i] # c
        BY <3>3, <1>4, <1>5
      <4>2. s[i] # list.last
        BY <4>1, <1>6, <1>3 DEF IsChain
      <4>3. heap[s[i]].next = s[i + 1]
        BY <4>1, <1>3 DEF IsChain
      <4>4. heap'[s[i]].next = s[i + 1]
        BY <4>1, <4>2, <4>3, <1>9
      <4> QED BY <4>1, <4>4, <3>3
    <3> QED BY <3>1, <3>2, <3>3
  <2>4. n + 1 # 0
    OBVIOUS
  <2> QED BY <2>1, <2>2, <2>3, <2>4, <1>4 DEF IsChain
<1>16. HoldsNodes(n + 1, t)'
  <2>1. ASSUME NEW d \in Cells
        PROVE  heap'[d].live <=> \E i \in 1 .. n + 1 : t[i] = d
    <3>1. CASE d = c
      <4>1. n + 1 \in 1 .. n + 1
        OBVIOUS
      <4> QED BY <3>1, <4>1, <1>10, <1>4
    <3>2. CASE d # c
      BY <3>2, <1>9, <1>3, <1>4 DEF HoldsNodes
    <3> QED BY <3>1, <3>2
  <2>2. \A i \in 1 .. n : /\ heap'[t[i]].node = heap[s[i]].node /\ heap[s[i]].node \in Nodes
                          /\ heap'[t[i]].age = heap[s[i]].age
    BY <1>3, <1>4, <1>5, <1>9 DEF HoldsNodes
  <2>3. heap'[t[n + 1]].node = loop.node /\ heap'[t[n + 1]].age = 0
    BY <1>4, <1>10
  <2>4. \A i \in 1 .. n + 1 : heap'[t[i]].node \in Nodes
    BY <2>2, <2>3, <1>2, <1>4
  <2>5. \A i, j \in 1 .. n + 1 : heap'[t[i]].node = heap'[t[j]].node => i = j
    BY <2>2, <2>3, <1>3, <1>4, <1>5 DEF HoldsNodes
  <2>6. \A i \in 1 .. n + 1 : heap'[t[i]].age = silence'[heap'[t[i]].node]
    <3> TAKE i \in 1 .. n + 1
    <3>1. CASE i = n + 1
      BY <3>1, <2>3, <1>13, <1>2
    <3>2. CASE i # n + 1
      <4>1. i \in 1 .. n
        BY <3>2, <1>4
      <4>2. heap[s[i]].age = silence[heap[s[i]].node] /\ heap[s[i]].node # loop.node
        BY <4>1, <1>3, <1>5 DEF HoldsNodes
      <4> QED BY <4>1, <4>2, <2>2, <1>13
    <3> QED BY <3>1, <3>2
  <2>7. \A m \in Nodes : silence'[m] <= NodeTimeout => \E i \in 1 .. n + 1 : heap'[t[i]].node = m
    <3> SUFFICES ASSUME NEW m \in Nodes, silence'[m] <= NodeTimeout
                 PROVE  \E i \in 1 .. n + 1 : heap'[t[i]].node = m
      OBVIOUS
    <3>1. CASE m = loop.node
      <4>1. n + 1 \in 1 .. n + 1
        OBVIOUS
      <4> QED BY <3>1, <2>3, <4>1
    <3>2. CASE m # loop.node
      <4>1. silence[m] <= NodeTimeout
        BY <3>2, <1>13
      <4>2. PICK i \in 1 .. n : heap[s[i]].node = m
        BY <4>1, <1>3 DEF HoldsNodes
      <4> QED BY <4>2, <2>2, <1>4
    <3> QED BY <3>1, <3>2
  <2> QED BY <2>1, <2>4, <2>5, <2>6, <2>7 DEF HoldsNodes
<1>17. Ends(n + 1, t)'
  <2>1. list.current \in Address /\ (list.current # Nil => heap[list.current].live)
    BY <1>2, <1>3 DEF ListTypes, Ends
  <2>2. list'.current # Nil => heap'[list'.current].live
    BY <2>1, <1>12, <1>9, <1>10 DEF Address
  <2>3. list'.length = n + 1 /\ n + 1 # 0 /\ list'.last = t[n + 1]
    BY <1>12, <1>3, <1>4 DEF Ends
  <2> QED BY <2>2, <2>3 DEF Ends
<1>18. n + 1 \in Nat
  OBVIOUS
<1> QED BY <1>14, <1>15, <1>16, <1>17, <1>18 DEF ListInv, ListOf

LEMMA CursorAt ==
  ASSUME ListTypes, NEW n \in Nat, NEW s, ListOf(n, s), loop.at = "expire", Cursor # Nil
  PROVE  \E k \in 1 .. n :
           Cursor = s[k] /\ IF loop.pp = Nil THEN k = 1 ELSE k > 1 /\ s[k - 1] = loop.pp
<1>1. /\ IsChain(heap, list.first, n, s) /\ HoldsNodes(n, s) /\ Ends(n, s)
  BY DEF ListOf
<1>2. CASE loop.pp = Nil
  <2>1. n # 0 /\ Cursor = s[1]
    BY <1>2, <1>1 DEF Cursor, IsChain
  <2> QED BY <1>2, <2>1
<1>3. CASE loop.pp # Nil
  <2>1. loop.pp \in Cells /\ heap[loop.pp].live
    BY <1>1, <1>3 DEF ListTypes, Address, Ends
  <2>2. PICK i \in 1 .. n : s[i] = loop.pp
    BY <2>1, <1>1 DEF HoldsNodes
  <2>3. Cursor = IF i = n THEN Nil ELSE s[i + 1]
    BY <2>2, <1>1, <1>3 DEF Cursor, IsChain
  <2>4. i # n /\ i + 1 \in 1 .. n /\ Cursor = s[i + 1] /\ (i + 1) - 1 = i /\ i + 1 > 1
    BY <2>3
  <2> QED BY <1>3, <2>2, <2>4, Zenon
<1> QED BY <1>2, <1>3

LEMMA FreedCell ==
  ASSUME NEW c \in Cells, heap[c] \in Cell
  PROVE  Freed(c) \in Cell /\ Freed(c).live = FALSE
<1>1. FreeCell \in Cell /\ FreeCell.live = FALSE
  BY BoundAssumption DEF FreeCell, Cell, Address, Old
<1>2. /\ [heap[c] EXCEPT !.live = FALSE, !.age = 0] \in Cell
      /\ [heap[c] EXCEPT !.live = FALSE, !.age = 0].live = FALSE
  <2>1. 0 \in 0 .. Old
    BY BoundAssumption DEF Old
  <2> QED BY <2>1 DEF Cell
<1> QED BY <1>1, <1>2, Zenon DEF Freed

(* A stale entry is taken out: those behind it move up.                    *)
LEMMA UnlinkFromList ==
  ASSUME ListInv, loop.at = "expire", Cursor # Nil, Stale(Cursor), Unlink(Cursor),
         UNCHANGED <<loop, silence>>
  PROVE  ListInv'
<1>0. PICK n \in Nat : \E s : ListOf(n, s)
  BY DEF ListInv
<1>1. PICK s : ListOf(n, s)
  BY <1>0
<1>2. ListTypes /\ Nil \notin Cells
  BY HeapAssumption DEF ListInv
<1>3. /\ IsChain(heap, list.first, n, s) /\ HoldsNodes(n, s) /\ Ends(n, s)
      /\ s \in [1 .. n -> Cells]
  BY <1>1 DEF ListOf, IsChain
<1>4. PICK k \in 1 .. n :
        Cursor = s[k] /\ IF loop.pp = Nil THEN k = 1 ELSE k > 1 /\ s[k - 1] = loop.pp
  BY <1>1, <1>2, CursorAt
<1> DEFINE dead == Cursor
           t == [i \in 1 .. n - 1 |-> IF i < k THEN s[i] ELSE s[i + 1]]
           behind == heap[dead].next
<1>5. dead \in Cells /\ dead = s[k] /\ loop.pp # dead /\ loop.pp \in Address
  <2>1. \A i, j \in 1 .. n : s[i] = s[j] => i = j
    BY <1>3 DEF IsChain
  <2>2. k > 1 => k - 1 \in 1 .. n /\ k - 1 # k
    OBVIOUS
  <2>3. dead \in Cells /\ dead = s[k]
    BY <1>3, <1>4
  <2>4. loop.pp # dead
    BY <2>1, <2>2, <2>3, <1>4, <1>2
  <2> QED BY <2>3, <2>4, <1>2 DEF ListTypes
<1>6. n - 1 \in Nat /\ \A i \in 1 .. n - 1 : i \in 1 .. n /\ i + 1 \in 1 .. n /\ i # i + 1
  OBVIOUS
<1>7. t \in [1 .. n - 1 -> Cells] /\ \A i \in 1 .. n - 1 : t[i] = IF i < k THEN s[i] ELSE s[i + 1]
  BY <1>3, <1>6
<1>8. behind = IF k = n THEN Nil ELSE s[k + 1]
  BY <1>3, <1>5 DEF IsChain
<1>9. /\ heap' = [c \in Cells |->
            IF c = dead THEN Freed(dead)
            ELSE IF c = loop.pp THEN [heap[c] EXCEPT !.next = behind] ELSE heap[c]]
      /\ list' = [list EXCEPT !.first = IF loop.pp = Nil THEN behind ELSE @,
                              !.length = @ - 1]
  BY DEF Unlink
<1>10. \A c \in Cells : heap[c] \in Cell
  BY <1>2 DEF ListTypes, Cell
<1>11. behind \in Address
  BY <1>5, <1>10 DEF Cell
<1>12. heap[dead].age > NodeTimeout
  BY DEF Stale
<1>13. Freed(dead) \in Cell /\ Freed(dead).live = FALSE
  BY <1>5, <1>10, FreedCell
<1> HIDE DEF dead, t, behind
<1>14. ASSUME NEW c \in Cells, c # dead
       PROVE  /\ heap'[c] \in Cell
              /\ heap'[c].node = heap[c].node /\ heap'[c].age = heap[c].age
              /\ heap'[c].live = heap[c].live
              /\ heap'[c].next = IF c = loop.pp THEN behind ELSE heap[c].next
  <2>1. heap'[c] = IF c = loop.pp THEN [heap[c] EXCEPT !.next = behind] ELSE heap[c]
    BY <1>9, <1>14
  <2>2. heap[c] \in Cell
    BY <1>10
  <2> HIDE DEF Address
  <2> QED BY <2>1, <2>2, <1>11 DEF Cell
<1>15. heap'[dead] \in Cell /\ heap'[dead].live = FALSE
  BY <1>9, <1>13, <1>5
<1>16. heap' \in [Cells -> Cell]
  BY <1>9, <1>14, <1>15
<1>17. /\ list'.first = (IF loop.pp = Nil THEN behind ELSE list.first)
       /\ list'.length = n - 1
       /\ list' \in [first : Address, last : Address, current : Address, length : Nat]
  <2>1. list \in [first : Address, last : Address, current : Address, length : Nat]
        /\ list.length = n
    BY <1>2, <1>3 DEF ListTypes, Ends
  <2>2. (IF loop.pp = Nil THEN behind ELSE list.first) \in Address
    BY <1>11, <2>1
  <2>3. list' = [list EXCEPT !.first = IF loop.pp = Nil THEN behind ELSE list.first,
                             !.length = n - 1]
    BY <1>9, <2>1
  <2> HIDE DEF Address
  <2>4. list'.first = (IF loop.pp = Nil THEN behind ELSE list.first) /\ list'.length = n - 1
    BY <2>1, <2>3
  <2>5. list' \in [first : Address, last : Address, current : Address, length : Nat]
    BY <2>1, <2>2, <2>3, <1>6
  <2> QED BY <2>4, <2>5
<1>18. ListTypes'
  BY <1>16, <1>17, <1>2 DEF ListTypes, Cell
<1>19. \A i, j \in 1 .. n : s[i] = s[j] => i = j
  BY <1>3 DEF IsChain
<1>20. \A i \in 1 .. n - 1 : t[i] # dead /\ t[i] \in Cells
  BY <1>5, <1>6, <1>7, <1>19
<1>21. IsChain(heap', list'.first, n - 1, t)
  <2>1. \A i, j \in 1 .. n - 1 : t[i] = t[j] => i = j
    BY <1>6, <1>7, <1>19
  <2>2. list'.first = IF n - 1 = 0 THEN Nil ELSE t[1]
    <3>1. CASE k = 1
      <4>1. loop.pp = Nil
        BY <3>1, <1>4
      <4>2. n - 1 # 0 => 1 \in 1 .. n - 1
        BY <1>6
      <4> QED BY <3>1, <4>1, <4>2, <1>7, <1>8, <1>17
    <3>2. CASE k # 1
      <4>1. loop.pp # Nil /\ list'.first = list.first /\ list.first = s[1]
        BY <3>2, <1>4, <1>17, <1>3 DEF IsChain
      <4>2. 1 \in 1 .. n - 1 /\ 1 < k /\ n - 1 # 0
        BY <3>2
      <4> QED BY <4>1, <4>2, <1>7
    <3> QED BY <3>1, <3>2
  <2>3. ASSUME NEW i \in 1 .. n - 1
        PROVE  heap'[t[i]].next = IF i = n - 1 THEN Nil ELSE t[i + 1]
    <3>1. heap'[t[i]].next = IF t[i] = loop.pp THEN behind ELSE heap[t[i]].next
      BY <1>20, <1>14
    <3>2. \A j \in 1 .. n : heap[s[j]].next = IF j = n THEN Nil ELSE s[j + 1]
      BY <1>3 DEF IsChain
    <3>3. i # n - 1 => i + 1 \in 1 .. n - 1
      OBVIOUS
    <3>4. CASE i < k - 1
      <4>1. t[i] = s[i] /\ i \in 1 .. n /\ i # n /\ k > 1 /\ k - 1 \in 1 .. n /\ i # k - 1 /\ i # n - 1
        BY <3>4, <1>7
      <4>2. t[i] # loop.pp
        BY <4>1, <1>4, <1>19
      <4>3. t[i + 1] = s[i + 1]
        BY <4>1, <3>3, <3>4, <1>7
      <4> QED BY <4>1, <4>2, <4>3, <3>1, <3>2
    <3>5. CASE i = k - 1
      <4>1. t[i] = s[i] /\ k > 1
        BY <3>5, <1>7
      <4>2. t[i] = loop.pp
        BY <4>1, <3>5, <1>4
      <4>3. i = n - 1 <=> k = n
        BY <3>5
      <4>4. i # n - 1 => t[i + 1] = s[k + 1]
        BY <3>3, <3>5, <1>7
      <4> QED BY <4>2, <4>3, <4>4, <3>1, <1>8
    <3>6. CASE i >= k
      <4>1. t[i] = s[i + 1] /\ i + 1 \in 1 .. n /\ (i + 1 = n <=> i = n - 1) /\ ~(i + 1 < k)
        BY <3>6, <1>7
      <4>2. t[i] # loop.pp
        <5>1. k > 1 => k - 1 \in 1 .. n /\ k - 1 # i + 1
          BY <3>6
        <5> QED BY <5>1, <4>1, <1>4, <1>19, <1>20, <1>2
      <4>3. i # n - 1 => t[i + 1] = s[(i + 1) + 1]
        BY <3>3, <4>1, <1>7
      <4> QED BY <4>1, <4>2, <4>3, <3>1, <3>2
    <3> QED BY <3>4, <3>5, <3>6
  <2> QED BY <2>1, <2>2, <2>3, <1>7 DEF IsChain
<1>22. ASSUME NEW j \in 1 .. n, j # k
       PROVE  \E i \in 1 .. n - 1 : t[i] = s[j]
  <2>1. CASE j < k
    <3>1. j \in 1 .. n - 1
      BY <2>1
    <3> QED BY <3>1, <2>1, <1>7
  <2>2. CASE j > k
    <3>1. j - 1 \in 1 .. n - 1 /\ ~(j - 1 < k) /\ (j - 1) + 1 = j
      BY <2>2
    <3> QED BY <3>1, <1>7
  <2> QED BY <2>1, <2>2, <1>22
<1>23. \A i \in 1 .. n - 1 : \E j \in 1 .. n : t[i] = s[j] /\ j # k
  <2> TAKE i \in 1 .. n - 1
  <2>1. CASE i < k
    BY <2>1, <1>6, <1>7
  <2>2. CASE ~(i < k)
    <3>1. i + 1 \in 1 .. n /\ i + 1 # k
      BY <2>2
    <3> QED BY <3>1, <2>2, <1>7
  <2> QED BY <2>1, <2>2
<1>24. HoldsNodes(n - 1, t)'
  <2>1. ASSUME NEW c \in Cells
        PROVE  heap'[c].live <=> \E i \in 1 .. n - 1 : t[i] = c
    <3>1. CASE c = dead
      BY <3>1, <1>15, <1>20
    <3>2. CASE c # dead
      <4>1. heap'[c].live <=> \E j \in 1 .. n : s[j] = c
        BY <3>2, <1>14, <1>3 DEF HoldsNodes
      <4>2. (\E j \in 1 .. n : s[j] = c) <=> \E i \in 1 .. n - 1 : t[i] = c
        BY <3>2, <1>22, <1>23, <1>5
      <4> QED BY <4>1, <4>2
    <3> QED BY <3>1, <3>2
  <2>2. \A i \in 1 .. n - 1 : /\ heap'[t[i]].node = heap[t[i]].node
                              /\ heap'[t[i]].age = heap[t[i]].age
    BY <1>20, <1>14
  <2>3. \A i \in 1 .. n - 1 : /\ heap[t[i]].node \in Nodes
                              /\ heap[t[i]].age = silence[heap[t[i]].node]
    BY <1>23, <1>3 DEF HoldsNodes
  <2>4. \A i, j \in 1 .. n - 1 : heap[t[i]].node = heap[t[j]].node => i = j
    <3>1. \A i, j \in 1 .. n : heap[s[i]].node = heap[s[j]].node => s[i] = s[j]
      BY <1>3 DEF HoldsNodes
    <3>2. \A i, j \in 1 .. n - 1 : heap[t[i]].node = heap[t[j]].node => t[i] = t[j]
      BY <3>1, <1>23
    <3> QED BY <3>2, <1>21 DEF IsChain
  <2>5. ASSUME NEW m \in Nodes, silence[m] <= NodeTimeout
        PROVE  \E i \in 1 .. n - 1 : heap[t[i]].node = m
    <3>1. PICK j \in 1 .. n : heap[s[j]].node = m
      BY <2>5, <1>3 DEF HoldsNodes
    <3>2. heap[s[j]].age = silence[m]
      BY <3>1, <1>3 DEF HoldsNodes
    <3>3. silence[m] \in 0 .. Old
      BY <1>2 DEF ListTypes
    <3>4. j # k
      BY <3>2, <3>3, <2>5, <1>12, <1>5, BoundAssumption
    <3> QED BY <3>1, <3>4, <1>22
  <2> QED BY <2>1, <2>2, <2>3, <2>4, <2>5 DEF HoldsNodes
<1>25. Ends(n - 1, t)'
  <2>1. loop.pp # Nil => loop.pp \in Cells /\ heap[loop.pp].live
    BY <1>3, <1>5 DEF Ends, Address
  <2> QED BY <2>1, <1>5, <1>14, <1>17 DEF Ends
<1> QED BY <1>18, <1>21, <1>24, <1>25, <1>6 DEF ListInv, ListOf

LEMMA UpdateStep ==
  ASSUME ListInv, NlUpdate
  PROVE  ListInv'
<1>1. loop.at = "update" /\ ListTypes
  BY DEF NlUpdate, At, ListInv
<1>2. CASE \E c \in ToSet(Entries) : /\ heap[c].node = loop.node /\ Refresh(c)
                                     /\ silence' = [silence EXCEPT ![loop.node] = 0]
  BY <1>1, <1>2, RefreshList
<1>3. CASE /\ loop.node \notin Listed
           /\ \E c \in {d \in Cells : ~heap[d].live} : AddEntry(c)
           /\ silence' = [silence EXCEPT ![loop.node] = 0]
           /\ GoTo("updated")
  BY <1>1, <1>3, AddToList DEF GoTo
<1>4. CASE GoTo("check") /\ UNCHANGED <<heap, list, silence>>
  BY <1>1, <1>4, ListKept DEF GoTo, ListTypes, Places, Address
<1> QED BY <1>2, <1>3, <1>4 DEF NlUpdate, Untouched

LEMMA ExpireStep ==
  ASSUME ListInv, ExpireEntry
  PROVE  ListInv'
<1>0. PICK n \in Nat : \E s : ListOf(n, s)
  BY DEF ListInv
<1>1. PICK s : ListOf(n, s)
  BY <1>0
<1>2. /\ loop.at = "expire" /\ Cursor # Nil /\ ListTypes /\ UNCHANGED silence
  BY DEF ExpireEntry, At, ListInv
<1>3. CASE Stale(Cursor) /\ Unlink(Cursor) /\ UNCHANGED loop
  BY <1>2, <1>3, UnlinkFromList
<1>4. CASE loop' = [loop EXCEPT !.pp = Cursor] /\ UNCHANGED <<heap, list>>
  <2>1. PICK k \in 1 .. n : Cursor = s[k]
    BY <1>1, <1>2, CursorAt
  <2>2. Cursor \in Cells /\ heap[Cursor].live
    BY <2>1, <1>1 DEF ListOf, HoldsNodes, IsChain
  <2>3. loop' \in [at : Places, node : Nodes \cup {Nil}, pp : Address]
        /\ loop'.at = "expire" /\ loop'.pp = Cursor
    BY <1>2, <1>4, <2>2 DEF ListTypes, Address
  <2> QED BY <1>2, <1>4, <2>2, <2>3, ListKept
<1> QED BY <1>3, <1>4 DEF ExpireEntry, Untouched

LEMMA SettleStep ==
  ASSUME ListInv, ExpireDone
  PROVE  ListInv'
<1>0. PICK n \in Nat : \E s : ListOf(n, s)
  BY DEF ListInv
<1>1. PICK s : ListOf(n, s)
  BY <1>0
<1>2. /\ IsChain(heap, list.first, n, s) /\ HoldsNodes(n, s) /\ Ends(n, s) /\ ListTypes
      /\ s \in [1 .. n -> Cells] /\ Nil \notin Cells
  BY <1>1, HeapAssumption DEF ListOf, IsChain, ListInv
<1>3. /\ list' = Settled /\ UNCHANGED <<heap, silence>>
      /\ loop' = [at |-> "expired", node |-> Nil, pp |-> Nil]
  BY DEF ExpireDone, GoTo
<1>4. Entries = s /\ DOMAIN s = 1 .. n
  BY <1>1, EntriesAre
<1>5. Tip = IF n = 0 THEN Nil ELSE s[n]
  <2>1. s \in Seq(Cells) /\ Len(s) = n
    BY <1>2
  <2>2. s = <<>> <=> n = 0
    BY <2>1
  <2> QED BY <2>1, <2>2, <1>4 DEF Tip
<1>6. Tip \in Address
  BY <1>5, <1>2 DEF Address
<1>7. list \in [first : Address, last : Address, current : Address, length : Nat]
  BY <1>2 DEF ListTypes
<1>8. list' = [list EXCEPT !.last = Tip, !.current = list.first]
  BY <1>3 DEF Settled
<1> HIDE DEF Address
<1>9. /\ list' \in [first : Address, last : Address, current : Address, length : Nat]
      /\ list'.first = list.first /\ list'.last = Tip /\ list'.current = list.first
      /\ list'.length = list.length
  BY <1>6, <1>7, <1>8
<1>10. ListTypes'
  BY <1>2, <1>3, <1>9 DEF ListTypes, Places, Address
<1>11. list.first # Nil => heap[list.first].live
  <2>1. n # 0 => 1 \in 1 .. n
    OBVIOUS
  <2> QED BY <2>1, <1>2 DEF IsChain, HoldsNodes
<1>12. Ends(n, s)'
  BY <1>2, <1>3, <1>5, <1>9, <1>11 DEF Ends
<1>13. IsChain(heap', list'.first, n, s) /\ HoldsNodes(n, s)'
  BY <1>2, <1>3, <1>9 DEF HoldsNodes
<1> QED BY <1>10, <1>12, <1>13 DEF ListInv, ListOf

LEMMA WalkStep ==
  ASSUME ListInv, NlFirst \/ NlNext
  PROVE  ListInv'
<1>0. PICK n \in Nat : \E s : ListOf(n, s)
  BY DEF ListInv
<1>1. PICK s : ListOf(n, s)
  BY <1>0
<1>2. /\ IsChain(heap, list.first, n, s) /\ HoldsNodes(n, s) /\ Ends(n, s) /\ ListTypes
      /\ s \in [1 .. n -> Cells]
  BY <1>1 DEF ListOf, IsChain, ListInv
<1>3. loop.at = "idle" /\ UNCHANGED <<heap, loop, silence>>
  BY DEF NlFirst, NlNext, At
<1>4. list \in [first : Address, last : Address, current : Address, length : Nat]
  BY <1>2 DEF ListTypes
<1>5. \E c \in Address : list' = [list EXCEPT !.current = c] /\ (c # Nil => heap[c].live)
  <2>1. CASE NlFirst
    <3>1. list' = [list EXCEPT !.current = list.first] /\ list.first \in Address
      BY <2>1, <1>4 DEF NlFirst
    <3>2. n # 0 => 1 \in 1 .. n
      OBVIOUS
    <3>3. list.first # Nil => heap[list.first].live
      BY <3>2, <1>2 DEF IsChain, HoldsNodes
    <3> QED BY <3>1, <3>3
  <2>2. CASE NlNext
    <3>1. list.current # Nil /\ list' = [list EXCEPT !.current = heap[list.current].next]
      BY <2>2 DEF NlNext
    <3>2. list.current \in Cells /\ heap[list.current].live
      BY <3>1, <1>2, <1>3, <1>4 DEF Ends, Address
    <3>3. PICK i \in 1 .. n : s[i] = list.current
      BY <3>2, <1>2 DEF HoldsNodes
    <3>4. heap[list.current].next = IF i = n THEN Nil ELSE s[i + 1]
      BY <3>3, <1>2 DEF IsChain
    <3>5. i # n => i + 1 \in 1 .. n
      OBVIOUS
    <3>6. heap[list.current].next \in Address
      BY <3>4, <3>5, <1>2 DEF Address
    <3>7. heap[list.current].next # Nil => heap[heap[list.current].next].live
      BY <3>4, <3>5, <1>2 DEF HoldsNodes
    <3> QED BY <3>1, <3>6, <3>7
  <2> QED BY <2>1, <2>2
<1>6. PICK c \in Address : list' = [list EXCEPT !.current = c] /\ (c # Nil => heap[c].live)
  BY <1>5
<1> HIDE DEF Address
<1>7. /\ list' \in [first : Address, last : Address, current : Address, length : Nat]
      /\ list'.first = list.first /\ list'.last = list.last /\ list'.current = c
      /\ list'.length = list.length
  BY <1>4, <1>6
<1>8. ListTypes'
  BY <1>2, <1>3, <1>7 DEF ListTypes
<1>9. Ends(n, s)'
  BY <1>2, <1>3, <1>6, <1>7 DEF Ends
<1>10. IsChain(heap', list'.first, n, s) /\ HoldsNodes(n, s)'
  BY <1>2, <1>3, <1>7 DEF HoldsNodes
<1> QED BY <1>8, <1>9, <1>10 DEF ListInv, ListOf

LEMMA OtherStep ==
  ASSUME ListInv,
         \/ NothingReceived \/ \E m \in Nodes : UpdateBegin(m)
         \/ ExpireBegin \/ WriteEnd \/ SendDmx \/ SendDmxDone
         \/ NlForeach \/ ReadStep \/ UNCHANGED vars
  PROVE  ListInv'
<1>1. loop \in [at : Places, node : Nodes \cup {Nil}, pp : Address] /\ Nil \in Address
  BY DEF ListInv, ListTypes, Address
<1>2. UNCHANGED <<heap, list, silence>>
  BY DEF NothingReceived, UpdateBegin, ExpireBegin, WriteEnd, SendDmx, SendDmxDone, NlForeach,
         ReadStep, ReadBegin, ReadFirst, CopyEntry, NextEntry, ReadCheck, ReaderOnly,
         Untouched, vars
<1>3. \/ \E place \in Places \ {"update"} : GoTo(place) /\ loop.at # "expire"
      \/ UNCHANGED loop
      \/ \E m \in Nodes : loop' = [loop EXCEPT !.at = "update", !.node = m] /\ loop.at # "expire"
  <2>1. CASE NothingReceived
    BY <2>1 DEF NothingReceived, At, Places
  <2>2. CASE \E m \in Nodes : UpdateBegin(m)
    BY <2>2 DEF UpdateBegin, At
  <2>3. CASE ExpireBegin
    BY <2>3 DEF ExpireBegin, At, Places
  <2>4. CASE WriteEnd
    BY <2>4 DEF WriteEnd, At, Places
  <2>5. CASE SendDmx \/ SendDmxDone
    BY <2>5 DEF SendDmx, SendDmxDone, At, Places
  <2>6. CASE NlForeach \/ ReadStep \/ UNCHANGED vars
    BY <2>6 DEF NlForeach, ReadStep, ReadBegin, ReadFirst, CopyEntry, NextEntry, ReadCheck,
                ReaderOnly, vars
  <2> QED BY <2>1, <2>2, <2>3, <2>4, <2>5, <2>6
<1>4. CASE \E place \in Places \ {"update"} : GoTo(place) /\ loop.at # "expire"
  BY <1>1, <1>2, <1>4, ListKept DEF GoTo
<1>5. CASE UNCHANGED loop
  <2>1. /\ loop.at = "update" => loop.node \in Nodes
        /\ loop.at = "expire" /\ loop.pp # Nil => heap[loop.pp].live
    BY DEF ListInv, ListTypes, ListOf, Ends
  <2> QED BY <1>1, <1>2, <1>5, <2>1, ListKept
<1>6. CASE \E m \in Nodes : loop' = [loop EXCEPT !.at = "update", !.node = m] /\ loop.at # "expire"
  <2>1. "update" \in Places
    BY DEF Places
  <2> QED BY <1>1, <1>2, <1>6, <2>1, ListKept
<1> QED BY <1>3, <1>4, <1>5, <1>6

LEMMA ListStep ==
  ASSUME ListInv, [Next]_vars
  PROVE  ListInv'
BY UpdateStep, ExpireStep, SettleStep, WalkStep, OtherStep, TickList, Zenon
   DEF Next, WriteStep, ReceiveStep

LEMMA ListSafe == Spec => []ListInv
BY ListInit, ListStep, PTL DEF Spec

LEMMA InvImpliesSound ==
  ASSUME ListInv
  PROVE  ListSound /\ HeardIsListed
<1>0. PICK n \in Nat : \E s : ListOf(n, s)
  BY DEF ListInv
<1>1. PICK s : ListOf(n, s)
  BY <1>0
<1>2. /\ IsChain(heap, list.first, n, s) /\ HoldsNodes(n, s) /\ Ends(n, s)
      /\ s \in [1 .. n -> Cells]
  BY <1>1 DEF ListOf, IsChain
<1>3. /\ Entries = s /\ DOMAIN s = 1 .. n
      /\ ToSet(Entries) = {s[i] : i \in 1 .. n}
      /\ Listed = {heap[s[i]].node : i \in 1 .. n}
  BY <1>1, EntriesAre
<1>4. s \in Seq(Cells) /\ Len(s) = n /\ (s = <<>> <=> n = 0)
  BY <1>2
<1>5. ToSet(Entries) = {c \in Cells : heap[c].live}
  BY <1>2, <1>3 DEF HoldsNodes
<1>6. Tip = IF n = 0 THEN Nil ELSE s[n]
  BY <1>3, <1>4 DEF Tip
<1>7. Cardinality(Listed) = n
  <2> DEFINE f == [i \in 1 .. n |-> heap[s[i]].node]
  <2>1. f \in [1 .. n -> Listed] /\ \A i \in 1 .. n : f[i] = heap[s[i]].node
    BY <1>3
  <2> HIDE DEF f
  <2>2. \A i, j \in 1 .. n : f[i] = f[j] => i = j
    BY <2>1, <1>2 DEF HoldsNodes
  <2>3. f \in Bijection(1 .. n, Listed)
    <3>1. f \in Injection(1 .. n, Listed)
      BY <2>1, <2>2 DEF Injection, IsInjective
    <3>2. f \in Surjection(1 .. n, Listed)
      BY <2>1, <1>3 DEF Surjection
    <3> QED BY <3>1, <3>2 DEF Bijection
  <2>4. IsFiniteSet(1 .. n) /\ Cardinality(1 .. n) = n
    BY FS_Interval
  <2> QED BY <2>3, <2>4, FS_Bijection DEF ExistsBijection
<1>8. loop.at # "expire" => ListLinked
  BY <1>2, <1>3, <1>4, <1>5, <1>6, <1>7 DEF ListLinked, Ends
<1>9. ListSound
  BY <1>8, <1>2 DEF ListSound, CurrentIsLive, At, Ends
<1>10. HeardIsListed
  BY <1>2, <1>3 DEF HeardIsListed, HoldsNodes
<1> QED BY <1>9, <1>10

(* artnet_nl_update and the pruning in check_timeouts keep the list of     *)
(* discovered nodes sound, for any number of nodes and any heap, whether   *)
(* or not malloc fails.                                                    *)
THEOREM ListStaysSound == Spec => []ListSound
BY ListSafe, InvImpliesSound, PTL

(* Whoever the node has heard of within NODELIST_TIMEOUT_MS is listed.     *)
THEOREM HeardNodesAreListed == Spec => []HeardIsListed
BY ListSafe, InvImpliesSound, PTL

-----------------------------------------------------------------------------
(* The reader under the sequence lock.  nl_seq is odd exactly while the    *)
(* list is written, unless malloc has failed; a pass that ends at the      *)
(* number it began with has seen the list unchanged.                       *)

Writing == loop.at \in {"update", "updated", "expire", "expired"}

ReaderPlaces == {"idle", "begin", "first", "copy", "next", "check", "returned", "stopped",
                 "crashed"}
Names == Nodes \cup {Nil}
Readers == [at : ReaderPlaces, seq : 0 .. SeqWrap - 1, tmp : Address, seen : Seq(Names),
            snapshot : Seq(Names)]

ReaderTypes ==
  /\ nl_seq \in 0 .. SeqWrap - 1
  /\ reader \in Readers
  /\ reader.at \in {"copy", "next"} => reader.tmp \in Cells
  /\ reader.at \in {"begin", "first"} => reader.seen = <<>>

(* The pass has followed the chain s, which is the list it began with.     *)
PassAlong(n, s) ==
  LET m == Len(reader.seen)
  IN /\ IsChain(heap, list.first, n, s)
     /\ \A i \in 1 .. n : heap[s[i]].node \in Nodes
     /\ \A i, j \in 1 .. n : heap[s[i]].node = heap[s[j]].node => i = j
     /\ Len(reader.snapshot) = n
     /\ \A i \in 1 .. n : reader.snapshot[i] = heap[s[i]].node
     /\ \A i \in 1 .. m : reader.seen[i] = reader.snapshot[i]
     /\ m <= n
     /\ reader.at = "first" => m = 0
     /\ reader.at = "copy" => m < n /\ reader.tmp = s[m + 1]
     /\ reader.at = "next" => m > 0 /\ reader.tmp = s[m]
     /\ reader.at = "check" => m = n

ReaderInv ==
  /\ ReaderTypes
  /\ nl_seq % 2 = IF Writing THEN 1 ELSE 0
  /\ InPass => reader.seq % 2 = 0
  /\ InPass /\ Writing => (nl_seq + 1) % SeqWrap # reader.seq
  /\ InPass /\ nl_seq = reader.seq => \E n \in Nat : \E s : PassAlong(n, s)
  /\ ConsistentSnapshot

LEMMA WrapSmall ==
  ASSUME NEW x \in Nat, x < SeqWrap
  PROVE  x % SeqWrap = x
BY BoundAssumption

LEMMA WrapAround == SeqWrap % SeqWrap = 0
BY BoundAssumption

LEMMA NextSeqNumber ==
  ASSUME NEW x \in 0 .. SeqWrap - 1
  PROVE  /\ (x + 1) % SeqWrap = IF x = SeqWrap - 1 THEN 0 ELSE x + 1
         /\ (x + 1) % SeqWrap \in 0 .. SeqWrap - 1
         /\ ((x + 1) % SeqWrap) % 2 = 1 - (x % 2)
         /\ (((x + 1) % SeqWrap) + 1) % SeqWrap = (x + 2) % SeqWrap
<1>1. SeqWrap \in Nat /\ SeqWrap >= 2 /\ SeqWrap % 2 = 0
  BY BoundAssumption
<1>2. (x + 1) % SeqWrap = IF x = SeqWrap - 1 THEN 0 ELSE x + 1
  <2>1. CASE x = SeqWrap - 1
    BY <2>1, <1>1, WrapAround
  <2>2. CASE x # SeqWrap - 1
    <3>1. x + 1 \in Nat /\ x + 1 < SeqWrap
      BY <2>2, <1>1
    <3> QED BY <2>2, <3>1, WrapSmall
  <2> QED BY <2>1, <2>2
<1>3. (x + 1) % SeqWrap \in 0 .. SeqWrap - 1
  BY <1>2, <1>1
<1>4. ((x + 1) % SeqWrap) % 2 = 1 - (x % 2)
  BY <1>2, <1>1
<1>5. (((x + 1) % SeqWrap) + 1) % SeqWrap = (x + 2) % SeqWrap
  <2>1. CASE x + 2 < SeqWrap
    BY <2>1, <1>1, <1>2
  <2>2. CASE x + 2 = SeqWrap
    BY <2>2, <1>1, <1>2
  <2>3. CASE x = SeqWrap - 1
    <3>1. (x + 2) % SeqWrap = 1
      BY <2>3, <1>1
    <3>2. (x + 1) % SeqWrap = 0 /\ 1 % SeqWrap = 1
      BY <2>3, <1>2, <1>1, WrapSmall
    <3> QED BY <3>1, <3>2
  <2> QED BY <2>1, <2>2, <2>3, <1>1
<1> QED BY <1>2, <1>3, <1>4, <1>5

(* What the steps of the reader do to its record.                          *)
LEMMA ReaderFields ==
  ASSUME NEW r \in Readers, NEW at \in ReaderPlaces
  PROVE  /\ \A seq \in 0 .. SeqWrap - 1 : \A snapshot \in Seq(Names) :
              [r EXCEPT !.at = at, !.seq = seq, !.snapshot = snapshot] \in Readers
         /\ \A tmp \in Address : [r EXCEPT !.at = at, !.tmp = tmp] \in Readers
         /\ \A seen \in Seq(Names) : [r EXCEPT !.at = at, !.seen = seen] \in Readers
         /\ [r EXCEPT !.at = at] \in Readers
<1> DEFINE Q == Seq(Names)
           W == 0 .. SeqWrap - 1
           R == [at : ReaderPlaces, seq : W, tmp : Address, seen : Q, snapshot : Q]
<1>1. R = Readers
  BY DEF Readers
<1> HIDE DEF ReaderPlaces, Address, Q, W
<1>2. r \in R
  BY <1>1
<1>3. ASSUME NEW seq \in W, NEW snapshot \in Q
      PROVE  [r EXCEPT !.at = at, !.seq = seq, !.snapshot = snapshot] \in R
  BY <1>2
<1>4. ASSUME NEW tmp \in Address
      PROVE  [r EXCEPT !.at = at, !.tmp = tmp] \in R
  BY <1>2
<1>5. ASSUME NEW seen \in Q
      PROVE  [r EXCEPT !.at = at, !.seen = seen] \in R
  BY <1>2
<1>6. [r EXCEPT !.at = at] \in R
  BY <1>2
<1> HIDE DEF R
<1> QED BY <1>1, <1>3, <1>4, <1>5, <1>6, Zenon DEF Q, W

LEMMA ReaderInit ==
  ASSUME Init
  PROVE  ReaderInv
<1>1. <<>> \in Seq(Names)
  OBVIOUS
<1>2. 0 \in 0 .. SeqWrap - 1 /\ 0 % 2 = 0
  BY BoundAssumption
<1>3. ReaderTypes
  BY <1>1, <1>2 DEF Init, ReaderTypes, Readers, ReaderPlaces, Names, NoReader, Address
<1> QED BY <1>2, <1>3 DEF Init, ReaderInv, NoReader, InPass, Writing, ConsistentSnapshot

(* A write begins: no pass that is under way will end at its number.       *)
LEMMA BeginsWriting ==
  ASSUME ReaderInv, ~Writing, Writing', WriteBegin, UNCHANGED reader
  PROVE  ReaderInv'
<1>1. /\ nl_seq \in 0 .. SeqWrap - 1 /\ nl_seq' = (nl_seq + 1) % SeqWrap
      /\ nl_seq % 2 = 0 /\ ReaderTypes
      /\ InPass => (nl_seq + 2) % SeqWrap # reader.seq
      /\ InPass' <=> InPass
  BY DEF ReaderInv, ReaderTypes, WriteBegin, Bump, InPass
<1>2. /\ nl_seq' \in 0 .. SeqWrap - 1 /\ nl_seq' % 2 = 1
      /\ (nl_seq' + 1) % SeqWrap = (nl_seq + 2) % SeqWrap
  BY <1>1, NextSeqNumber
<1>3. ReaderTypes'
  BY <1>1, <1>2 DEF ReaderTypes
<1>4. InPass => reader.seq % 2 = 0
  BY DEF ReaderInv
<1>5. InPass => nl_seq' # reader.seq
  <2>1. 0 # 1
    OBVIOUS
  <2> QED BY <1>4, <1>2, <2>1, Zenon
<1>6. ConsistentSnapshot'
  BY DEF ReaderInv, ConsistentSnapshot
<1> QED BY <1>1, <1>2, <1>3, <1>4, <1>5, <1>6 DEF ReaderInv

LEMMA EndsWriting ==
  ASSUME ReaderInv, Writing, ~Writing', Bump, UNCHANGED reader
  PROVE  ReaderInv'
<1>1. /\ nl_seq \in 0 .. SeqWrap - 1 /\ nl_seq' = (nl_seq + 1) % SeqWrap
      /\ nl_seq % 2 = 1 /\ ReaderTypes
      /\ InPass => (nl_seq + 1) % SeqWrap # reader.seq
      /\ InPass' <=> InPass
      /\ InPass => reader.seq % 2 = 0
  BY DEF ReaderInv, ReaderTypes, Bump, InPass
<1>2. nl_seq' \in 0 .. SeqWrap - 1 /\ nl_seq' % 2 = 0
  BY <1>1, NextSeqNumber
<1>3. ReaderTypes'
  BY <1>1, <1>2 DEF ReaderTypes
<1>4. ConsistentSnapshot'
  BY DEF ReaderInv, ConsistentSnapshot
<1> QED BY <1>1, <1>2, <1>3, <1>4 DEF ReaderInv

LEMMA WhileWriting ==
  ASSUME ReaderInv, Writing, Writing', UNCHANGED <<nl_seq, reader>>
  PROVE  ReaderInv'
<1>1. /\ nl_seq % 2 = 1 /\ ReaderTypes /\ ReaderTypes'
      /\ InPass => (nl_seq + 1) % SeqWrap # reader.seq
      /\ InPass' <=> InPass
      /\ InPass => reader.seq % 2 = 0
  BY DEF ReaderInv, ReaderTypes, InPass
<1>2. InPass => nl_seq # reader.seq
  BY <1>1
<1>3. ConsistentSnapshot'
  BY DEF ReaderInv, ConsistentSnapshot
<1> QED BY <1>1, <1>2, <1>3 DEF ReaderInv

(* Between the writes nothing a reader looks at changes.                   *)
LEMMA WhileNotWriting ==
  ASSUME ReaderInv, ~Writing, ~Writing', UNCHANGED <<nl_seq, reader>>,
         list'.first = list.first,
         \A c \in Cells : heap'[c].node = heap[c].node /\ heap'[c].next = heap[c].next
  PROVE  ReaderInv'
<1>1. /\ nl_seq % 2 = 0 /\ ReaderTypes /\ ReaderTypes'
      /\ InPass' <=> InPass
      /\ InPass => reader.seq % 2 = 0
  BY DEF ReaderInv, ReaderTypes, InPass
<1>2. ASSUME InPass, nl_seq = reader.seq
      PROVE  \E n \in Nat : \E s : PassAlong(n, s)'
  <2>1. PICK n \in Nat : \E s : PassAlong(n, s)
    BY <1>2 DEF ReaderInv
  <2>2. PICK s : PassAlong(n, s)
    BY <2>1
  <2>3. \A i \in 1 .. n : s[i] \in Cells
    BY <2>2 DEF PassAlong, IsChain
  <2>4. IsChain(heap', list'.first, n, s)
    BY <2>2, <2>3 DEF PassAlong, IsChain
  <2>5. PassAlong(n, s)'
    BY <2>2, <2>3, <2>4 DEF PassAlong
  <2> QED BY <2>5
<1>3. ConsistentSnapshot'
  BY DEF ReaderInv, ConsistentSnapshot
<1> QED BY <1>1, <1>2, <1>3 DEF ReaderInv

-----------------------------------------------------------------------------
(* The steps of the reader.                                                *)

LEMMA PassBegins ==
  ASSUME ListInv, ReaderInv, ReadBegin
  PROVE  ReaderInv'
<1>0. PICK n \in Nat : \E s : ListOf(n, s)
  BY DEF ListInv
<1>1. PICK s : ListOf(n, s)
  BY <1>0
<1>2. /\ reader' = [reader EXCEPT !.at = "first", !.seq = nl_seq, !.snapshot = NodesOf(Entries)]
      /\ reader.at = "begin" /\ UNCHANGED <<heap, list, nl_seq, loop>>
      /\ ReaderTypes /\ nl_seq % 2 = 0 /\ nl_seq \in 0 .. SeqWrap - 1
  BY DEF ReaderInv, ReaderTypes, ReadBegin, ReaderAt, ReaderOnly
<1>3. ~Writing
  BY <1>2 DEF ReaderInv
<1>4. /\ IsChain(heap, list.first, n, s) /\ s \in [1 .. n -> Cells]
      /\ \A i \in 1 .. n : heap[s[i]].node \in Nodes
      /\ \A i, j \in 1 .. n : heap[s[i]].node = heap[s[j]].node => i = j
  BY <1>1 DEF ListOf, HoldsNodes, IsChain
<1> DEFINE t == NodesOf(Entries)
<1>5. t = [i \in 1 .. n |-> heap[s[i]].node]
  BY <1>1, <1>4, EntriesAre DEF NodesOf
<1>6. t \in Seq(Names) /\ Len(t) = n /\ \A i \in 1 .. n : t[i] = heap[s[i]].node
  BY <1>4, <1>5 DEF Names
<1> HIDE DEF t
<1>7. /\ reader'.at = "first" /\ reader'.seq = nl_seq /\ reader'.snapshot = t
      /\ reader'.seen = <<>>
  BY <1>2 DEF ReaderTypes, Readers, t
<1>9. reader' \in Readers
  <2>1. "first" \in ReaderPlaces /\ reader \in Readers
    BY <1>2 DEF ReaderPlaces, ReaderTypes
  <2> QED BY <2>1, <1>2, <1>6, ReaderFields, Zenon DEF t
<1>10. ReaderTypes'
  BY <1>2, <1>7, <1>9 DEF ReaderTypes
<1>8. PassAlong(n, s)'
  BY <1>2, <1>4, <1>6, <1>7 DEF PassAlong
<1> QED BY <1>2, <1>3, <1>7, <1>8, <1>10 DEF ReaderInv, InPass, Writing, ConsistentSnapshot

LEMMA PassGoesOn ==
  ASSUME ReaderInv, UNCHANGED <<heap, list, nl_seq, loop>>, ReaderTypes', ConsistentSnapshot',
         InPass' => InPass /\ reader'.seq = reader.seq,
         InPass' /\ nl_seq = reader.seq => \E n \in Nat : \E s : PassAlong(n, s)'
  PROVE  ReaderInv'
BY DEF ReaderInv, Writing

LEMMA PassIsLeft ==
  ASSUME ReaderInv, UNCHANGED <<heap, list, nl_seq, loop>>,
         NEW place \in {"begin", "stopped", "crashed"}, reader' = [NoReader EXCEPT !.at = place]
  PROVE  ReaderInv'
<1>1. <<>> \in Seq(Names) /\ 0 \in 0 .. SeqWrap - 1 /\ Nil \in Address
  BY BoundAssumption DEF Address
<1>2. ReaderTypes' /\ ~InPass' /\ ConsistentSnapshot'
  BY <1>1 DEF ReaderInv, ReaderTypes, Readers, ReaderPlaces, NoReader, InPass,
              ConsistentSnapshot
<1> QED BY <1>2, PassGoesOn

LEMMA PassReadsFirst ==
  ASSUME ListInv, ReaderInv, ReadFirst
  PROVE  ReaderInv'
<1>1. /\ reader' = [reader EXCEPT !.at = Step(list.first), !.tmp = list.first]
      /\ reader.at = "first" /\ UNCHANGED <<heap, list, nl_seq, loop>> /\ ReaderTypes
  BY DEF ReaderInv, ReadFirst, ReaderAt, ReaderOnly
<1>2. list.first \in Address /\ Nil \notin Cells
  BY HeapAssumption DEF ListInv, ListTypes
<1>3. /\ reader'.at = Step(list.first) /\ reader'.tmp = list.first
      /\ reader'.seq = reader.seq /\ reader'.seen = <<>> /\ reader'.snapshot = reader.snapshot
  BY <1>1 DEF ReaderTypes, Readers
<1>6. reader' \in Readers
  <2>1. Step(list.first) \in ReaderPlaces /\ reader \in Readers
    BY <1>1 DEF Step, ReaderPlaces, ReaderTypes
  <2> QED BY <2>1, <1>1, <1>2, ReaderFields
<1>7. ReaderTypes'
  BY <1>1, <1>2, <1>3, <1>6 DEF ReaderTypes, Address, Step
<1>4. ASSUME nl_seq = reader.seq
      PROVE  \E n \in Nat : \E s : PassAlong(n, s)'
  <2>1. PICK n \in Nat : \E s : PassAlong(n, s)
    BY <1>1, <1>4 DEF ReaderInv, InPass
  <2>2. PICK s : PassAlong(n, s)
    BY <2>1
  <2>3. list.first = (IF n = 0 THEN Nil ELSE s[1]) /\ s \in [1 .. n -> Cells]
    BY <2>2 DEF PassAlong, IsChain
  <2>4. n # 0 => s[1] # Nil
    BY <2>3, <1>2
  <2>5. PassAlong(n, s)'
    BY <2>2, <2>3, <2>4, <1>1, <1>3 DEF PassAlong, Step
  <2> QED BY <2>5
<1>5. ConsistentSnapshot' /\ InPass
  BY <1>1, <1>3 DEF ConsistentSnapshot, Step, InPass
<1> QED BY <1>1, <1>3, <1>4, <1>5, <1>7, PassGoesOn

(* A pass along the list has not yet seen as many entries as there are     *)
(* nodes when it copies one more.                                          *)
LEMMA DistinctNodes ==
  ASSUME NEW n \in Nat, NEW s, PassAlong(n, s)
  PROVE  n <= Cardinality(Nodes)
<1> DEFINE f == [i \in 1 .. n |-> heap[s[i]].node]
<1>1. f \in Injection(1 .. n, Nodes)
  BY DEF PassAlong, Injection, IsInjective
<1> HIDE DEF f
<1>2. Cardinality(1 .. n) <= Cardinality(Nodes)
  BY <1>1, HeapAssumption, FS_Injection
<1>3. Cardinality(1 .. n) = n
  BY FS_Interval
<1> QED BY <1>2, <1>3

LEMMA PassCopies ==
  ASSUME ListInv, ReaderInv, CopyEntry
  PROVE  ReaderInv'
<1>1. /\ reader.at = "copy" /\ UNCHANGED <<heap, list, nl_seq, loop>> /\ ReaderTypes
      /\ reader.tmp \in Cells /\ reader.seen \in Seq(Names)
  BY DEF ReaderInv, CopyEntry, ReaderAt, ReaderOnly, ReaderTypes, Readers
<1>2. CASE \/ reader' = [NoReader EXCEPT !.at = "stopped"]
           \/ reader' = [NoReader EXCEPT !.at = "crashed"]
  BY <1>1, <1>2, PassIsLeft
<1>3. CASE reader' = [reader EXCEPT !.at = "next", !.seen = SeenWith(heap[reader.tmp].node)]
  <2> DEFINE x == heap[reader.tmp].node
             t == SeenWith(x)
  <2>1. x \in Names
    BY <1>1 DEF ListInv, ListTypes, Names
  <2>2. t \in Seq(Names)
    BY <1>1, <2>1 DEF SeenWith
  <2> HIDE DEF t
  <2>3. /\ reader'.at = "next" /\ reader'.seen = t /\ reader'.tmp = reader.tmp
        /\ reader'.seq = reader.seq /\ reader'.snapshot = reader.snapshot
    BY <1>1, <1>3 DEF ReaderTypes, Readers, t
  <2>6. reader' \in Readers
    <3>1. "next" \in ReaderPlaces /\ reader \in Readers
      BY <1>1 DEF ReaderPlaces, ReaderTypes
    <3> QED BY <3>1, <1>3, <2>2, ReaderFields, Zenon DEF t
  <2>7. ReaderTypes'
    BY <1>1, <2>3, <2>6 DEF ReaderTypes
  <2>4. ASSUME nl_seq = reader.seq
        PROVE  \E n \in Nat : \E s : PassAlong(n, s)'
    <3>1. PICK n \in Nat : \E s : PassAlong(n, s)
      BY <1>1, <2>4 DEF ReaderInv, InPass
    <3>2. PICK s : PassAlong(n, s)
      BY <3>1
    <3> DEFINE m == Len(reader.seen)
    <3>3. m \in Nat /\ m < n /\ reader.tmp = s[m + 1]
      BY <3>2, <1>1 DEF PassAlong
    <3>4. t = Append(reader.seen, x)
      <4>1. n <= Cardinality(Nodes) /\ Cardinality(Nodes) \in Nat
        BY <3>2, DistinctNodes, HeapAssumption, FS_CardinalityType
      <4> QED BY <4>1, <3>3 DEF t, SeenWith
    <3>5. /\ Len(t) = m + 1 /\ t[m + 1] = x
          /\ \A i \in 1 .. m : t[i] = reader.seen[i]
      BY <3>4, <1>1, <2>1
    <3>6. m + 1 \in 1 .. n /\ reader.snapshot[m + 1] = x
      BY <3>2, <3>3 DEF PassAlong
    <3>7. \A i \in 1 .. m + 1 : t[i] = reader.snapshot[i]
      <4>1. \A i \in 1 .. m : t[i] = reader.snapshot[i]
        BY <3>2, <3>5 DEF PassAlong
      <4> QED BY <4>1, <3>3, <3>5, <3>6
    <3> HIDE DEF x, m
    <3>8. PassAlong(n, s)'
      BY <3>2, <3>3, <3>5, <3>6, <3>7, <2>3, <1>1 DEF PassAlong
    <3> QED BY <3>8
  <2>5. ConsistentSnapshot' /\ InPass
    BY <1>1, <2>3 DEF ConsistentSnapshot, InPass
  <2> QED BY <1>1, <2>3, <2>4, <2>5, <2>7, PassGoesOn
<1> QED BY <1>2, <1>3 DEF CopyEntry

LEMMA PassMovesOn ==
  ASSUME ListInv, ReaderInv, NextEntry
  PROVE  ReaderInv'
<1> DEFINE next == heap[reader.tmp].next
<1>1. /\ reader.at = "next" /\ UNCHANGED <<heap, list, nl_seq, loop>> /\ ReaderTypes
      /\ reader.tmp \in Cells
  BY DEF ReaderInv, NextEntry, ReaderAt, ReaderOnly, ReaderTypes
<1>2. CASE reader' = [NoReader EXCEPT !.at = "crashed"]
  BY <1>1, <1>2, PassIsLeft
<1>3. CASE reader' = [reader EXCEPT !.at = Step(next), !.tmp = next]
  <2>1. next \in Address /\ Nil \notin Cells
    BY <1>1, HeapAssumption DEF ListInv, ListTypes
  <2> HIDE DEF next
  <2>2. /\ reader'.at = Step(next) /\ reader'.tmp = next /\ reader'.seen = reader.seen
        /\ reader'.seq = reader.seq /\ reader'.snapshot = reader.snapshot
    BY <1>1, <1>3 DEF ReaderTypes, Readers, next
  <2>5. reader' \in Readers
    <3>1. Step(next) \in ReaderPlaces /\ reader \in Readers
      BY <1>1 DEF Step, ReaderPlaces, ReaderTypes
    <3> QED BY <3>1, <1>3, <2>1, ReaderFields
  <2>6. ReaderTypes'
    BY <1>1, <2>1, <2>2, <2>5 DEF ReaderTypes, Address, Step
  <2>3. ASSUME nl_seq = reader.seq
        PROVE  \E n \in Nat : \E s : PassAlong(n, s)'
    <3>1. PICK n \in Nat : \E s : PassAlong(n, s)
      BY <1>1, <2>3 DEF ReaderInv, InPass
    <3>2. PICK s : PassAlong(n, s)
      BY <3>1
    <3> DEFINE m == Len(reader.seen)
    <3>3. m \in 1 .. n /\ reader.tmp = s[m]
      BY <3>2, <1>1 DEF PassAlong, ReaderTypes, Readers
    <3>4. next = (IF m = n THEN Nil ELSE s[m + 1]) /\ s \in [1 .. n -> Cells]
      BY <3>2, <3>3 DEF PassAlong, IsChain, next
    <3>5. m # n => s[m + 1] # Nil /\ m < n
      BY <3>3, <3>4, <2>1
    <3>6. PassAlong(n, s)'
      BY <3>2, <3>3, <3>4, <3>5, <2>2, <1>1 DEF PassAlong, Step
    <3> QED BY <3>6
  <2>4. ConsistentSnapshot' /\ InPass
    BY <1>1, <2>2 DEF ConsistentSnapshot, InPass, Step
  <2> QED BY <1>1, <2>2, <2>3, <2>4, <2>6, PassGoesOn
<1> QED BY <1>2, <1>3 DEF NextEntry

LEMMA PassChecks ==
  ASSUME ReaderInv, ReadCheck
  PROVE  ReaderInv'
<1>1. /\ reader.at = "check" /\ UNCHANGED <<heap, list, nl_seq, loop>> /\ ReaderTypes
  BY DEF ReaderInv, ReadCheck, ReaderAt, ReaderOnly
<1>2. CASE reader' = [NoReader EXCEPT !.at = "begin"]
  BY <1>1, <1>2, PassIsLeft
<1>3. CASE nl_seq = reader.seq /\ reader' = [reader EXCEPT !.at = "returned"]
  <2>1. PICK n \in Nat : \E s : PassAlong(n, s)
    BY <1>1, <1>3 DEF ReaderInv, InPass
  <2>2. PICK s : PassAlong(n, s)
    BY <2>1
  <2>3. /\ Len(reader.seen) = n /\ Len(reader.snapshot) = n
        /\ \A i \in 1 .. n : reader.seen[i] = reader.snapshot[i]
    BY <2>2, <1>1 DEF PassAlong
  <2>4. reader.seen = reader.snapshot
    BY <2>3, <1>1 DEF ReaderTypes, Readers
  <2>6. reader' \in Readers
    <3>1. "returned" \in ReaderPlaces /\ reader \in Readers
      BY <1>1 DEF ReaderPlaces, ReaderTypes
    <3> QED BY <3>1, <1>3, ReaderFields
  <2>5. ReaderTypes' /\ ~InPass' /\ ConsistentSnapshot'
    BY <1>1, <1>3, <2>4, <2>6 DEF ReaderTypes, Readers, InPass, ConsistentSnapshot
  <2> QED BY <1>1, <2>5, PassGoesOn
<1> QED BY <1>2, <1>3 DEF ReadCheck, Retry

LEMMA ReaderMoves ==
  ASSUME ListInv, ReaderInv, NlForeach \/ ReadStep
  PROVE  ReaderInv'
<1>1. CASE NlForeach
  BY <1>1, PassIsLeft DEF NlForeach, ReaderOnly
<1>2. CASE ReadStep
  BY <1>2, PassBegins, PassReadsFirst, PassCopies, PassMovesOn, PassChecks DEF ReadStep
<1> QED BY <1>1, <1>2

LEMMA ReaderStep ==
  ASSUME ~MallocFails, ListInv, ReaderInv, [Next]_vars
  PROVE  ReaderInv'
<1>1. CASE ExpireBegin \/ \E m \in Nodes : UpdateBegin(m)
  <2>1. WriteBegin /\ UNCHANGED reader /\ loop.at \in {"idle", "check", "recv"}
    BY <1>1 DEF ExpireBegin, UpdateBegin, At, NotTheApplication
  <2>2. loop \in [at : Places, node : Nodes \cup {Nil}, pp : Address]
    BY DEF ListInv, ListTypes
  <2>3. loop'.at \in {"expire", "update"}
    <3>1. CASE ExpireBegin
      BY <3>1 DEF ExpireBegin, GoTo
    <3>2. CASE \E m \in Nodes : UpdateBegin(m)
      BY <3>2, <2>2 DEF UpdateBegin
    <3> QED BY <1>1, <3>1, <3>2
  <2> QED BY <2>1, <2>3, BeginsWriting DEF Writing
<1>2. CASE WriteEnd
  BY <1>2, EndsWriting DEF WriteEnd, Writing, At, GoTo, NotTheApplication
<1>3. CASE NlUpdate
  <2>1. loop.at = "update" /\ UNCHANGED <<nl_seq, reader>> /\ loop'.at = "updated"
    BY <1>3 DEF NlUpdate, At, GoTo, NotTheApplication, Refresh
  <2> QED BY <2>1, WhileWriting DEF Writing
<1>4. CASE ExpireEntry \/ ExpireDone
  <2>1. loop.at = "expire" /\ UNCHANGED <<nl_seq, reader>> /\ loop'.at \in {"expire", "expired"}
    BY <1>4 DEF ExpireEntry, ExpireDone, At, GoTo, NotTheApplication, ListInv, ListTypes
  <2> QED BY <2>1, WhileWriting DEF Writing
<1>5. CASE Tick
  <2>1. /\ loop.at \in {"idle", "recv"} /\ UNCHANGED <<nl_seq, reader, list, loop>>
        /\ heap' = [c \in Cells |-> IF heap[c].live THEN [heap[c] EXCEPT !.age = Older(@)]
                                                    ELSE heap[c]]
    BY <1>5 DEF Tick, At, NotTheApplication
  <2>2. \A c \in Cells : heap'[c].node = heap[c].node /\ heap'[c].next = heap[c].next
    <3>1. \A c \in Cells : heap[c] \in Cell
      BY DEF ListInv, ListTypes, Cell
    <3> QED BY <2>1, <3>1 DEF Cell
  <2> QED BY <2>1, <2>2, WhileNotWriting DEF Writing
<1>6. CASE NothingReceived \/ NlFirst \/ NlNext \/ SendDmx \/ SendDmxDone
  <2>1. /\ loop.at \in {"idle", "recv", "send"} /\ loop'.at \in {"idle", "send"}
        /\ UNCHANGED <<nl_seq, reader, heap>>
    BY <1>6 DEF NothingReceived, NlFirst, NlNext, SendDmx, SendDmxDone, At, GoTo, Untouched,
                NotTheApplication
  <2>2. list'.first = list.first
    BY <1>6 DEF NothingReceived, NlFirst, NlNext, SendDmx, SendDmxDone, Untouched, ListInv,
                ListTypes
  <2> QED BY <2>1, <2>2, WhileNotWriting DEF Writing
<1>7. CASE NlForeach \/ ReadStep
  BY <1>7, ReaderMoves
<1>8. CASE UNCHANGED vars
  BY <1>8 DEF vars, ReaderInv, ReaderTypes, Writing, InPass, PassAlong, ConsistentSnapshot
<1> QED BY <1>1, <1>2, <1>3, <1>4, <1>5, <1>6, <1>7, <1>8 DEF Next, WriteStep, ReceiveStep

(* Unless malloc fails, a walk of artnet_nl_foreach that returns by itself *)
(* has last passed over the list as it was at one moment.                  *)
THEOREM ReadersSeeOneMoment == ASSUME ~MallocFails PROVE Spec => []ConsistentSnapshot
<1>1. Init => ListInv /\ ReaderInv
  BY ListInit, ReaderInit
<1>2. ListInv /\ ReaderInv /\ [Next]_vars => (ListInv /\ ReaderInv)'
  BY ListStep, ReaderStep
<1>3. ReaderInv => ConsistentSnapshot
  BY DEF ReaderInv
<1> QED BY <1>1, <1>2, <1>3, PTL DEF Spec

(* As long as the sequence number is the one the pass began with, the pass *)
(* follows the chain of the list, whose entries are allocated.             *)
LEMMA FreedFails ==
  ASSUME ListInv, ReaderInv
  PROVE  FreedIsRetried
<1> SUFFICES ASSUME reader.at \in {"copy", "next"}, nl_seq = reader.seq
             PROVE  heap[reader.tmp].live
  BY DEF FreedIsRetried, ReaderAt, Retry
<1>1. PICK n \in Nat : \E t : PassAlong(n, t)
  BY DEF ReaderInv, InPass
<1>2. PICK t : PassAlong(n, t)
  BY <1>1
<1>3. PICK k \in Nat : \E s : ListOf(k, s)
  BY DEF ListInv
<1>4. PICK s : ListOf(k, s)
  BY <1>3
<1>5. IsChain(heap, list.first, n, t) /\ IsChain(heap, list.first, k, s)
  BY <1>2, <1>4 DEF PassAlong, ListOf
<1>6. t = s
  BY <1>5, FollowChain
<1>7. \E i \in 1 .. n : reader.tmp = t[i]
  <2>1. Len(reader.seen) \in Nat
    BY DEF ReaderInv, ReaderTypes, Readers
  <2> DEFINE m == Len(reader.seen)
  <2>2. m <= n /\ (reader.at = "copy" => m < n /\ reader.tmp = t[m + 1])
        /\ (reader.at = "next" => m > 0 /\ reader.tmp = t[m])
    BY <1>2 DEF PassAlong
  <2> HIDE DEF m
  <2>3. m \in Nat
    BY <2>1 DEF m
  <2> QED BY <2>2, <2>3
<1>8. \E i \in 1 .. k : s[i] = reader.tmp
  BY <1>5, <1>6, <1>7 DEF IsChain
<1>9. reader.tmp \in Cells
  BY <1>4, <1>8 DEF ListOf, IsChain
<1> QED BY <1>4, <1>8, <1>9 DEF ListOf, HoldsNodes

(* Unless malloc fails, a pass of artnet_nl_foreach that stands on an      *)
(* entry the other thread has freed is not accepted.                       *)
THEOREM FreedEntriesAreRetried == ASSUME ~MallocFails PROVE Spec => []FreedIsRetried
<1>1. Init => ListInv /\ ReaderInv
  BY ListInit, ReaderInit
<1>2. ListInv /\ ReaderInv /\ [Next]_vars => (ListInv /\ ReaderInv)'
  BY ListStep, ReaderStep
<1>3. ListInv /\ ReaderInv => FreedIsRetried
  BY FreedFails
<1> QED BY <1>1, <1>2, <1>3, PTL DEF Spec

-----------------------------------------------------------------------------
(* find_nodes_from_uni.                                                    *)

FindsAll(w, n, nodes, limit) ==
  w = [k \in 0 .. n |-> IF k = 0 THEN [ips |-> <<>>, count |-> 0]
                        ELSE Match(w[k - 1], nodes[k], limit)]

Finder(n, nodes, limit) == CHOOSE w : FindsAll(w, n, nodes, limit)

LEMMA FindNodesIs ==
  ASSUME NEW limit
  PROVE  FindNodes(limit) = Finder(Len(NodesOf(Entries)), NodesOf(Entries), limit)[Len(NodesOf(Entries))]
BY Zenon DEF FindNodes, Finder, FindsAll

LEMMA FinderExists ==
  ASSUME NEW nodes, NEW limit, NEW n \in Nat
  PROVE  \E w : FindsAll(w, n, nodes, limit)
<1> DEFINE T == {k \in Nat : ~\E w : FindsAll(w, k, nodes, limit)}
           first == [ips |-> <<>>, count |-> 0]
<1> SUFFICES ASSUME T # {} PROVE FALSE
  OBVIOUS
<1>1. PICK k \in T : \A m \in T : k <= m
  BY LeastNat
<1>2. CASE k = 0
  <2> DEFINE w == [i \in 0 .. 0 |-> first]
  <2> HIDE DEF first
  <2>1. \A i \in 0 .. 0 : i = 0
    OBVIOUS
  <2>2. w = [i \in 0 .. 0 |-> IF i = 0 THEN first ELSE Match(w[i - 1], nodes[i], limit)]
    BY <2>1, Zenon
  <2>3. FindsAll(w, 0, nodes, limit)
    BY <2>2 DEF FindsAll, first
  <2> HIDE DEF w
  <2> QED BY <2>3, <1>1, <1>2
<1>3. CASE k # 0
  <2>1. k - 1 \in Nat /\ k - 1 \notin T
    BY <1>1, <1>3
  <2>2. PICK v : FindsAll(v, k - 1, nodes, limit)
    BY <2>1
  <2> DEFINE w == [i \in 0 .. k |-> IF i = k THEN Match(v[k - 1], nodes[k], limit) ELSE v[i]]
             body(u, i) == IF i = 0 THEN first ELSE Match(u[i - 1], nodes[i], limit)
  <2>3. \A i \in 0 .. k - 1 : v[i] = body(v, i)
    BY <2>2 DEF FindsAll
  <2>4. ASSUME NEW i \in 0 .. k
        PROVE  w[i] = body(w, i)
    <3>1. CASE i = k
      <4>1. i # 0 /\ k - 1 \in 0 .. k /\ k - 1 # k
        BY <1>3, <1>1, <3>1
      <4>2. w[i] = Match(v[k - 1], nodes[k], limit) /\ w[k - 1] = v[k - 1]
        BY <3>1, <4>1
      <4> QED BY <3>1, <4>1, <4>2
    <3>2. CASE i # k
      <4>1. i \in 0 .. k - 1 /\ (i # 0 => i - 1 \in 0 .. k /\ i - 1 # k)
        BY <3>2, <1>1
      <4>2. w[i] = v[i] /\ (i # 0 => w[i - 1] = v[i - 1])
        BY <3>2, <4>1
      <4> HIDE DEF w
      <4> QED BY <2>3, <4>1, <4>2
    <3> QED BY <3>1, <3>2
  <2>5. w = [i \in 0 .. k |-> w[i]]
    OBVIOUS
  <2> HIDE DEF w
  <2>6. w = [i \in 0 .. k |-> body(w, i)]
    BY <2>4, <2>5
  <2>7. FindsAll(w, k, nodes, limit)
    BY <2>6 DEF FindsAll
  <2> QED BY <2>7, <1>1
<1> QED BY <1>2, <1>3

LEMMA FinderSteps ==
  ASSUME NEW nodes, NEW limit, NEW n \in Nat
  PROVE  /\ Finder(n, nodes, limit)[0] = [ips |-> <<>>, count |-> 0]
         /\ \A k \in 1 .. n : Finder(n, nodes, limit)[k]
                               = Match(Finder(n, nodes, limit)[k - 1], nodes[k], limit)
<1> DEFINE w == Finder(n, nodes, limit)
<1>1. FindsAll(w, n, nodes, limit)
  BY FinderExists, Zenon DEF Finder
<1> HIDE DEF w
<1>2. \A k \in 0 .. n : w[k] = IF k = 0 THEN [ips |-> <<>>, count |-> 0]
                               ELSE Match(w[k - 1], nodes[k], limit)
  BY <1>1 DEF FindsAll
<1>3. 0 \in 0 .. n /\ \A k \in 1 .. n : k \in 0 .. n /\ k # 0
  OBVIOUS
<1>4. w[0] = [ips |-> <<>>, count |-> 0] /\ \A k \in 1 .. n : w[k] = Match(w[k - 1], nodes[k], limit)
  BY <1>2, <1>3
<1> QED BY <1>4 DEF w

Ips == {IpOf[m] : m \in Nodes}

(* Which of the first k nodes match, and their addresses.                  *)
Matching(k, nodes) == {i \in 1 .. k : MatchingPorts[nodes[i]] > 0}
IpsOf(k, nodes) == {IpOf[nodes[i]] : i \in Matching(k, nodes)}
TwoPorts(k, nodes) == \E i \in 1 .. k : MatchingPorts[nodes[i]] > 1

(* What was found along the first k nodes, of which c match.               *)
FoundAlong(r, k, c, nodes, limit) ==
  /\ r.ips \in Seq(Ips) /\ Len(r.ips) = LowerOf(c, limit)
  /\ ToSet(r.ips) \subseteq IpsOf(k, nodes)
  /\ c <= limit => ToSet(r.ips) = IpsOf(k, nodes)
  /\ r.count \in Nat /\ r.count >= c
  /\ r.count > c <=> TwoPorts(k, nodes)

LEMMA AppendedIp ==
  ASSUME NEW q \in Seq(Ips), NEW ip \in Ips
  PROVE  /\ Append(q, ip) \in Seq(Ips) /\ Len(Append(q, ip)) = Len(q) + 1
         /\ ToSet(Append(q, ip)) = ToSet(q) \cup {ip}
<1>1. DOMAIN Append(q, ip) = 1 .. Len(q) + 1 /\ DOMAIN q = 1 .. Len(q) /\ Len(q) \in Nat
  OBVIOUS
<1>2. \A i \in 1 .. Len(q) : Append(q, ip)[i] = q[i]
  OBVIOUS
<1>3. Append(q, ip)[Len(q) + 1] = ip
  OBVIOUS
<1>4. ToSet(Append(q, ip)) = ToSet(q) \cup {ip}
  BY <1>1, <1>2, <1>3 DEF ToSet
<1> QED BY <1>4

LEMMA MatchingCount ==
  ASSUME NEW k \in Nat, NEW nodes
  PROVE  /\ IsFiniteSet(Matching(k, nodes)) /\ Cardinality(Matching(k, nodes)) \in Nat
         /\ Cardinality(Matching(k, nodes)) <= k
<1>1. IsFiniteSet(1 .. k) /\ Cardinality(1 .. k) = k
  BY FS_Interval
<1>2. Matching(k, nodes) \in SUBSET (1 .. k)
  BY DEF Matching
<1> QED BY <1>1, <1>2, FS_Subset, FS_CardinalityType

LEMMA MatchingNext ==
  ASSUME NEW k \in Nat, NEW nodes
  PROVE  Cardinality(Matching(k + 1, nodes)) =
           Cardinality(Matching(k, nodes)) + IF MatchingPorts[nodes[k + 1]] > 0 THEN 1 ELSE 0
<1>1. Matching(k + 1, nodes) = IF MatchingPorts[nodes[k + 1]] > 0 THEN Matching(k, nodes) \cup {k + 1}
                                                                  ELSE Matching(k, nodes)
  BY DEF Matching
<1>2. k + 1 \notin Matching(k, nodes)
  BY DEF Matching
<1>3. IsFiniteSet(Matching(k, nodes)) /\ Cardinality(Matching(k, nodes)) \in Nat
  BY MatchingCount
<1>4. Cardinality(Matching(k, nodes) \cup {k + 1}) = Cardinality(Matching(k, nodes)) + 1
  BY <1>2, <1>3, FS_AddElement
<1> QED BY <1>1, <1>3, <1>4

LEMMA MatchAlong ==
  ASSUME NEW k \in Nat, NEW nodes, nodes[k + 1] \in Nodes,
         NEW limit \in Nat, NEW c \in Nat,
         NEW r, FoundAlong(r, k, c, nodes, limit)
  PROVE  FoundAlong(Match(r, nodes[k + 1], limit), k + 1,
                    c + IF MatchingPorts[nodes[k + 1]] > 0 THEN 1 ELSE 0, nodes, limit)
<1> DEFINE m == nodes[k + 1]
           r1 == Match(r, m, limit)
           found == IpsOf(k, nodes)
           found1 == IpsOf(k + 1, nodes)
           two == TwoPorts(k, nodes)
           two1 == TwoPorts(k + 1, nodes)
           ports == MatchingPorts[m]
<1>1. ports \in 0 .. 4 /\ IpOf[m] \in Ips
  BY NodeAssumption DEF Ips
<1>2. /\ r.ips \in Seq(Ips) /\ Len(r.ips) = LowerOf(c, limit) /\ Len(r.ips) \in Nat
      /\ ToSet(r.ips) \subseteq found
      /\ c <= limit => ToSet(r.ips) = found
      /\ r.count \in Nat /\ r.count >= c
      /\ r.count > c <=> two
  BY DEF FoundAlong
<1>3. Matching(k + 1, nodes) = IF ports > 0 THEN Matching(k, nodes) \cup {k + 1} ELSE Matching(k, nodes)
  BY DEF Matching
<1>4. found1 = IF ports > 0 THEN found \cup {IpOf[m]} ELSE found
  BY <1>3 DEF IpsOf
<1>5. two1 <=> two \/ ports > 1
  <2>1. 1 .. k + 1 = (1 .. k) \cup {k + 1}
    OBVIOUS
  <2> QED BY <2>1 DEF TwoPorts
<1>6. CASE ports = 0
  <2>1. r1.ips = r.ips /\ r1.count = r.count
    BY <1>2, <1>6 DEF Match
  <2>2. found1 = found /\ two1 = two
    <3>1. (ports > 0) = FALSE /\ (ports > 1) = FALSE
      BY <1>6
    <3>2. two \in BOOLEAN /\ two1 \in BOOLEAN
      BY DEF TwoPorts
    <3> HIDE DEF two, two1, found, found1, ports
    <3> QED BY <3>1, <3>2, <1>4, <1>5
  <2>3. FoundAlong(r1, k + 1, c, nodes, limit)
    <3> HIDE DEF r1
    <3> QED BY <1>2, <2>1, <2>2 DEF FoundAlong
  <2>4. c + (IF ports > 0 THEN 1 ELSE 0) = c
    BY <1>6
  <2> HIDE DEF r1
  <2> QED BY <2>3, <2>4 DEF r1
<1>7. CASE ports > 0
  <2> DEFINE c1 == c + 1
  <2>1. r1.count = r.count + ports
    BY DEF Match
  <2>2. found1 = found \cup {IpOf[m]}
    BY <1>4, <1>7
  <2>3. /\ r1.ips \in Seq(Ips) /\ Len(r1.ips) = LowerOf(c1, limit)
        /\ ToSet(r1.ips) \subseteq found1
        /\ c1 <= limit => ToSet(r1.ips) = found1
    <3>1. CASE Len(r.ips) < limit
      <4>1. r1.ips = Append(r.ips, IpOf[m])
        BY <3>1, <1>7 DEF Match
      <4>2. c <= limit /\ c < limit /\ Len(r.ips) = c
        BY <3>1, <1>2 DEF LowerOf
      <4> HIDE DEF r1, found, found1, m
      <4>3. r1.ips \in Seq(Ips) /\ Len(r1.ips) = Len(r.ips) + 1
            /\ ToSet(r1.ips) = ToSet(r.ips) \cup {IpOf[m]}
        BY <1>1, <1>2, <4>1, AppendedIp
      <4>4. LowerOf(c1, limit) = c + 1
        BY <4>2 DEF LowerOf
      <4> QED BY <4>2, <4>3, <4>4, <1>2, <2>2
    <3>2. CASE ~(Len(r.ips) < limit)
      <4>1. r1.ips = r.ips
        BY <3>2 DEF Match
      <4>2. ~(c1 <= limit) /\ LowerOf(c1, limit) = Len(r.ips)
        BY <3>2, <1>2 DEF LowerOf
      <4> HIDE DEF r1, found, found1, c1
      <4> QED BY <4>1, <4>2, <1>2, <2>2
    <3> QED BY <3>1, <3>2
  <2>4. /\ r1.count \in Nat /\ r1.count >= c1
        /\ r1.count > c1 <=> two1
    <3> HIDE DEF two, two1, r1, ports
    <3> QED BY <2>1, <1>1, <1>2, <1>5, <1>7
  <2>5. FoundAlong(r1, k + 1, c1, nodes, limit)
    <3> HIDE DEF r1, c1
    <3> QED BY <2>3, <2>4 DEF FoundAlong
  <2>6. c + (IF ports > 0 THEN 1 ELSE 0) = c1
    BY <1>7
  <2> HIDE DEF r1, c1
  <2> QED BY <2>5, <2>6 DEF r1
<1> QED BY <1>1, <1>6, <1>7

LEMMA FindsMatching ==
  ASSUME NEW n \in Nat, NEW nodes, \A i \in 1 .. n : nodes[i] \in Nodes, NEW limit \in Nat
  PROVE  FoundAlong(Finder(n, nodes, limit)[n], n, Cardinality(Matching(n, nodes)), nodes, limit)
<1> DEFINE w == Finder(n, nodes, limit)
           c(k) == Cardinality(Matching(k, nodes))
           T == {k \in 0 .. n : ~FoundAlong(w[k], k, c(k), nodes, limit)}
<1>1. w[0] = [ips |-> <<>>, count |-> 0]
      /\ \A k \in 1 .. n : w[k] = Match(w[k - 1], nodes[k], limit)
  BY FinderSteps
<1> HIDE DEF w
<1>2. FoundAlong(w[0], 0, c(0), nodes, limit)
  <2>1. <<>> \in Seq(Ips) /\ Len(<<>>) = 0 /\ ToSet(<<>>) = {}
    BY DEF ToSet
  <2>2. w[0].ips = <<>> /\ w[0].count = 0
    BY <1>1
  <2>3. Matching(0, nodes) = {} /\ IpsOf(0, nodes) = {} /\ ~TwoPorts(0, nodes)
    BY DEF Matching, IpsOf, TwoPorts
  <2>4. c(0) = 0 /\ LowerOf(0, limit) = 0
    BY <2>3, FS_EmptySet DEF LowerOf
  <2>5. w[0].ips \in Seq(Ips) /\ Len(w[0].ips) = 0 /\ ToSet(w[0].ips) = {}
    BY <2>1, <2>2
  <2>6. w[0].count \in Nat /\ w[0].count >= 0 /\ ~(w[0].count > 0)
    BY <2>2
  <2>7. FoundAlong(w[0], 0, 0, nodes, limit)
    <3> HIDE DEF c
    <3> QED BY <2>3, <2>4, <2>5, <2>6, Zenon DEF FoundAlong
  <2> QED BY <2>4, <2>7
<1>3. T = {}
  <2> SUFFICES ASSUME T # {} PROVE FALSE
    OBVIOUS
  <2>1. PICK k \in T : \A m \in T : k <= m
    <3>1. T \in SUBSET Nat
      OBVIOUS
    <3> HIDE DEF T
    <3> QED BY <3>1, LeastNat
  <2>2. k \in 1 .. n /\ k - 1 \in Nat /\ (k - 1) + 1 = k /\ nodes[k] \in Nodes
    BY <2>1, <1>2
  <2>3. k - 1 \notin T /\ k - 1 \in 0 .. n
    BY <2>1, <2>2
  <2>4. FoundAlong(w[k - 1], k - 1, c(k - 1), nodes, limit) /\ c(k - 1) \in Nat
    BY <2>2, <2>3, MatchingCount
  <2>5. FoundAlong(Match(w[k - 1], nodes[k], limit), k,
                   c(k - 1) + (IF MatchingPorts[nodes[k]] > 0 THEN 1 ELSE 0), nodes, limit)
    <3> DEFINE j == k - 1
    <3>1. j \in Nat /\ j + 1 = k /\ nodes[j + 1] \in Nodes
      BY <2>2
    <3>2. FoundAlong(w[j], j, c(j), nodes, limit) /\ c(j) \in Nat
      BY <2>4
    <3> HIDE DEF j, c
    <3>3. FoundAlong(Match(w[j], nodes[j + 1], limit), j + 1,
                     c(j) + (IF MatchingPorts[nodes[j + 1]] > 0 THEN 1 ELSE 0), nodes, limit)
      BY <3>1, <3>2, MatchAlong
    <3> QED BY <3>1, <3>3 DEF j
  <2>6. c(k) = c(k - 1) + (IF MatchingPorts[nodes[k]] > 0 THEN 1 ELSE 0)
    BY <2>2, MatchingNext
  <2>7. FoundAlong(w[k], k, c(k), nodes, limit)
    <3> HIDE DEF c
    <3> QED BY <1>1, <2>2, <2>5, <2>6
  <2> QED BY <2>1, <2>7
<1>4. FoundAlong(w[n], n, c(n), nodes, limit)
  BY <1>3
<1> QED BY <1>4 DEF w

(* artnet_send_dmx reads as many addresses as were counted, of which the   *)
(* first were stored.                                                      *)
LEMMA ReadsStored ==
  ASSUME NEW q \in Seq(Ips), NEW k \in Nat, Len(q) <= k
  PROVE  LET sends == [i \in 1 .. k |-> IF i <= Len(q) THEN q[i] ELSE Garbage]
         IN  /\ ToSet(sends) \ {Garbage} = ToSet(q)
             /\ Garbage \in ToSet(sends) <=> k > Len(q)
<1> DEFINE sends == [i \in 1 .. k |-> IF i <= Len(q) THEN q[i] ELSE Garbage]
<1>1. ToSet(sends) = {sends[i] : i \in 1 .. k} /\ ToSet(q) = {q[i] : i \in 1 .. Len(q)}
  BY DEF ToSet
<1>2. \A i \in 1 .. Len(q) : i \in 1 .. k /\ sends[i] = q[i] /\ q[i] # Garbage
  <2>1. \A ip \in Ips : ip # Garbage
    BY NodeAssumption DEF Ips
  <2> QED BY <2>1
<1>3. \A i \in 1 .. k : i \notin 1 .. Len(q) => sends[i] = Garbage
  OBVIOUS
<1>4. k > Len(q) => k \in 1 .. k /\ k \notin 1 .. Len(q)
  OBVIOUS
<1>5. ~(k > Len(q)) => \A i \in 1 .. k : i \in 1 .. Len(q)
  OBVIOUS
<1> HIDE DEF sends
<1>6. ToSet(sends) \ {Garbage} = ToSet(q)
  BY <1>1, <1>2, <1>3
<1>7. Garbage \in ToSet(sends) <=> k > Len(q)
  BY <1>1, <1>2, <1>3, <1>4, <1>5
<1> QED BY <1>6, <1>7 DEF sends

LEMMA SendReaches ==
  ASSUME ListInv, loop.at = "send"
  PROVE  /\ ToSet(Targets) \ {Garbage} \subseteq {IpOf[m] : m \in Subscribed}
         /\ BcastLimit = 0 \/ Cardinality(Subscribed) <= BcastLimit
              => {IpOf[m] : m \in Subscribed} \subseteq ToSet(Targets)
         /\ Garbage \in ToSet(Targets) <=> CountsTooMany
<1>0. PICK n \in Nat : \E s : ListOf(n, s)
  BY DEF ListInv
<1>1. PICK s : ListOf(n, s)
  BY <1>0
<1>2. /\ Entries = s /\ DOMAIN s = 1 .. n
      /\ Listed = {heap[s[i]].node : i \in 1 .. n}
  BY <1>1, EntriesAre
<1>3. list.length = n /\ \A i \in 1 .. n : heap[s[i]].node \in Nodes
  BY <1>1 DEF ListOf, Ends, HoldsNodes
<1> DEFINE nodes == NodesOf(Entries)
           r == FindNodes(Limit)
           c == Cardinality(Matching(n, nodes))
<1>4. nodes = [i \in 1 .. n |-> heap[s[i]].node]
  BY <1>2 DEF NodesOf
<1>5. Len(nodes) = n /\ \A i \in 1 .. n : nodes[i] = heap[s[i]].node
  <2> HIDE DEF nodes
  <2>1. nodes \in Seq(Nodes) /\ Len(nodes) = n
    BY <1>4, <1>3
  <2> QED BY <1>4, <2>1
<1>6. c \in Nat /\ c <= n /\ IsFiniteSet(Matching(n, nodes))
  BY MatchingCount
<1>7. /\ Limit \in Nat /\ BcastLimit \in Nat
      /\ BcastLimit > 0 => Limit = BcastLimit
      /\ BcastLimit = 0 => n <= Limit
  BY <1>3, BoundAssumption DEF Limit
<1>8. r = Finder(n, nodes, Limit)[n]
  BY <1>5, FindNodesIs
<1>9. Subscribed = {nodes[i] : i \in Matching(n, nodes)}
  <2> HIDE DEF nodes
  <2> QED BY <1>2, <1>5 DEF Subscribed, Matching
<1>10. \A i, j \in 1 .. n : nodes[i] = nodes[j] => i = j
  <2> HIDE DEF nodes
  <2> QED BY <1>1, <1>5 DEF ListOf, HoldsNodes
<1> HIDE DEF nodes, r
<1>11. Cardinality(Subscribed) = c
  <2> DEFINE M == Matching(n, nodes)
             f == [i \in M |-> nodes[i]]
  <2>1. M \subseteq 1 .. n
    BY DEF Matching
  <2> HIDE DEF M
  <2>2. f \in Injection(M, Subscribed) /\ f \in Surjection(M, Subscribed)
    BY <1>9, <1>10, <2>1 DEF Injection, IsInjective, Surjection, M
  <2>3. IsFiniteSet(Subscribed)
    <3>1. Subscribed \in SUBSET Nodes
      BY <1>2, <1>3 DEF Subscribed
    <3> QED BY <3>1, HeapAssumption, FS_Subset
  <2> HIDE DEF f
  <2> QED BY <2>2, <2>3, FS_Injection DEF M
<1> HIDE DEF c
<1>12. IpsOf(n, nodes) = {IpOf[m] : m \in Subscribed}
  BY <1>9 DEF IpsOf
<1>13. TwoPorts(n, nodes) <=> \E m \in Subscribed : MatchingPorts[m] > 1
  <2>1. \A i \in 1 .. n : MatchingPorts[nodes[i]] > 1 => i \in Matching(n, nodes)
    <3>1. \A i \in 1 .. n : MatchingPorts[nodes[i]] \in 0 .. 4
      BY <1>3, <1>5, NodeAssumption
    <3> QED BY <3>1 DEF Matching
  <2>2. Matching(n, nodes) \subseteq 1 .. n
    BY DEF Matching
  <2> QED BY <1>9, <2>1, <2>2 DEF TwoPorts
<1>14. FoundAlong(r, n, c, nodes, Limit)
  BY <1>3, <1>5, <1>7, <1>8, FindsMatching DEF c
<1> DEFINE k == IF BcastLimit > 0 THEN LowerOf(r.count, BcastLimit) ELSE r.count
<1>15. /\ r.ips \in Seq(Ips) /\ Len(r.ips) = LowerOf(c, Limit) /\ r.count \in Nat /\ r.count >= c
       /\ ToSet(r.ips) \subseteq {IpOf[m] : m \in Subscribed}
       /\ c <= Limit => ToSet(r.ips) = {IpOf[m] : m \in Subscribed}
       /\ r.count > c <=> \E m \in Subscribed : MatchingPorts[m] > 1
  BY <1>12, <1>13, <1>14 DEF FoundAlong
<1>16. k \in Nat /\ Len(r.ips) <= k
       /\ (k > Len(r.ips) <=> r.count > c /\ (BcastLimit = 0 \/ c < BcastLimit))
  <2>1. CASE BcastLimit = 0
    BY <2>1, <1>6, <1>7, <1>15 DEF LowerOf
  <2>2. CASE BcastLimit > 0
    BY <2>2, <1>6, <1>7, <1>15 DEF LowerOf
  <2> QED BY <2>1, <2>2, <1>7
<1>17. Targets = [i \in 1 .. k |-> IF i <= Len(r.ips) THEN r.ips[i] ELSE Garbage]
  BY DEF Targets, r
<1> HIDE DEF k
<1>18. /\ ToSet(Targets) \ {Garbage} = ToSet(r.ips)
       /\ Garbage \in ToSet(Targets) <=> k > Len(r.ips)
  BY <1>15, <1>16, <1>17, ReadsStored
<1>19. Garbage \in ToSet(Targets) <=> CountsTooMany
  BY <1>11, <1>15, <1>16, <1>18 DEF CountsTooMany
<1>20. BcastLimit = 0 \/ Cardinality(Subscribed) <= BcastLimit => c <= Limit
  BY <1>6, <1>7, <1>11
<1> QED BY <1>15, <1>18, <1>19, <1>20

LEMMA OnlySendDone ==
  ASSUME ListInv, [Next]_vars, loop.at = "send", loop'.at # "send"
  PROVE  sent' = ToSet(Targets)
<1>1. ~WriteStep
  BY DEF WriteStep, NlUpdate, WriteEnd, ExpireEntry, ExpireDone, At
<1>2. ~ReceiveStep /\ ~ExpireBegin /\ ~SendDmx /\ ~Tick /\ ~NlFirst /\ ~NlNext
  BY DEF ReceiveStep, NothingReceived, UpdateBegin, ExpireBegin, SendDmx, Tick, NlFirst, NlNext, At
<1>3. ~ReadStep /\ ~NlForeach /\ ~UNCHANGED vars
  BY DEF ReadStep, ReadBegin, ReadFirst, CopyEntry, NextEntry, ReadCheck, NlForeach, ReaderOnly, vars
<1> QED BY <1>1, <1>2, <1>3 DEF Next, SendDmxDone

(* Whatever the limit is and however many ports of a node are on the       *)
(* universe, artnet_send_dmx sends to every subscriber the limit leaves    *)
(* room for and to no other node; it reads past the addresses stored when  *)
(* a node with two ports makes find_nodes_from_uni count too many, and     *)
(* only then.                                                              *)
THEOREM SubscribersGetDmx == Spec => SendsToSubscribers
<1> DEFINE Leaves == At("send") /\ loop'.at # "send" =>
             /\ sent' \ {Garbage} \subseteq {IpOf[n] : n \in Subscribed}
             /\ BcastLimit = 0 \/ Cardinality(Subscribed) <= BcastLimit
                  => {IpOf[n] : n \in Subscribed} \subseteq sent'
             /\ Garbage \in sent' <=> CountsTooMany
<1>1. ListInv /\ [Next]_vars => Leaves
  BY OnlySendDone, SendReaches DEF At
<1>2. SendsToSubscribers <=> [][Leaves]_vars
  BY DEF SendsToSubscribers
<1> HIDE DEF Leaves
<1> QED BY <1>1, <1>2, ListSafe, PTL DEF Spec
=============================================================================
