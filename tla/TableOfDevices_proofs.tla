------------------------- MODULE TableOfDevices_proofs -------------------------
(***************************************************************************)
(* Theorems about TableOfDevices, for any ports, controllers, devices and  *)
(* sizes.                                                                  *)
(***************************************************************************)
EXTENDS TableOfDevices, FiniteSetTheorems, SequenceTheorems, TLAPS

(* Controller h is in the list, or the list has room for no one.           *)
Kept(h, list) == h \in ToSet(list) \/ Len(list) = MaxRequesters

(* The list is an array without repetition.                                *)
ListOK(list) ==
  /\ list \in Seq(Hosts)
  /\ Len(list) <= MaxRequesters
  /\ IsInjective(list)

(* The strengthening of AskersRemembered: the last one who asked is kept   *)
(* too, because a later call of the application may send it a table.       *)
AskersInv ==
  /\ ListOK(requesters)
  /\ todReplyAddr # NoHost => todReplyAddr \in Hosts /\ Kept(todReplyAddr, requesters)
  /\ \A h \in Hosts : (\E p \in Ports : view[h][p] # Untold) => Kept(h, requesters)

-----------------------------------------------------------------------------
(* Appending a controller that is not in the list keeps the list an array  *)
(* without repetition.                                                     *)
LEMMA AppendKeeps ==
  ASSUME NEW list, ListOK(list), NEW h \in Hosts,
         h \notin ToSet(list), Len(list) # MaxRequesters
  PROVE  ListOK(Append(list, h)) /\ ToSet(Append(list, h)) = ToSet(list) \cup {h}
<1> DEFINE longer == Append(list, h)
<1>1. MaxRequesters \in Nat BY SizeAssumption
<1>2. list \in Seq(Hosts) /\ Len(list) \in Nat /\ Len(list) <= MaxRequesters BY DEF ListOK
<1>3. longer \in Seq(Hosts) /\ Len(longer) = Len(list) + 1 BY <1>2
<1>4. Len(longer) <= MaxRequesters BY <1>1, <1>2, <1>3
<1>5. longer[Len(list) + 1] = h BY <1>2
<1>6. \A i \in 1..Len(list) : longer[i] = list[i] BY <1>2
<1>7. DOMAIN longer = 1..(Len(list) + 1) /\ DOMAIN list = 1..Len(list) BY <1>2, <1>3
<1>8. \A i \in 1..Len(list) : list[i] # h BY <1>7 DEF ToSet
<1>9. IsInjective(longer)
  <2>1. SUFFICES ASSUME NEW a \in DOMAIN longer, NEW b \in DOMAIN longer, longer[a] = longer[b]
                 PROVE  a = b
    BY DEF IsInjective
  <2>2. CASE a \in 1..Len(list) /\ b \in 1..Len(list)
    BY <2>1, <2>2, <1>6, <1>7 DEF ListOK, IsInjective
  <2>3. CASE a = Len(list) + 1 \/ b = Len(list) + 1
    BY <2>1, <2>3, <1>2, <1>5, <1>6, <1>7, <1>8
  <2>4. QED BY <2>2, <2>3, <1>2, <1>7
<1>10. ToSet(longer) = ToSet(list) \cup {h}
  BY <1>2, <1>5, <1>6, <1>7 DEF ToSet
<1>11. QED BY <1>3, <1>4, <1>9, <1>10 DEF ListOK

(* After a request the requester is kept and so is everyone kept before.   *)
LEMMA RememberedKeeps ==
  ASSUME ListOK(requesters), NEW h \in Hosts
  PROVE  /\ ListOK(Remembered(h))
         /\ Kept(h, Remembered(h))
         /\ \A g \in Hosts : Kept(g, requesters) => Kept(g, Remembered(h))
<1>1. CASE h \in ToSet(requesters) \/ Len(requesters) = MaxRequesters
  BY <1>1 DEF Remembered, Kept
<1>2. CASE h \notin ToSet(requesters) /\ Len(requesters) # MaxRequesters
  <2>1. Remembered(h) = Append(requesters, h) BY <1>2 DEF Remembered
  <2>2. QED BY <1>2, <2>1, AppendKeeps DEF Kept
<1>3. QED BY <1>1, <1>2

(* The view of a controller that is sent nothing stays what it was.        *)
LEMMA OthersUntouched ==
  ASSUME NEW told, NEW tables, NEW f, view' = ViewAfter(told, tables, f),
         NEW h \in Hosts, NEW p \in Ports, h \notin told[p]
  PROVE  view'[h][p] = view[h][p]
BY DEF ViewAfter

(* A step keeps the invariant if it lets the list only grow by the one who *)
(* asks and sends tables only to controllers that are kept.                *)
LEMMA ToldAreKept ==
  ASSUME AskersInv, ListOK(requesters'),
         NEW told, NEW tables, NEW f, view' = ViewAfter(told, tables, f),
         \A g \in Hosts : Kept(g, requesters) => Kept(g, requesters'),
         \A p \in Ports : \A g \in Hosts : g \in told[p] => Kept(g, requesters'),
         todReplyAddr' # NoHost => todReplyAddr' \in Hosts /\ Kept(todReplyAddr', requesters')
  PROVE  AskersInv'
<1>1. SUFFICES ASSUME NEW h \in Hosts, NEW p \in Ports, view'[h][p] # Untold
               PROVE  Kept(h, requesters')
  BY DEF AskersInv, ListOK, Kept
<1>2. CASE h \in told[p] BY <1>2
<1>3. CASE h \notin told[p]
  <2>1. view[h][p] # Untold BY <1>1, <1>3, OthersUntouched
  <2>2. QED BY <2>1 DEF AskersInv
<1>4. QED BY <1>2, <1>3

(* News of a change go to controllers that are kept.                       *)
LEMMA NewsGoToKept ==
  ASSUME NEW list, ListOK(list), NEW addr, addr # NoHost => Kept(addr, list),
         NEW g \in Hosts, g \in ToldOfChanges(list, addr)
  PROVE  Kept(g, list)
<1>1. CASE list = <<>>
  <2>1. g = addr BY <1>1 DEF ToldOfChanges
  <2>2. QED BY <2>1, HostAssumption
<1>2. CASE list # <<>> BY <1>2 DEF ToldOfChanges, Kept
<1>3. QED BY <1>1, <1>2

-----------------------------------------------------------------------------
(* The invariant holds initially.                                          *)
LEMMA AskersInit == Init => AskersInv
<1>1. SUFFICES ASSUME Init PROVE AskersInv OBVIOUS
<1>2. ListOK(<<>>)
  <2>1. MaxRequesters \in Nat BY SizeAssumption
  <2>2. QED BY <2>1 DEF ListOK, IsInjective
<1>3. QED BY <1>1, <1>2 DEF Init, AskersInv

(* ArtTodRequest.                                                          *)
LEMMA RequestStep ==
  ASSUME AskersInv, NEW h \in Hosts, NEW addresses, NEW f, HandleTodRequest(h, addresses, f)
  PROVE  AskersInv'
<1> DEFINE told == [p \in Ports |-> IF AddressOf[p] \in addresses THEN {h} ELSE {}]
<1>1. requesters' = Remembered(h) /\ todReplyAddr' = h /\ view' = ViewAfter(told, tod, f)
  BY DEF HandleTodRequest
<1>2. /\ ListOK(requesters')
      /\ Kept(h, requesters')
      /\ \A g \in Hosts : Kept(g, requesters) => Kept(g, requesters')
  BY <1>1, RememberedKeeps DEF AskersInv
<1>3. \A p \in Ports : \A g \in Hosts : g \in told[p] => Kept(g, requesters') BY <1>2
<1> HIDE DEF told
<1>4. QED BY <1>1, <1>2, <1>3, ToldAreKept

(* ArtTodControl, with the reports made inside its callback.               *)
LEMMA ControlStep ==
  ASSUME AskersInv, NEW h \in Hosts, NEW address, NEW cmd, HandleTodControl(h, address, cmd)
  PROVE  AskersInv'
<1> DEFINE matching == {p \in Ports : AddressOf[p] = address}
<1>1. PICK found \in [matching -> AllLists], f \in Faults :
        LET tables == [p \in Ports |-> IF p \in matching THEN TodAfter(cmd, p, found[p], f.lost)
                                       ELSE tod[p]]
            known == Remembered(h)
            answered == Answered(h, matching, tables, f)
            toldOf(p) == (IF p \in answered THEN {h} ELSE {})
                         \cup (IF p \in matching /\ found[p] # <<>> THEN ToldOfChanges(known, h)
                               ELSE {})
        IN /\ todReplyAddr' = h
           /\ requesters' = known
           /\ view' = ViewAfter([p \in Ports |-> toldOf(p)], tables, f)
  BY DEF HandleTodControl
<1> DEFINE tables == [p \in Ports |-> IF p \in matching THEN TodAfter(cmd, p, found[p], f.lost)
                                      ELSE tod[p]]
           told == [p \in Ports |->
                      (IF p \in Answered(h, matching, tables, f) THEN {h} ELSE {})
                      \cup (IF p \in matching /\ found[p] # <<>>
                            THEN ToldOfChanges(Remembered(h), h) ELSE {})]
<1>2. requesters' = Remembered(h) /\ todReplyAddr' = h /\ view' = ViewAfter(told, tables, f)
  BY <1>1
<1>3. /\ ListOK(requesters')
      /\ Kept(h, requesters')
      /\ \A g \in Hosts : Kept(g, requesters) => Kept(g, requesters')
  BY <1>2, RememberedKeeps DEF AskersInv
<1>4. \A g \in Hosts : g \in ToldOfChanges(requesters', h) => Kept(g, requesters')
  BY <1>3, NewsGoToKept
<1>5. \A p \in Ports : \A g \in Hosts : g \in told[p] => Kept(g, requesters')
  BY <1>2, <1>3, <1>4
<1> HIDE DEF told, tables
<1>6. QED BY <1>2, <1>3, <1>5, ToldAreKept

(* A change the application reports.                                       *)
LEMMA AnnounceStep ==
  ASSUME AskersInv, NEW p \in Ports, NEW t, NEW f, Announce(p, t, f)
  PROVE  AskersInv'
<1> DEFINE told == [q \in Ports |-> IF q = p THEN ToldOfChanges(requesters, todReplyAddr) ELSE {}]
<1>1. requesters' = requesters /\ todReplyAddr' = todReplyAddr /\ view' = ViewAfter(told, tod', f)
  BY DEF Announce
<1>2. \A g \in Hosts : g \in ToldOfChanges(requesters, todReplyAddr) => Kept(g, requesters)
  BY NewsGoToKept DEF AskersInv
<1>3. \A q \in Ports : \A g \in Hosts : g \in told[q] => Kept(g, requesters') BY <1>1, <1>2
<1> HIDE DEF told
<1>4. QED BY <1>1, <1>3, ToldAreKept DEF AskersInv

(* A table sent on demand of the application.                              *)
LEMMA SendStep ==
  ASSUME AskersInv, NEW p \in Ports, NEW f, SendTodData(p, f)
  PROVE  AskersInv'
<1> DEFINE told == [q \in Ports |-> IF q = p THEN {todReplyAddr} ELSE {}]
<1>1. requesters' = requesters /\ todReplyAddr' = todReplyAddr /\ view' = ViewAfter(told, tod, f)
  BY DEF SendTodData
<1>2. \A q \in Ports : \A g \in Hosts : g \in told[q] => Kept(g, requesters')
  BY <1>1 DEF SendTodData, AskersInv
<1> HIDE DEF told
<1>3. QED BY <1>1, <1>2, ToldAreKept DEF AskersInv

(* Every step keeps the invariant.                                         *)
LEMMA AskersStep == AskersInv /\ [Next]_vars => AskersInv'
<1>1. SUFFICES ASSUME AskersInv, [Next]_vars PROVE AskersInv' OBVIOUS
<1>2. CASE \E h \in Hosts, asked \in SUBSET Addresses, f \in Faults : HandleTodRequest(h, asked, f)
  BY <1>1, <1>2, RequestStep
<1>3. CASE \E h \in Hosts, a \in Addresses, cmd \in Commands : HandleTodControl(h, a, cmd)
  BY <1>1, <1>3, ControlStep
<1>4. CASE \E p \in Ports : \E uids \in Lists(UidsAt[p] \ reported[p]), f \in Faults :
             AddDevices(p, uids, f)
  BY <1>1, <1>4, AnnounceStep DEF AddDevices
<1>5. CASE \E p \in Ports : \E uid \in reported[p], f \in Faults : RemoveDevice(p, uid, f)
  BY <1>1, <1>5, AnnounceStep DEF RemoveDevice
<1>6. CASE \E p \in Ports : \E f \in Faults : SendTodData(p, f)
  BY <1>1, <1>6, SendStep
<1>7. CASE UNCHANGED vars
  BY <1>1, <1>7 DEF AskersInv, ListOK, Kept, vars
<1>8. QED BY <1>1, <1>2, <1>3, <1>4, <1>5, <1>6, <1>7 DEF Next

(* A controller that was told of a table is among the requesters from then *)
(* on, unless their array is full, and none is in it twice: what           *)
(* remember_tod_requester is for.                                          *)
THEOREM AskersStay == Spec => []AskersRemembered
<1>1. AskersInv => AskersRemembered BY DEF AskersInv, AskersRemembered, ListOK, Kept
<1>2. QED BY <1>1, AskersInit, AskersStep, PTL DEF Spec

-----------------------------------------------------------------------------
(* A list of devices added one after another.                              *)

LEMMA LeastNat ==
  ASSUME NEW T \in SUBSET Nat, T # {}
  PROVE  \E n \in T : \A m \in T : n <= m
<1>1. PICK n \in T : \A m \in T : <<m, n>> \notin OpToRel(<, Nat)
  BY WFMin, NatLessThanWellFounded, Zenon
<1>2. \A m \in T : ~(m < n)
  BY <1>1, Zenon DEF OpToRel
<1> QED BY <1>2

Greatest(s) == CHOOSE x \in s : \A y \in s : x >= y

(* w gives the table after the entries of e at the places of s.            *)
AddsUp(w, n, t, e) ==
  w = [s \in SUBSET (1 .. n) |->
         IF s = {} THEN t ELSE AddTodUid(w[s \ {Greatest(s)}], e[Greatest(s)])]

Added(n, t, e) == CHOOSE w : AddsUp(w, n, t, e)

EntriesOf(uids, lost) ==
  [i \in DOMAIN uids |-> [uid |-> uids[i], memory |-> uids[i] \notin lost]]

LEMMA AddAllIs ==
  ASSUME NEW t, NEW uids, NEW lost, NEW n \in Nat, DOMAIN uids = 1 .. n
  PROVE  AddAll(t, uids, lost) = Added(n, t, EntriesOf(uids, lost))[1 .. n]
BY Zenon DEF AddAll, FoldLeft, MapThenFoldSet, Max, Added, AddsUp, EntriesOf, Greatest

LEMMA GreatestOf ==
  ASSUME NEW n \in Nat, NEW s \in SUBSET (1 .. n), n \in s
  PROVE  Greatest(s) = n
<1>1. n \in s /\ \A y \in s : n >= y
  OBVIOUS
<1>2. \A x \in s : (\A y \in s : x >= y) => x = n
  OBVIOUS
<1> QED BY <1>1, <1>2 DEF Greatest

LEMMA AddsUpExists ==
  ASSUME NEW t, NEW e, NEW n \in Nat
  PROVE  \E w : AddsUp(w, n, t, e)
<1> DEFINE T == {k \in Nat : ~\E w : AddsUp(w, k, t, e)}
<1> SUFFICES ASSUME T # {} PROVE FALSE
  OBVIOUS
<1>1. PICK k \in T : \A m \in T : k <= m
  BY LeastNat
<1>2. CASE k = 0
  <2> DEFINE w == [s \in SUBSET (1 .. 0) |-> t]
  <2>1. \A s \in SUBSET (1 .. 0) : s = {}
    OBVIOUS
  <2>2. AddsUp(w, 0, t, e)
    BY <2>1, Zenon DEF AddsUp
  <2> HIDE DEF w
  <2> QED BY <2>2, <1>1, <1>2
<1>3. CASE k # 0
  <2>1. k - 1 \in Nat /\ k - 1 \notin T
    BY <1>1, <1>3
  <2>2. PICK v : AddsUp(v, k - 1, t, e)
    BY <2>1
  <2> DEFINE w == [s \in SUBSET (1 .. k) |->
                     IF k \in s THEN AddTodUid(v[s \ {k}], e[k]) ELSE v[s]]
             Next1(u, s) == IF s = {} THEN t
                            ELSE AddTodUid(u[s \ {Greatest(s)}], e[Greatest(s)])
  <2>3. \A s \in SUBSET (1 .. k) : k \notin s => s \in SUBSET (1 .. k - 1)
    OBVIOUS
  <2>4. \A s \in SUBSET (1 .. k - 1) : v[s] = Next1(v, s)
    BY <2>2 DEF AddsUp
  <2>5. ASSUME NEW s \in SUBSET (1 .. k)
        PROVE  w[s] = Next1(w, s)
    <3>1. CASE k \in s
      <4>1. Greatest(s) = k /\ s # {}
        BY <3>1, GreatestOf
      <4>2. k \notin s \ {k} /\ s \ {k} \in SUBSET (1 .. k)
        OBVIOUS
      <4>3. w[s \ {k}] = v[s \ {k}]
        BY <4>2
      <4>4. w[s] = AddTodUid(v[s \ {k}], e[k])
        BY <3>1
      <4> QED BY <4>1, <4>3, <4>4
    <3>2. CASE k \notin s
      <4> DEFINE r == s \ {Greatest(s)}
      <4>1. w[s] = v[s] /\ s \in SUBSET (1 .. k - 1)
        BY <3>2, <2>3
      <4>2. k \notin r /\ r \in SUBSET (1 .. k)
        BY <3>2
      <4>3. w[r] = v[r]
        BY <4>2
      <4> HIDE DEF w
      <4> QED BY <4>1, <4>3, <2>4
    <3> QED BY <3>1, <3>2
  <2>6. w = [s \in SUBSET (1 .. k) |-> Next1(w, s)]
    <3>1. w = [s \in SUBSET (1 .. k) |-> w[s]]
      BY Zenon
    <3> HIDE DEF w, Next1
    <3> QED BY <3>1, <2>5, Zenon
  <2> HIDE DEF w
  <2>7. AddsUp(w, k, t, e)
    BY <2>6, Zenon DEF AddsUp
  <2> QED BY <2>7, <1>1
<1> QED BY <1>2, <1>3

(* The table after k devices of the list.                                  *)
After(k, n, t, e) == Added(n, t, e)[1 .. k]

LEMMA AfterNone ==
  ASSUME NEW t, NEW e, NEW n \in Nat
  PROVE  After(0, n, t, e) = t
<1> DEFINE w == Added(n, t, e)
           Next1(u, s) == IF s = {} THEN t
                          ELSE AddTodUid(u[s \ {Greatest(s)}], e[Greatest(s)])
<1>1. AddsUp(w, n, t, e)
  BY AddsUpExists, Zenon DEF Added
<1> HIDE DEF w
<1>2. \A s \in SUBSET (1 .. n) : w[s] = Next1(w, s)
  BY <1>1 DEF AddsUp
<1>3. 1 .. 0 = {} /\ {} \in SUBSET (1 .. n)
  OBVIOUS
<1> QED BY <1>2, <1>3 DEF After, w

LEMMA AfterNext ==
  ASSUME NEW t, NEW e, NEW n \in Nat, NEW k \in 0 .. n - 1
  PROVE  After(k + 1, n, t, e) = AddTodUid(After(k, n, t, e), e[k + 1])
<1> DEFINE w == Added(n, t, e)
           Next1(u, s) == IF s = {} THEN t
                          ELSE AddTodUid(u[s \ {Greatest(s)}], e[Greatest(s)])
<1>1. AddsUp(w, n, t, e)
  BY AddsUpExists, Zenon DEF Added
<1> HIDE DEF w
<1>2. \A s \in SUBSET (1 .. n) : w[s] = Next1(w, s)
  BY <1>1 DEF AddsUp
<1>3. k + 1 \in Nat /\ 1 .. k + 1 \in SUBSET (1 .. k + 1) /\ k + 1 \in 1 .. k + 1
  OBVIOUS
<1>4. Greatest(1 .. k + 1) = k + 1
  BY <1>3, GreatestOf
<1>5. 1 .. k + 1 \in SUBSET (1 .. n) /\ 1 .. k + 1 # {}
  OBVIOUS
<1>6. (1 .. k + 1) \ {k + 1} = 1 .. k
  OBVIOUS
<1> QED BY <1>2, <1>4, <1>5, <1>6 DEF After, w

-----------------------------------------------------------------------------
(* Adding and removing devices.                                            *)

(* A table of devices of U is inside its allocation and has each once.     *)
TableOK(t, U) ==
  /\ t \in [data : Seq(U), maxLength : Nat]
  /\ Len(t.data) <= t.maxLength
  /\ IsInjective(t.data)

LEMMA AppendUid ==
  ASSUME NEW U, NEW s \in Seq(U), IsInjective(s), NEW u \in U, u \notin ToSet(s)
  PROVE  /\ Append(s, u) \in Seq(U) /\ Len(Append(s, u)) = Len(s) + 1
         /\ IsInjective(Append(s, u))
         /\ ToSet(Append(s, u)) = ToSet(s) \cup {u}
<1> DEFINE r == Append(s, u)
<1>1. /\ r \in Seq(U) /\ Len(r) = Len(s) + 1 /\ Len(s) \in Nat
      /\ DOMAIN r = 1 .. Len(s) + 1 /\ DOMAIN s = 1 .. Len(s)
      /\ r[Len(s) + 1] = u /\ \A i \in 1 .. Len(s) : r[i] = s[i]
  OBVIOUS
<1> HIDE DEF r
<1>2. \A i \in 1 .. Len(s) : s[i] # u
  BY <1>1 DEF ToSet
<1>3. ASSUME NEW a \in DOMAIN r, NEW b \in DOMAIN r, r[a] = r[b]
      PROVE  a = b
  <2>1. CASE a \in 1 .. Len(s) /\ b \in 1 .. Len(s)
    BY <2>1, <1>1, <1>3 DEF IsInjective
  <2>2. CASE a = Len(s) + 1 \/ b = Len(s) + 1
    BY <2>2, <1>1, <1>2, <1>3
  <2> QED BY <2>1, <2>2, <1>1
<1>4. IsInjective(r)
  BY <1>3 DEF IsInjective
<1>5. ToSet(r) = ToSet(s) \cup {u}
  BY <1>1 DEF ToSet
<1> QED BY <1>1, <1>4, <1>5 DEF r

LEMMA AddKeeps ==
  ASSUME NEW U, NEW t, TableOK(t, U), NEW entry, entry.uid \in U, entry.memory \in BOOLEAN,
         entry.uid \notin ToSet(t.data)
  PROVE  /\ TableOK(AddTodUid(t, entry), U)
         /\ ToSet(AddTodUid(t, entry).data) \subseteq ToSet(t.data) \cup {entry.uid}
         /\ Len(AddTodUid(t, entry).data) >= Len(t.data)
         /\ entry.memory => Len(AddTodUid(t, entry).data) = Len(t.data) + 1
<1> DEFINE r == AddTodUid(t, entry)
           d == Append(t.data, entry.uid)
<1>1. /\ t.data \in Seq(U) /\ t.maxLength \in Nat /\ Len(t.data) <= t.maxLength
      /\ Len(t.data) \in Nat /\ IsInjective(t.data)
  BY DEF TableOK
<1>2. CASE IsFull(t) /\ ~entry.memory
  BY <1>1, <1>2 DEF AddTodUid
<1>3. CASE ~IsFull(t) \/ entry.memory
  <2> DEFINE m == IF IsFull(t) THEN Grown(t) ELSE t.maxLength
  <2>1. r = [data |-> d, maxLength |-> m]
    BY <1>3 DEF AddTodUid
  <2>2. /\ d \in Seq(U) /\ Len(d) = Len(t.data) + 1 /\ IsInjective(d)
        /\ ToSet(d) = ToSet(t.data) \cup {entry.uid}
    BY <1>1, AppendUid
  <2>3. m \in Nat /\ Len(t.data) + 1 <= m
    BY <1>1, SizeAssumption DEF IsFull, Grown
  <2> HIDE DEF d, m, r
  <2>4. TableOK(r, U)
    BY <2>1, <2>2, <2>3 DEF TableOK
  <2> QED BY <2>1, <2>2, <2>4, <1>1 DEF r
<1> QED BY <1>2, <1>3

LEMMA AddAllKeeps ==
  ASSUME NEW U, NEW t, TableOK(t, U), NEW uids \in Seq(U), IsInjective(uids),
         ToSet(uids) \cap ToSet(t.data) = {},
         NEW lost, \A u, v \in lost : u = v
  PROVE  /\ TableOK(AddAll(t, uids, lost), U)
         /\ ToSet(AddAll(t, uids, lost).data) \subseteq ToSet(t.data) \cup ToSet(uids)
         /\ Len(AddAll(t, uids, lost).data)
              >= Len(t.data) + Len(uids) - (IF lost = {} THEN 0 ELSE 1)
         /\ uids = <<>> => AddAll(t, uids, lost) = t
<1> DEFINE n == Len(uids)
           e == EntriesOf(uids, lost)
           at(k) == After(k, n, t, e)
           first(k) == {uids[i] : i \in 1 .. k}
           loss(k) == IF first(k) \cap lost = {} THEN 0 ELSE 1
           P(k) == /\ TableOK(at(k), U)
                   /\ ToSet(at(k).data) \subseteq ToSet(t.data) \cup first(k)
                   /\ Len(at(k).data) >= Len(t.data) + k - loss(k)
<1>1. n \in Nat /\ DOMAIN uids = 1 .. n /\ ToSet(uids) = first(n)
  BY DEF ToSet
<1>2. at(0) = t /\ \A k \in 0 .. n - 1 : at(k + 1) = AddTodUid(at(k), e[k + 1])
  <2>1. n \in Nat
    BY <1>1
  <2> HIDE DEF n, e
  <2>2. After(0, n, t, e) = t
    BY <2>1, AfterNone
  <2>3. \A k \in 0 .. n - 1 : After(k + 1, n, t, e) = AddTodUid(After(k, n, t, e), e[k + 1])
    BY <2>1, AfterNext, Zenon
  <2> QED BY <2>2, <2>3
<1>3. Len(t.data) \in Nat
  BY DEF TableOK
<1> HIDE DEF at
<1>4. P(0)
  <2>1. first(0) = {}
    OBVIOUS
  <2> QED BY <1>2, <1>3, <2>1
<1>5. ASSUME NEW k \in 0 .. n - 1, P(k)
      PROVE  P(k + 1)
  <2> DEFINE u == uids[k + 1]
  <2>1. k + 1 \in 1 .. n /\ e[k + 1] = [uid |-> u, memory |-> u \notin lost] /\ u \in U
    BY <1>1 DEF EntriesOf
  <2>2. first(k + 1) = first(k) \cup {u}
    OBVIOUS
  <2>3. u \notin first(k)
    BY <2>1, <1>1 DEF IsInjective
  <2>4. u \notin ToSet(t.data)
    BY <2>1, <1>1 DEF ToSet
  <2>5. u \notin ToSet(at(k).data)
    BY <2>3, <2>4, <1>5
  <2>6. at(k + 1) = AddTodUid(at(k), [uid |-> u, memory |-> u \notin lost])
    BY <1>2, <2>1
  <2> DEFINE entry == [uid |-> u, memory |-> u \notin lost]
  <2>7. entry.uid = u /\ entry.memory \in BOOLEAN /\ (entry.memory <=> u \notin lost)
    OBVIOUS
  <2> HIDE DEF entry, first, e
  <2>8. /\ TableOK(at(k + 1), U)
        /\ ToSet(at(k + 1).data) \subseteq ToSet(at(k).data) \cup {u}
        /\ Len(at(k + 1).data) >= Len(at(k).data)
        /\ u \notin lost => Len(at(k + 1).data) = Len(at(k).data) + 1
    <3>1. AddTodUid(at(k), entry) = at(k + 1)
      BY <2>6 DEF entry
    <3>2. TableOK(at(k), U) /\ entry.uid \in U /\ entry.uid \notin ToSet(at(k).data)
      BY <1>5, <2>1, <2>5, <2>7
    <3> DEFINE x == at(k)
    <3> HIDE DEF x
    <3>3. /\ TableOK(AddTodUid(x, entry), U)
          /\ ToSet(AddTodUid(x, entry).data) \subseteq ToSet(x.data) \cup {entry.uid}
          /\ Len(AddTodUid(x, entry).data) >= Len(x.data)
          /\ entry.memory => Len(AddTodUid(x, entry).data) = Len(x.data) + 1
      BY <3>2, <2>7, AddKeeps, Zenon DEF x
    <3> QED BY <3>1, <3>3, <2>7 DEF x
  <2>9. ToSet(at(k + 1).data) \subseteq ToSet(t.data) \cup first(k + 1)
    BY <2>8, <2>2, <1>5
  <2>10. Len(at(k).data) \in Nat /\ Len(at(k + 1).data) \in Nat
    BY <1>5, <2>8 DEF TableOK
  <2>11. CASE u \in lost
    <3>1. first(k) \cap lost = {} /\ first(k + 1) \cap lost # {}
      BY <2>11, <2>2, <2>3
    <3>2. Len(at(k + 1).data) >= Len(t.data) + (k + 1) - 1
      BY <3>1, <2>8, <2>10, <1>5, <1>3
    <3> QED BY <2>8, <2>9, <3>1, <3>2
  <2>12. CASE u \notin lost
    <3>1. first(k + 1) \cap lost = first(k) \cap lost
      BY <2>12, <2>2
    <3>2. loss(k + 1) = loss(k) /\ loss(k) \in {0, 1}
      BY <3>1
    <3>3. Len(at(k).data) >= Len(t.data) + k - loss(k)
      BY <1>5
    <3> HIDE DEF loss
    <3>4. Len(at(k + 1).data) >= Len(t.data) + (k + 1) - loss(k + 1)
      BY <3>2, <3>3, <2>8, <2>10, <2>12, <1>3
    <3> QED BY <2>8, <2>9, <3>4
  <2> QED BY <2>11, <2>12
<1>6. P(n)
  <2> DEFINE T == {k \in 0 .. n : ~P(k)}
  <2> HIDE DEF P
  <2> SUFFICES ASSUME T # {} PROVE FALSE
    BY <1>1
  <2>1. PICK k \in T : \A m \in T : k <= m
    <3>1. T \in SUBSET Nat
      BY <1>1
    <3> QED BY <3>1, LeastNat
  <2>2. k # 0
    BY <2>1, <1>4
  <2>3. k - 1 \in 0 .. n - 1 /\ k - 1 \notin T
    BY <2>1, <2>2, <1>1
  <2>4. P(k - 1) /\ (k - 1) + 1 = k
    BY <2>3, <1>1
  <2>5. P(k)
    BY <2>3, <2>4, <1>5
  <2> QED BY <2>5, <2>1
<1>7. AddAll(t, uids, lost) = at(n)
  BY <1>1, AddAllIs DEF After, at
<1>8. uids = <<>> => n = 0
  OBVIOUS
<1>9. first(n) \cap lost # {} => lost # {}
  OBVIOUS
<1>10. Len(at(n).data) \in Nat
  BY <1>6 DEF TableOK
<1> DEFINE r == at(n)
<1>11. /\ TableOK(r, U) /\ ToSet(r.data) \subseteq ToSet(t.data) \cup ToSet(uids)
       /\ Len(r.data) >= Len(t.data) + n - loss(n)
  BY <1>6, <1>1
<1>12. uids = <<>> => r = t
  BY <1>2, <1>8
<1> DEFINE most == IF lost = {} THEN 0 ELSE 1
<1>14. loss(n) \in {0, 1} /\ most \in {0, 1} /\ loss(n) <= most
  BY <1>9
<1> HIDE DEF e, first, r, loss, most
<1>13. Len(r.data) >= Len(t.data) + n - most
  BY <1>1, <1>3, <1>10, <1>11, <1>14 DEF r
<1> QED BY <1>7, <1>11, <1>12, <1>13 DEF r, most

(* The UID to remove is overwritten by the last one.                       *)
LEMMA OverwriteOne ==
  ASSUME NEW U, NEW s \in Seq(U), IsInjective(s), NEW i \in 1 .. Len(s)
  PROVE  LET r == Front([s EXCEPT ![i] = Last(s)])
         IN  /\ r \in Seq(U) /\ Len(r) = Len(s) - 1 /\ IsInjective(r)
             /\ ToSet(r) = ToSet(s) \ {s[i]}
<1> DEFINE n == Len(s)
           v == [s EXCEPT ![i] = Last(s)]
           r == Front(v)
<1>1. n \in Nat /\ n >= 1 /\ DOMAIN s = 1 .. n /\ \A j \in 1 .. n : s[j] \in U
  OBVIOUS
<1>2. v \in Seq(U) /\ Len(v) = n /\ \A j \in 1 .. n : v[j] = IF j = i THEN s[n] ELSE s[j]
  BY <1>1 DEF Last
<1> HIDE DEF v
<1>3. r \in Seq(U) /\ Len(r) = n - 1 /\ \A j \in 1 .. n - 1 : r[j] = v[j]
  BY <1>1, <1>2 DEF Front
<1> HIDE DEF r
<1>4. \A j \in 1 .. n - 1 : r[j] = IF j = i THEN s[n] ELSE s[j]
  BY <1>1, <1>2, <1>3
<1>5. DOMAIN r = 1 .. n - 1
  BY <1>3, <1>1
<1>6. \A a, b \in 1 .. n : s[a] = s[b] => a = b
  BY <1>1 DEF IsInjective
<1>7. IsInjective(r)
  BY <1>1, <1>4, <1>5, <1>6 DEF IsInjective
<1>8. ToSet(r) = {r[j] : j \in 1 .. n - 1} /\ ToSet(s) = {s[j] : j \in 1 .. n}
  BY <1>1, <1>5 DEF ToSet
<1>9. ASSUME NEW j \in 1 .. n - 1
      PROVE  r[j] \in ToSet(s) \ {s[i]}
  BY <1>1, <1>4, <1>6, <1>8
<1>10. ASSUME NEW j \in 1 .. n, s[j] # s[i]
       PROVE  s[j] \in ToSet(r)
  <2>1. CASE j = n
    <3>1. i \in 1 .. n - 1
      BY <2>1, <1>10, <1>1
    <3>2. r[i] = s[j]
      BY <2>1, <3>1, <1>4
    <3> QED BY <3>1, <3>2, <1>8
  <2>2. CASE j # n
    <3>1. j \in 1 .. n - 1
      <4>1. n \in Nat /\ j \in 1 .. n
        BY <1>1
      <4> HIDE DEF n
      <4> QED BY <2>2, <4>1
    <3>2. j # i
      BY <1>10, Zenon
    <3>3. r[j] = s[j]
      BY <3>1, <3>2, <1>4
    <3> QED BY <3>1, <3>3, <1>8
  <2> QED BY <2>1, <2>2
<1>11. ToSet(r) = ToSet(s) \ {s[i]}
  BY <1>8, <1>9, <1>10
<1> QED BY <1>3, <1>7, <1>11 DEF r, v

LEMMA PlaceOf ==
  ASSUME NEW U, NEW s \in Seq(U), NEW u \in ToSet(s)
  PROVE  /\ SelectInSeq(s, LAMBDA x : x = u) \in 1 .. Len(s)
         /\ s[SelectInSeq(s, LAMBDA x : x = u)] = u
<1> DEFINE I == {i \in 1 .. Len(s) : s[i] = u}
           least == CHOOSE x \in I : \A y \in I : x <= y
<1>1. I # {} /\ I \in SUBSET Nat
  BY DEF ToSet
<1>2. \E x \in I : \A y \in I : x <= y
  <2> HIDE DEF I
  <2> QED BY <1>1, LeastNat
<1>3. least \in I
  <2> HIDE DEF I
  <2> QED BY <1>2
<1>4. SelectInSeq(s, LAMBDA x : x = u) = least
  BY <1>1, Zenon DEF SelectInSeq, Min
<1> QED BY <1>3, <1>4

LEMMA RemoveKeeps ==
  ASSUME NEW U, NEW t, TableOK(t, U), NEW uid
  PROVE  /\ TableOK(RemoveTodUid(t, uid), U)
         /\ ToSet(RemoveTodUid(t, uid).data) = ToSet(t.data) \ {uid}
         /\ Len(RemoveTodUid(t, uid).data) =
              IF uid \in ToSet(t.data) THEN Len(t.data) - 1 ELSE Len(t.data)
<1>1. /\ t.data \in Seq(U) /\ t.maxLength \in Nat /\ Len(t.data) <= t.maxLength
      /\ Len(t.data) \in Nat /\ IsInjective(t.data)
      /\ t \in [data : Seq(U), maxLength : Nat]
  BY DEF TableOK
<1>2. CASE uid \notin ToSet(t.data)
  BY <1>1, <1>2 DEF RemoveTodUid
<1>3. CASE uid \in ToSet(t.data)
  <2> DEFINE i == SelectInSeq(t.data, LAMBDA u : u = uid)
             d == Front([t.data EXCEPT ![i] = Last(t.data)])
  <2>1. i \in 1 .. Len(t.data) /\ t.data[i] = uid
    BY <1>1, <1>3, PlaceOf
  <2>2. RemoveTodUid(t, uid) = [t EXCEPT !.data = d]
    BY <1>3, Zenon DEF RemoveTodUid
  <2> HIDE DEF i
  <2>3. /\ d \in Seq(U) /\ Len(d) = Len(t.data) - 1 /\ IsInjective(d)
        /\ ToSet(d) = ToSet(t.data) \ {uid}
    BY <1>1, <2>1, OverwriteOne
  <2> HIDE DEF d
  <2>4. [t EXCEPT !.data = d] = [data |-> d, maxLength |-> t.maxLength]
    BY <1>1
  <2>5. TableOK([data |-> d, maxLength |-> t.maxLength], U)
    BY <1>1, <2>3 DEF TableOK
  <2> QED BY <1>3, <2>2, <2>3, <2>4, <2>5
<1> QED BY <1>2, <1>3

-----------------------------------------------------------------------------
(* A table and what the application has reported of its port.              *)

PortOK(t, rep, p, k) ==
  /\ TableOK(t, UidsAt[p])
  /\ rep \in SUBSET UidsAt[p]
  /\ ToSet(t.data) \subseteq rep
  /\ Cardinality(rep) - Len(t.data) <= k

LEMMA FiniteDevices ==
  ASSUME NEW p \in Ports
  PROVE  /\ UidsAt[p] \subseteq Uids
         /\ IsFiniteSet(UidsAt[p])
         /\ \A D \in SUBSET UidsAt[p] : IsFiniteSet(D) /\ Cardinality(D) \in Nat
<1>1. UidsAt[p] \subseteq Uids
  BY DEF Uids
<1>2. \A D \in SUBSET Uids : IsFiniteSet(D)
  BY DeviceAssumption, FS_Subset
<1> QED BY <1>1, <1>2, FS_CardinalityType

LEMMA ListFacts ==
  ASSUME NEW p \in Ports, NEW D \in SUBSET UidsAt[p], NEW uids \in Lists(D)
  PROVE  /\ uids \in Seq(UidsAt[p]) /\ Len(uids) \in Nat /\ IsInjective(uids)
         /\ ToSet(uids) \in SUBSET D
         /\ Cardinality(ToSet(uids)) \in Nat /\ Cardinality(ToSet(uids)) <= Len(uids)
<1>1. PICK some \in SUBSET Uids : uids \in SetToSeqs(some)
  BY DEF Lists, AllLists
<1> DEFINE n == Cardinality(some)
<1>2. n \in Nat
  BY DeviceAssumption, FS_Subset, FS_CardinalityType
<1>3. uids \in [1 .. n -> some] /\ \A i, j \in 1 .. n : i # j => uids[i] # uids[j]
  BY <1>1 DEF SetToSeqs
<1> HIDE DEF n
<1>4. ToSet(uids) \in SUBSET D
  BY DEF Lists
<1>5. ToSet(uids) = {uids[i] : i \in 1 .. n}
  BY <1>3 DEF ToSet
<1>6. uids \in Seq(UidsAt[p]) /\ Len(uids) = n
  <2>1. uids \in [1 .. n -> UidsAt[p]]
    BY <1>3, <1>4, <1>5
  <2> QED BY <2>1, <1>2
<1>7. IsInjective(uids)
  BY <1>3 DEF IsInjective
<1>8. uids \in Surjection(1 .. n, ToSet(uids))
  BY <1>3, <1>5 DEF Surjection
<1>9. IsFiniteSet(1 .. n) /\ Cardinality(1 .. n) = n
  BY <1>2, FS_Interval
<1>10. Cardinality(ToSet(uids)) <= n /\ IsFiniteSet(ToSet(uids))
  BY <1>8, <1>9, FS_Surjection
<1>11. Cardinality(ToSet(uids)) \in Nat
  BY <1>10, FS_CardinalityType
<1> QED BY <1>2, <1>4, <1>6, <1>7, <1>10, <1>11

LEMMA PortAdds ==
  ASSUME NEW p \in Ports, NEW t, NEW rep, NEW k \in Nat, PortOK(t, rep, p, k),
         NEW uids \in Lists(UidsAt[p] \ rep), NEW lost, \A u, v \in lost : u = v,
         NEW m \in Nat, m >= k, lost # {} => m >= k + 1
  PROVE  PortOK(AddAll(t, uids, lost), rep \cup ToSet(uids), p, m)
<1> DEFINE U == UidsAt[p]
           r == AddAll(t, uids, lost)
           most == IF lost = {} THEN 0 ELSE 1
<1>1. /\ TableOK(t, U) /\ rep \in SUBSET U /\ ToSet(t.data) \subseteq rep
      /\ Cardinality(rep) - Len(t.data) <= k
  BY DEF PortOK
<1>2. /\ uids \in Seq(U) /\ Len(uids) \in Nat /\ IsInjective(uids)
      /\ ToSet(uids) \in SUBSET (U \ rep)
      /\ Cardinality(ToSet(uids)) \in Nat /\ Cardinality(ToSet(uids)) <= Len(uids)
  BY ListFacts
<1>3. ToSet(uids) \cap ToSet(t.data) = {}
  BY <1>1, <1>2
<1>4. /\ TableOK(r, U) /\ ToSet(r.data) \subseteq ToSet(t.data) \cup ToSet(uids)
      /\ Len(r.data) >= Len(t.data) + Len(uids) - most
  BY <1>1, <1>2, <1>3, AddAllKeeps
<1>5. most \in {0, 1} /\ most + k <= m
  OBVIOUS
<1>6. Len(t.data) \in Nat /\ Len(r.data) \in Nat
  BY <1>1, <1>4 DEF TableOK
<1>7. IsFiniteSet(rep) /\ IsFiniteSet(ToSet(uids)) /\ Cardinality(rep) \in Nat
  BY <1>1, <1>2, FiniteDevices
<1>8. rep \cap ToSet(uids) = {}
  BY <1>2
<1>9. Cardinality(rep \cup ToSet(uids)) = Cardinality(rep) + Cardinality(ToSet(uids))
  <2> DEFINE T == ToSet(uids)
  <2> HIDE DEF T
  <2>1. /\ IsFiniteSet(T) /\ rep \cap T = {} /\ Cardinality(T) \in Nat
        /\ Cardinality({}) = 0
    BY <1>2, <1>7, <1>8, FS_EmptySet DEF T
  <2>2. Cardinality(rep \cup T) = Cardinality(rep) + Cardinality(T) - Cardinality(rep \cap T)
    BY <1>7, <2>1, FS_Union
  <2>3. Cardinality(rep \cup T) = Cardinality(rep) + Cardinality(T) - 0
    BY <2>1, <2>2
  <2> QED BY <2>1, <2>3, <1>7 DEF T
<1> HIDE DEF r, most
<1>10. Cardinality(rep \cup ToSet(uids)) - Len(r.data) <= m
  BY <1>1, <1>2, <1>4, <1>5, <1>6, <1>7, <1>9
<1>11. rep \cup ToSet(uids) \in SUBSET U /\ ToSet(r.data) \subseteq rep \cup ToSet(uids)
  BY <1>1, <1>2, <1>4
<1> QED BY <1>4, <1>10, <1>11 DEF PortOK, r

LEMMA PortRemoves ==
  ASSUME NEW p \in Ports, NEW t, NEW rep, NEW k \in Nat, PortOK(t, rep, p, k), NEW uid \in rep
  PROVE  PortOK(RemoveTodUid(t, uid), rep \ {uid}, p, k)
<1> DEFINE r == RemoveTodUid(t, uid)
<1>1. /\ TableOK(t, UidsAt[p]) /\ rep \in SUBSET UidsAt[p] /\ ToSet(t.data) \subseteq rep
      /\ Cardinality(rep) - Len(t.data) <= k
  BY DEF PortOK
<1>2. /\ TableOK(r, UidsAt[p]) /\ ToSet(r.data) = ToSet(t.data) \ {uid}
      /\ Len(r.data) = IF uid \in ToSet(t.data) THEN Len(t.data) - 1 ELSE Len(t.data)
  BY <1>1, RemoveKeeps
<1> HIDE DEF r
<1>3. IsFiniteSet(rep) /\ Cardinality(rep) \in Nat
  BY <1>1, FiniteDevices
<1>4. Cardinality(rep \ {uid}) = Cardinality(rep) - 1
  BY <1>3, FS_RemoveElement
<1>5. Len(t.data) \in Nat /\ Len(r.data) \in Nat
  BY <1>1, <1>2 DEF TableOK
<1>6. Cardinality(rep \ {uid}) - Len(r.data) <= k
  BY <1>1, <1>2, <1>3, <1>4, <1>5
<1> QED BY <1>1, <1>2, <1>6 DEF PortOK, r

LEMMA PortFlushed ==
  ASSUME NEW p \in Ports, NEW k \in Nat
  PROVE  PortOK(Flushed, {}, p, k)
<1>1. Flushed \in [data : Seq(UidsAt[p]), maxLength : Nat] /\ Len(Flushed.data) = 0
      /\ Flushed.maxLength = 0 /\ DOMAIN Flushed.data = {}
  BY DEF Flushed
<1>2. ToSet(Flushed.data) = {} /\ IsInjective(Flushed.data)
  BY <1>1 DEF ToSet, IsInjective
<1>3. Cardinality({}) = 0
  BY FS_EmptySet
<1> QED BY <1>1, <1>2, <1>3 DEF PortOK, TableOK

LEMMA PortKept ==
  ASSUME NEW p \in Ports, NEW t, NEW rep, NEW k \in Nat, PortOK(t, rep, p, k), NEW m \in Nat, m >= k
  PROVE  PortOK(t, rep, p, m)
<1>1. rep \in SUBSET UidsAt[p] /\ Len(t.data) \in Nat /\ Cardinality(rep) - Len(t.data) <= k
  BY DEF PortOK, TableOK
<1>2. Cardinality(rep) \in Nat
  BY <1>1, FiniteDevices
<1>3. Cardinality(rep) - Len(t.data) <= m
  BY <1>1, <1>2
<1> QED BY <1>3 DEF PortOK

LEMMA EmptyList ==
  ASSUME NEW D
  PROVE  <<>> \in Lists(D) /\ ToSet(<<>>) = {}
<1>1. Cardinality({}) = 0
  BY FS_EmptySet
<1>2. <<>> \in [1 .. 0 -> {}] /\ DOMAIN <<>> = {}
  OBVIOUS
<1>3. <<>> \in SetToSeqs({})
  BY <1>1, <1>2 DEF SetToSeqs
<1>4. <<>> \in AllLists
  BY <1>3 DEF AllLists
<1>5. ToSet(<<>>) = {}
  BY DEF ToSet
<1> QED BY <1>4, <1>5 DEF Lists

(* In one call one thing fails at most, and it is counted.                 *)
LEMMA OneFault ==
  ASSUME NEW f \in Faults, Suffer(f), faults \in 0 .. MaxFaults
  PROVE  /\ faults \in Nat /\ faults' \in 0 .. MaxFaults /\ faults' \in Nat /\ faults' >= faults
         /\ \A u, v \in f.lost : u = v
         /\ f.lost # {} => faults' >= faults + 1
         /\ \A d, e \in f.refused : d = e
         /\ f.refused # {} => faults' >= faults + 1
<1>1. MaxFaults \in Nat
  BY SizeAssumption
<1>2. CASE f = NoFault
  BY <1>1, <1>2 DEF Suffer, NoFault
<1>3. CASE f # NoFault
  <2>1. faults' = faults + 1 /\ faults # MaxFaults
    BY <1>3 DEF Faults, Suffer
  <2>2. \/ \E d : f = [refused |-> {d}, lost |-> {}]
        \/ \E u : f = [refused |-> {}, lost |-> {u}]
    BY <1>3 DEF Faults
  <2>3. (\A u, v \in f.lost : u = v) /\ (\A d, e \in f.refused : d = e)
    BY <2>2
  <2> QED BY <1>1, <2>1, <2>3
<1> QED BY <1>2, <1>3

TablesInv ==
  /\ DOMAIN tod = Ports
  /\ reported \in [Ports -> SUBSET Uids]
  /\ faults \in 0 .. MaxFaults
  /\ \A p \in Ports : PortOK(tod[p], reported[p], p, faults)

LEMMA TablesInit == Init => TablesInv
<1> SUFFICES ASSUME Init PROVE TablesInv
  OBVIOUS
<1>1. 0 \in 0 .. MaxFaults
  BY SizeAssumption
<1> QED BY <1>1, PortFlushed DEF Init, TablesInv

LEMMA TablesKept ==
  ASSUME TablesInv, UNCHANGED <<tod, reported>>, NEW f \in Faults, Suffer(f)
  PROVE  TablesInv'
<1>1. faults' \in 0 .. MaxFaults /\ faults' \in Nat /\ faults \in Nat /\ faults' >= faults
  BY OneFault DEF TablesInv
<1>2. \A p \in Ports : PortOK(tod[p], reported[p], p, faults')
  BY <1>1, PortKept DEF TablesInv
<1> QED BY <1>1, <1>2 DEF TablesInv

LEMMA ReportedOnPorts ==
  ASSUME NEW r, DOMAIN r = Ports, r = [p \in Ports |-> r[p]],
         \A p \in Ports : r[p] \in SUBSET UidsAt[p]
  PROVE  r \in [Ports -> SUBSET Uids]
BY FiniteDevices

LEMMA TableChanges ==
  ASSUME TablesInv, NEW p \in Ports, NEW t, NEW rep, NEW f \in Faults, Suffer(f),
         PortOK(t, rep, p, faults'),
         tod' = [tod EXCEPT ![p] = t], reported' = [reported EXCEPT ![p] = rep]
  PROVE  TablesInv'
<1>1. faults' \in 0 .. MaxFaults /\ faults' \in Nat /\ faults \in Nat /\ faults' >= faults
  BY OneFault DEF TablesInv
<1>2. \A q \in Ports : tod'[q] = (IF q = p THEN t ELSE tod[q])
                       /\ reported'[q] = (IF q = p THEN rep ELSE reported[q])
  BY DEF TablesInv
<1>3. \A q \in Ports : PortOK(tod[q], reported[q], q, faults')
  BY <1>1, PortKept DEF TablesInv
<1>4. \A q \in Ports : PortOK(tod'[q], reported'[q], q, faults')
  BY <1>2, <1>3
<1>5. DOMAIN tod' = Ports
  BY DEF TablesInv
<1>6. rep \in SUBSET Uids
  BY FiniteDevices DEF PortOK
<1>7. reported' \in [Ports -> SUBSET Uids]
  BY <1>6 DEF TablesInv
<1> QED BY <1>1, <1>4, <1>5, <1>7 DEF TablesInv

(* ArtTodControl, with the reports made inside its callback.               *)
LEMMA TablesControl ==
  ASSUME TablesInv, NEW h, NEW address, NEW cmd, HandleTodControl(h, address, cmd)
  PROVE  TablesInv'
<1> DEFINE matching == {p \in Ports : AddressOf[p] = address}
           rest(p) == IF cmd = "flush" THEN {} ELSE reported[p]
<1>1. PICK found \in {s \in [matching -> AllLists] : \A p \in matching : s[p] \in Found(cmd, p)},
           f \in Faults :
        /\ tod' = [p \in Ports |-> IF p \in matching THEN TodAfter(cmd, p, found[p], f.lost)
                                   ELSE tod[p]]
        /\ reported' = [p \in Ports |-> IF p \notin matching THEN reported[p]
                                        ELSE ToSet(found[p]) \cup rest(p)]
        /\ Suffer(f)
  BY DEF HandleTodControl
<1>2. /\ faults' \in 0 .. MaxFaults /\ faults' \in Nat /\ faults \in Nat /\ faults' >= faults
      /\ \A u, v \in f.lost : u = v
      /\ f.lost # {} => faults' >= faults + 1
  BY <1>1, OneFault DEF TablesInv
<1>3. ASSUME NEW p \in matching
      PROVE  PortOK(TodAfter(cmd, p, found[p], f.lost), ToSet(found[p]) \cup rest(p), p, faults')
  <2>1. p \in Ports
    OBVIOUS
  <2>2. found[p] \in Lists(UidsAt[p] \ rest(p))
    BY EmptyList DEF Found, Searches
  <2> DEFINE t == IF cmd = "flush" THEN Flushed ELSE tod[p]
  <2>3. PortOK(t, rest(p), p, faults)
    BY <2>1, <1>2, PortFlushed DEF TablesInv
  <2>4. TodAfter(cmd, p, found[p], f.lost) = AddAll(t, found[p], f.lost)
    BY DEF TodAfter
  <2> HIDE DEF t, rest
  <2>5. PortOK(AddAll(t, found[p], f.lost), rest(p) \cup ToSet(found[p]), p, faults')
    BY <1>2, <2>1, <2>2, <2>3, PortAdds
  <2>6. rest(p) \cup ToSet(found[p]) = ToSet(found[p]) \cup rest(p)
    OBVIOUS
  <2> QED BY <2>4, <2>5, <2>6
<1>4. \A p \in Ports : PortOK(tod[p], reported[p], p, faults')
  BY <1>2, PortKept DEF TablesInv
<1>5. ASSUME NEW p \in Ports
      PROVE  PortOK(tod'[p], reported'[p], p, faults')
  <2>1. CASE p \in matching
    BY <2>1, <1>1, <1>3
  <2>2. CASE p \notin matching
    BY <2>2, <1>1, <1>4
  <2> QED BY <2>1, <2>2
<1>6. DOMAIN tod' = Ports /\ DOMAIN reported' = Ports /\ reported' = [p \in Ports |-> reported'[p]]
  BY <1>1
<1>7. \A p \in Ports : reported'[p] \in SUBSET UidsAt[p]
  BY <1>5 DEF PortOK
<1>8. reported' \in [Ports -> SUBSET Uids]
  BY <1>6, <1>7, ReportedOnPorts
<1> QED BY <1>2, <1>5, <1>6, <1>8 DEF TablesInv

LEMMA TablesStep == TablesInv /\ [Next]_vars => TablesInv'
<1> SUFFICES ASSUME TablesInv, [Next]_vars PROVE TablesInv'
  OBVIOUS
<1>1. CASE \E h \in Hosts, asked \in SUBSET Addresses, f \in Faults : HandleTodRequest(h, asked, f)
  BY <1>1, TablesKept DEF HandleTodRequest
<1>2. CASE \E h \in Hosts, a \in Addresses, cmd \in Commands : HandleTodControl(h, a, cmd)
  BY <1>2, TablesControl
<1>3. ASSUME NEW p \in Ports, NEW uids \in Lists(UidsAt[p] \ reported[p]), NEW f \in Faults,
             AddDevices(p, uids, f)
      PROVE  TablesInv'
  <2>1. /\ Suffer(f) /\ tod' = [tod EXCEPT ![p] = AddAll(tod[p], uids, f.lost)]
        /\ reported' = [reported EXCEPT ![p] = @ \cup ToSet(uids)]
    BY <1>3 DEF AddDevices, Announce
  <2>2. /\ faults' \in Nat /\ faults \in Nat /\ faults' >= faults
        /\ \A u, v \in f.lost : u = v
        /\ f.lost # {} => faults' >= faults + 1
    BY <2>1, OneFault DEF TablesInv
  <2>3. PortOK(AddAll(tod[p], uids, f.lost), reported[p] \cup ToSet(uids), p, faults')
    BY <2>2, PortAdds DEF TablesInv
  <2>4. reported' = [reported EXCEPT ![p] = reported[p] \cup ToSet(uids)]
    BY <2>1
  <2> QED BY <2>1, <2>3, <2>4, TableChanges
<1>4. ASSUME NEW p \in Ports, NEW uid \in reported[p], NEW f \in Faults, RemoveDevice(p, uid, f)
      PROVE  TablesInv'
  <2>1. /\ Suffer(f) /\ tod' = [tod EXCEPT ![p] = RemoveTodUid(tod[p], uid)]
        /\ reported' = [reported EXCEPT ![p] = @ \ {uid}]
    BY <1>4 DEF RemoveDevice, Announce
  <2>2. faults' \in Nat /\ faults \in Nat /\ faults' >= faults
    BY <2>1, OneFault DEF TablesInv
  <2>3. PortOK(RemoveTodUid(tod[p], uid), reported[p] \ {uid}, p, faults)
    BY <2>2, PortRemoves DEF TablesInv
  <2>4. PortOK(RemoveTodUid(tod[p], uid), reported[p] \ {uid}, p, faults')
    BY <2>2, <2>3, PortKept
  <2>5. reported' = [reported EXCEPT ![p] = reported[p] \ {uid}]
    BY <2>1
  <2> QED BY <2>1, <2>4, <2>5, TableChanges
<1>5. CASE \E p \in Ports : \E f \in Faults : SendTodData(p, f)
  BY <1>5, TablesKept DEF SendTodData
<1>6. CASE UNCHANGED vars
  BY <1>6 DEF vars, TablesInv, PortOK
<1> QED BY <1>1, <1>2, <1>3, <1>4, <1>5, <1>6 DEF Next

(* A table stays inside its allocation and the requesters inside their     *)
(* array: what tod.c grows and remember_tod_requester checks for.          *)
THEOREM TablesInBounds == Spec => []TypeOK
<1>1. TablesInv /\ AskersInv => TypeOK
  BY DEF TablesInv, AskersInv, TypeOK, PortOK, TableOK, ListOK
<1> QED BY <1>1, TablesInit, TablesStep, AskersInit, AskersStep, PTL DEF Spec

(* A table holds what the application reported, each device once; a failed *)
(* allocation in add_tod_uid loses one device and not the ones behind it.      *)
THEOREM TablesHoldReports == Spec => []TableIsReported
<1>1. TablesInv => TableIsReported
  BY DEF TablesInv, TableIsReported, PortOK, TableOK
<1> QED BY <1>1, TablesInit, TablesStep, PTL DEF Spec

-----------------------------------------------------------------------------
(* The datagrams of a table.                                               *)

LEMMA Multiples ==
  ASSUME NEW b \in Nat, NEW c \in Nat
  PROVE  /\ MaxUidCount \in Nat /\ MaxUidCount >= 1
         /\ b * MaxUidCount \in Nat /\ (b + 1) * MaxUidCount = b * MaxUidCount + MaxUidCount
         /\ b <= c => b * MaxUidCount <= c * MaxUidCount
         /\ b < c => b * MaxUidCount + MaxUidCount <= c * MaxUidCount
<1>1. MaxUidCount \in Nat /\ MaxUidCount >= 1
  BY SizeAssumption
<1>2. ASSUME NEW x \in Nat, NEW y \in Nat, x <= y
      PROVE  x * MaxUidCount <= y * MaxUidCount
  <2>1. y - x \in Nat /\ (y - x) * MaxUidCount >= 0
    BY <1>1, <1>2
  <2>2. (y - x) * MaxUidCount = y * MaxUidCount - x * MaxUidCount
    BY <1>1
  <2> QED BY <1>1, <2>1, <2>2
<1>3. b * MaxUidCount \in Nat /\ (b + 1) * MaxUidCount = b * MaxUidCount + MaxUidCount
  BY <1>1
<1>4. b < c => (b + 1) * MaxUidCount <= c * MaxUidCount
  BY <1>2
<1> QED BY <1>1, <1>2, <1>3, <1>4

(* A block holds the devices at its places of the table.                   *)
LEMMA BlockIs ==
  ASSUME NEW U, NEW t, TableOK(t, U), NEW b \in BlockNumbers(t)
  PROVE  /\ b \in Nat
         /\ Len(Block(t, b)) = Lower(MaxUidCount, Len(t.data) - b * MaxUidCount)
         /\ \A u \in ToSet(Block(t, b)) : \E i \in 1 .. MaxUidCount :
              b * MaxUidCount + i \in 1 .. Len(t.data) /\ u = t.data[b * MaxUidCount + i]
<1> DEFINE M == MaxUidCount
           n == Len(t.data)
           lo == b * MaxUidCount
           hi == Lower(n, (b + 1) * MaxUidCount)
<1>1. t.data \in Seq(U) /\ n \in Nat /\ \A i \in 1 .. n : t.data[i] \in U
  <2>1. t.data \in Seq(U)
    BY DEF TableOK
  <2> QED BY <2>1
<1>2. b \in 0 .. n /\ (b = 0 \/ lo < n)
  BY DEF BlockNumbers
<1>3. M \in Nat /\ M >= 1 /\ lo \in Nat /\ (b + 1) * MaxUidCount = lo + M /\ (b = 0 => lo = 0)
  BY <1>1, <1>2, Multiples
<1> HIDE DEF lo, M, n
<1>4. hi = Lower(n, lo + M)
  BY <1>3 DEF lo
<1>5. hi \in Nat /\ hi <= n /\ hi <= lo + M /\ (hi = n \/ hi = lo + M) /\ lo <= n
  BY <1>1, <1>2, <1>3, <1>4 DEF Lower
<1> HIDE DEF hi
<1>6. Block(t, b) = SubSeq(t.data, lo + 1, hi)
  BY DEF Block, lo, hi, n
<1>7. \A i \in lo + 1 .. hi : t.data[i] \in U
  BY <1>1, <1>3, <1>5
<1> DEFINE s == SubSeq(t.data, lo + 1, hi)
<1>8. /\ s \in Seq(U) /\ Len(s) = (IF lo + 1 <= hi THEN hi - (lo + 1) + 1 ELSE 0)
      /\ \A i \in 1 .. hi - (lo + 1) + 1 : s[i] = t.data[lo + 1 + i - 1]
  BY <1>3, <1>5, <1>7, SubSeqProperties
<1> HIDE DEF s
<1>9. Len(s) = Lower(M, n - lo) /\ Len(s) \in Nat /\ (lo + 1 <= hi => Len(s) = hi - lo)
  BY <1>1, <1>3, <1>5, <1>8 DEF Lower
<1>10. ASSUME NEW u \in ToSet(s)
       PROVE  \E i \in 1 .. M : lo + i \in 1 .. n /\ u = t.data[lo + i]
  <2>1. PICK i \in 1 .. Len(s) : u = s[i]
    BY <1>8 DEF ToSet
  <2>2. lo + 1 <= hi /\ i \in 1 .. hi - lo
    BY <2>1, <1>3, <1>5, <1>8, <1>9
  <2>3. i \in 1 .. hi - (lo + 1) + 1 /\ lo + 1 + i - 1 = lo + i
    BY <2>2, <1>3, <1>5
  <2>4. i \in 1 .. M /\ lo + i \in 1 .. n
    BY <2>2, <1>1, <1>3, <1>5
  <2>5. u = t.data[lo + i]
    BY <2>1, <2>3, <1>8
  <2> QED BY <2>4, <2>5
<1>11. b \in Nat
  BY <1>1, <1>2
<1>12. Block(t, b) = s
  BY <1>6 DEF s
<1> QED BY <1>9, <1>10, <1>11, <1>12 DEF M, n, lo

LEMMA BlocksDisjoint ==
  ASSUME NEW U, NEW t, TableOK(t, U), NEW b \in BlockNumbers(t), NEW c \in BlockNumbers(t),
         ToSet(Block(t, b)) \cap ToSet(Block(t, c)) # {}
  PROVE  b = c
<1> DEFINE M == MaxUidCount
           x == b * MaxUidCount
           y == c * MaxUidCount
<1>1. PICK u : u \in ToSet(Block(t, b)) /\ u \in ToSet(Block(t, c))
  OBVIOUS
<1>2. PICK i \in 1 .. M : x + i \in 1 .. Len(t.data) /\ u = t.data[x + i]
  BY <1>1, BlockIs
<1>3. PICK j \in 1 .. M : y + j \in 1 .. Len(t.data) /\ u = t.data[y + j]
  BY <1>1, BlockIs
<1>4. IsInjective(t.data) /\ DOMAIN t.data = 1 .. Len(t.data)
  BY DEF TableOK
<1>5. x + i = y + j
  BY <1>2, <1>3, <1>4 DEF IsInjective
<1>6. b \in Nat /\ c \in Nat
  BY BlockIs
<1>7. /\ M \in Nat /\ x \in Nat /\ y \in Nat
      /\ b < c => x + M <= y
      /\ c < b => y + M <= x
  BY <1>6, Multiples
<1> HIDE DEF x, y, M
<1> QED BY <1>5, <1>6, <1>7

(* A received table is a beginning of the one that was sent.               *)
NoHole(v) ==
  /\ \A b \in DOMAIN v.blocks :
       /\ 0 .. b \subseteq DOMAIN v.blocks
       /\ Len(v.blocks[b]) = Lower(MaxUidCount, v.total - b * MaxUidCount)
  /\ \A b, c \in DOMAIN v.blocks :
       ToSet(v.blocks[b]) \cap ToSet(v.blocks[c]) # {} => b = c

LEMMA SentIsBeginning ==
  ASSUME NEW U, NEW t, TableOK(t, U), NEW refused, NEW b \in BlocksSent(t, refused)
  PROVE  0 .. b \subseteq BlocksSent(t, refused)
<1>1. b \in BlockNumbers(t) /\ refused \cap 0 .. b = {}
  BY DEF BlocksSent
<1>2. Len(t.data) \in Nat /\ b \in 0 .. Len(t.data) /\ (b = 0 \/ b * MaxUidCount < Len(t.data))
  BY <1>1 DEF BlockNumbers, TableOK
<1> SUFFICES ASSUME NEW c \in 0 .. b
             PROVE  c \in BlocksSent(t, refused)
  OBVIOUS
<1>3. b \in Nat /\ c \in Nat /\ c <= b /\ c \in 0 .. Len(t.data) /\ 0 .. c \subseteq 0 .. b
  BY <1>2
<1>4. b * MaxUidCount \in Nat /\ c * MaxUidCount \in Nat /\ c * MaxUidCount <= b * MaxUidCount
  BY <1>3, Multiples
<1>5. c = 0 \/ c * MaxUidCount < Len(t.data)
  BY <1>2, <1>3, <1>4
<1>6. c \in BlockNumbers(t)
  BY <1>3, <1>5 DEF BlockNumbers
<1> QED BY <1>1, <1>3, <1>6 DEF BlocksSent

LEMMA ReceivedHasNoHole ==
  ASSUME NEW U, NEW t, TableOK(t, U), NEW refused, NEW old, NoHole(old)
  PROVE  NoHole(Received(old, t, refused))
<1> DEFINE sent == BlocksSent(t, refused)
           v == Received(old, t, refused)
<1>1. CASE sent = {}
  BY <1>1 DEF Received
<1>2. CASE sent # {}
  <2>1. /\ v.total = Len(t.data) /\ DOMAIN v.blocks = sent
        /\ \A b \in sent : v.blocks[b] = Block(t, b)
    BY <1>2 DEF Received
  <2>2. sent \subseteq BlockNumbers(t)
    BY DEF BlocksSent
  <2>3. \A b \in sent : /\ 0 .. b \subseteq sent
                        /\ Len(Block(t, b)) = Lower(MaxUidCount, Len(t.data) - b * MaxUidCount)
    BY <2>2, SentIsBeginning, BlockIs
  <2>4. \A b, c \in sent : ToSet(Block(t, b)) \cap ToSet(Block(t, c)) # {} => b = c
    BY <2>2, BlocksDisjoint
  <2> HIDE DEF v, sent
  <2>5. NoHole(v)
    BY <2>1, <2>3, <2>4 DEF NoHole
  <2> QED BY <2>5 DEF v
<1> QED BY <1>1, <1>2

ViewInv == \A h \in Hosts, p \in Ports : NoHole(view[h][p])

LEMMA ViewInit == Init => ViewInv
<1>1. DOMAIN Untold.blocks = {}
  BY DEF Untold
<1>2. NoHole(Untold)
  BY <1>1 DEF NoHole
<1> QED BY <1>2 DEF Init, ViewInv

LEMMA ViewsSent ==
  ASSUME ViewInv, TablesInv', NEW told, NEW f, view' = ViewAfter(told, tod', f)
  PROVE  ViewInv'
<1> SUFFICES ASSUME NEW h \in Hosts, NEW p \in Ports
             PROVE  NoHole(view'[h][p])
  BY DEF ViewInv
<1>1. NoHole(view[h][p]) /\ TableOK(tod'[p], UidsAt[p])
  BY DEF ViewInv, TablesInv, PortOK
<1>2. CASE h \in told[p]
  <2>1. view'[h][p] = Received(view[h][p], tod'[p], RefusedBlocks(f, h, p))
    BY <1>2 DEF ViewAfter
  <2> QED BY <1>1, <2>1, ReceivedHasNoHole
<1>3. CASE h \notin told[p]
  BY <1>1, <1>3, OthersUntouched
<1> QED BY <1>2, <1>3

LEMMA EveryStepSends ==
  ASSUME [Next]_vars
  PROVE  \/ \E told : \E f \in Faults : view' = ViewAfter(told, tod', f)
         \/ UNCHANGED view
<1>1. CASE \E h \in Hosts, asked \in SUBSET Addresses, f \in Faults : HandleTodRequest(h, asked, f)
  BY <1>1 DEF HandleTodRequest
<1>2. CASE \E h \in Hosts, a \in Addresses, cmd \in Commands : HandleTodControl(h, a, cmd)
  <2>1. PICK h \in Hosts, a \in Addresses, cmd \in Commands : HandleTodControl(h, a, cmd)
    BY <1>2
  <2> DEFINE matching == {q \in Ports : AddressOf[q] = a}
  <2>2. PICK found \in [matching -> AllLists], f \in Faults :
          LET tables == [q \in Ports |-> IF q \in matching
                                          THEN TodAfter(cmd, q, found[q], f.lost) ELSE tod[q]]
              known == Remembered(h)
              answered == Answered(h, matching, tables, f)
              toldOf(q) == (IF q \in answered THEN {h} ELSE {})
                           \cup (IF q \in matching /\ found[q] # <<>> THEN ToldOfChanges(known, h)
                                 ELSE {})
          IN /\ tod' = tables
             /\ view' = ViewAfter([q \in Ports |-> toldOf(q)], tables, f)
    BY <2>1 DEF HandleTodControl
  <2> DEFINE told == [q \in Ports |->
                        (IF q \in Answered(h, matching, tod', f) THEN {h} ELSE {})
                        \cup (IF q \in matching /\ found[q] # <<>>
                              THEN ToldOfChanges(Remembered(h), h) ELSE {})]
  <2>3. view' = ViewAfter(told, tod', f)
    BY <2>2
  <2> QED BY <2>3
<1>3. CASE \E p \in Ports : \E uids \in Lists(UidsAt[p] \ reported[p]), f \in Faults :
             AddDevices(p, uids, f)
  BY <1>3 DEF AddDevices, Announce
<1>4. CASE \E p \in Ports : \E uid \in reported[p], f \in Faults : RemoveDevice(p, uid, f)
  BY <1>4 DEF RemoveDevice, Announce
<1>5. CASE \E p \in Ports : \E f \in Faults : SendTodData(p, f)
  BY <1>5 DEF SendTodData
<1>6. CASE UNCHANGED vars
  BY <1>6 DEF vars
<1> QED BY <1>1, <1>2, <1>3, <1>4, <1>5, <1>6 DEF Next

LEMMA ViewStep == ViewInv /\ TablesInv' /\ [Next]_vars => ViewInv'
<1> SUFFICES ASSUME ViewInv, TablesInv', [Next]_vars PROVE ViewInv'
  OBVIOUS
<1>1. CASE \E told : \E f \in Faults : view' = ViewAfter(told, tod', f)
  BY <1>1, ViewsSent
<1>2. CASE UNCHANGED view
  BY <1>2 DEF ViewInv
<1> QED BY <1>1, <1>2, EveryStepSends

(* Whatever block of ArtTodData is refused, what a controller was sent of  *)
(* a table is its beginning (ret = ret || send in artnet_tx_tod_data).     *)
THEOREM ViewsAreBeginnings == Spec => []ViewHasNoHole
<1>1. ViewInv => ViewHasNoHole
  BY DEF ViewInv, ViewHasNoHole, NoHole
<1>2. Init => TablesInv /\ ViewInv
  BY TablesInit, ViewInit
<1>3. TablesInv /\ ViewInv /\ [Next]_vars => (TablesInv /\ ViewInv)'
  BY TablesStep, ViewStep
<1> QED BY <1>1, <1>2, <1>3, PTL DEF Spec

-----------------------------------------------------------------------------
(* The news of a change.                                                   *)

(* Without a refused block the whole table arrives.                        *)
LEMMA WholeTableArrives ==
  ASSUME NEW t, Len(t.data) \in Nat, NEW old
  PROVE  IsCurrent(Received(old, t, {}), t)
<1>1. BlocksSent(t, {}) = BlockNumbers(t) /\ 0 \in BlockNumbers(t)
  BY DEF BlocksSent, BlockNumbers
<1> QED BY <1>1 DEF Received, IsCurrent

LEMMA Gap ==
  ASSUME NEW a \in Nat, NEW b \in Nat, b >= a
  PROVE  b - a \in Nat /\ (b >= a + 1 => b - a >= 1)
OBVIOUS

LEMMA NewsArrive ==
  ASSUME TablesInv, TablesInv', NEW f \in Faults, Suffer(f), NEW told,
         view' = ViewAfter(told, tod', f), NEW p \in Ports,
         ToSet(requesters') \subseteq Hosts, ToSet(requesters') \subseteq told[p]
  PROVE  Cardinality({h \in ToSet(requesters') : ~IsCurrent(view'[h][p], tod'[p])})
           <= faults' - faults
<1> DEFINE Behind == {h \in ToSet(requesters') : ~IsCurrent(view'[h][p], tod'[p])}
<1>1. /\ faults \in Nat /\ faults' \in Nat /\ faults' >= faults
      /\ \A d, e \in f.refused : d = e
      /\ f.refused # {} => faults' >= faults + 1
  BY OneFault DEF TablesInv
<1>2. Len(tod'[p].data) \in Nat
  BY DEF TablesInv, PortOK, TableOK
<1>3. ASSUME NEW h \in Behind
      PROVE  \E b : <<h, p, b>> \in f.refused
  <2>1. h \in Hosts /\ h \in told[p] /\ ~IsCurrent(view'[h][p], tod'[p])
    OBVIOUS
  <2>2. view'[h][p] = Received(view[h][p], tod'[p], RefusedBlocks(f, h, p))
    BY <2>1 DEF ViewAfter
  <2>3. RefusedBlocks(f, h, p) # {}
    BY <2>1, <2>2, <1>2, WholeTableArrives
  <2> QED BY <2>3 DEF RefusedBlocks
<1> HIDE DEF Behind
<1> DEFINE spent == faults' - faults
<1>4. spent \in Nat /\ (f.refused # {} => spent >= 1)
  BY <1>1, Gap
<1> HIDE DEF spent
<1>5. Cardinality(Behind) <= spent
  <2>1. CASE Behind = {}
    <3>1. Cardinality(Behind) = 0
      BY <2>1, FS_EmptySet
    <3> QED BY <3>1, <1>4
  <2>2. CASE Behind # {}
    <3>1. PICK h : h \in Behind
      BY <2>2
    <3>2. \A g \in Behind : g = h
      BY <3>1, <1>3, <1>1
    <3>3. Behind = {h}
      BY <3>1, <3>2
    <3>4. Cardinality(Behind) = 1
      BY <3>3, FS_Singleton
    <3>5. spent >= 1
      BY <3>1, <1>3, <1>4
    <3> QED BY <3>4, <3>5, <1>4
  <2> QED BY <2>1, <2>2
<1> QED BY <1>5 DEF Behind, spent

LEMMA ToldOrNobody ==
  ASSUME NEW list, NEW addr
  PROVE  ToSet(list) \subseteq ToldOfChanges(list, addr)
BY EmptyList DEF ToldOfChanges

LEMMA AddNone ==
  ASSUME NEW U, NEW t, TableOK(t, U), NEW lost, \A u, v \in lost : u = v
  PROVE  AddAll(t, <<>>, lost) = t
<1> DEFINE none == <<>>
<1>1. none \in Seq(U) /\ ToSet(none) = {} /\ DOMAIN none = {} /\ none = <<>>
  BY EmptyList
<1> HIDE DEF none
<1>2. IsInjective(none)
  BY <1>1 DEF IsInjective
<1>3. ToSet(none) \cap ToSet(t.data) = {}
  BY <1>1
<1>4. AddAll(t, none, lost) = t
  BY <1>1, <1>2, <1>3, AddAllKeeps
<1> QED BY <1>4, <1>1

LEMMA AnnouncedNews ==
  ASSUME TablesInv, TablesInv', AskersInv', NEW q \in Ports, NEW t, NEW f \in Faults,
         Announce(q, t, f), NEW p \in Ports, tod'[p].data # tod[p].data
  PROVE  Cardinality({h \in ToSet(requesters') : ~IsCurrent(view'[h][p], tod'[p])})
           <= faults' - faults
<1> DEFINE told == [r \in Ports |-> IF r = q THEN ToldOfChanges(requesters, todReplyAddr) ELSE {}]
<1>1. /\ tod' = [tod EXCEPT ![q] = t] /\ view' = ViewAfter(told, tod', f) /\ Suffer(f)
      /\ UNCHANGED requesters
  BY DEF Announce
<1>2. p = q
  BY <1>1
<1>3. ToSet(requesters') \subseteq told[p]
  BY <1>1, <1>2, ToldOrNobody
<1>4. ToSet(requesters') \subseteq Hosts
  BY DEF AskersInv, ListOK, ToSet
<1> HIDE DEF told
<1> QED BY <1>1, <1>3, <1>4, NewsArrive

LEMMA ControlNews ==
  ASSUME TablesInv, TablesInv', AskersInv', NEW h, NEW address, NEW cmd,
         HandleTodControl(h, address, cmd), NEW p \in Ports,
         tod'[p].data # tod[p].data, tod'[p].maxLength > 0
  PROVE  Cardinality({g \in ToSet(requesters') : ~IsCurrent(view'[g][p], tod'[p])})
           <= faults' - faults
<1> DEFINE matching == {q \in Ports : AddressOf[q] = address}
<1>1. PICK found \in [matching -> AllLists], f \in Faults :
        LET tables == [q \in Ports |-> IF q \in matching THEN TodAfter(cmd, q, found[q], f.lost)
                                       ELSE tod[q]]
            known == Remembered(h)
            answered == Answered(h, matching, tables, f)
            toldOf(q) == (IF q \in answered THEN {h} ELSE {})
                         \cup (IF q \in matching /\ found[q] # <<>> THEN ToldOfChanges(known, h)
                               ELSE {})
        IN /\ tod' = tables
           /\ requesters' = known
           /\ view' = ViewAfter([q \in Ports |-> toldOf(q)], tables, f)
           /\ Suffer(f)
  BY DEF HandleTodControl
<1> DEFINE told == [q \in Ports |->
                      (IF q \in Answered(h, matching, tod', f) THEN {h} ELSE {})
                      \cup (IF q \in matching /\ found[q] # <<>>
                            THEN ToldOfChanges(requesters', h) ELSE {})]
<1>2. view' = ViewAfter(told, tod', f) /\ Suffer(f)
  BY <1>1
<1>3. tod'[p] = IF p \in matching THEN TodAfter(cmd, p, found[p], f.lost) ELSE tod[p]
  BY <1>1
<1>4. p \in matching
  BY <1>3
<1>5. found[p] # <<>>
  <2> SUFFICES ASSUME found[p] = <<>> PROVE FALSE
    OBVIOUS
  <2> DEFINE t == IF cmd = "flush" THEN Flushed ELSE tod[p]
  <2>1. TableOK(t, UidsAt[p])
    BY PortFlushed DEF TablesInv, PortOK
  <2>2. \A u, v \in f.lost : u = v
    BY <1>2, OneFault DEF TablesInv
  <2>4. TodAfter(cmd, p, <<>>, f.lost) = AddAll(t, <<>>, f.lost)
    BY DEF TodAfter
  <2> HIDE DEF t
  <2>5. AddAll(t, <<>>, f.lost) = t
    BY <2>1, <2>2, AddNone
  <2>6. tod'[p] = t
    BY <1>3, <1>4, <2>4, <2>5
  <2> QED BY <2>6 DEF t, Flushed
<1>6. ToSet(requesters') \subseteq told[p]
  BY <1>4, <1>5, ToldOrNobody
<1>7. ToSet(requesters') \subseteq Hosts
  BY DEF AskersInv, ListOK, ToSet
<1> HIDE DEF told
<1> QED BY <1>2, <1>6, <1>7, NewsArrive

LEMMA NewsStep ==
  ASSUME TablesInv, TablesInv', AskersInv', [Next]_vars,
         NEW p \in Ports, tod'[p].data # tod[p].data, tod'[p].maxLength > 0
  PROVE  Cardinality({h \in ToSet(requesters') : ~IsCurrent(view'[h][p], tod'[p])})
           <= faults' - faults
<1>1. CASE \E h \in Hosts, a \in Addresses, cmd \in Commands : HandleTodControl(h, a, cmd)
  BY <1>1, ControlNews
<1>2. CASE \E q \in Ports : \E uids \in Lists(UidsAt[q] \ reported[q]), f \in Faults :
             AddDevices(q, uids, f)
  BY <1>2, AnnouncedNews DEF AddDevices
<1>3. CASE \E q \in Ports : \E uid \in reported[q], f \in Faults : RemoveDevice(q, uid, f)
  BY <1>3, AnnouncedNews DEF RemoveDevice
<1>4. CASE UNCHANGED tod
  BY <1>4
<1> QED BY <1>1, <1>2, <1>3, <1>4 DEF Next, HandleTodRequest, SendTodData, vars

(* A device that appears or leaves is told to every controller the node    *)
(* remembers, within the call that reports it; a refused datagram costs    *)
(* one controller its news (artnet_tx_tod_data_to_requesters).             *)
THEOREM ChangesReachRequesters == Spec => ChangesAnnounced
<1>1. Init => TablesInv /\ AskersInv
  BY TablesInit, AskersInit
<1>2. TablesInv /\ AskersInv /\ [Next]_vars => (TablesInv /\ AskersInv)'
  BY TablesStep, AskersStep
<1> DEFINE Told == \A p \in Ports : tod'[p].data # tod[p].data /\ tod'[p].maxLength > 0 =>
                     Cardinality({h \in ToSet(requesters') : ~IsCurrent(view'[h][p], tod'[p])})
                       <= faults' - faults
<1>3. TablesInv /\ TablesInv' /\ AskersInv' /\ [Next]_vars => Told
  BY NewsStep
<1>4. ChangesAnnounced <=> [][Told]_vars
  BY DEF ChangesAnnounced
<1> HIDE DEF Told
<1> QED BY <1>1, <1>2, <1>3, <1>4, PTL DEF Spec
=============================================================================
