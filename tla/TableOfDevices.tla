---------------------------- MODULE TableOfDevices ----------------------------
(***************************************************************************)
(* The tables of RDM devices of a node's output ports: the growing array   *)
(* of UIDs of tod.c, the controllers that asked for it, and the ArtTodData *)
(* datagrams that tell them.                                               *)
(*                                                                         *)
(* Every operation runs to its end before the next one starts.  The        *)
(* application reports what it finds on the line of a port, drops what     *)
(* has left, and may search again inside the callback of ArtTodControl or  *)
(* later.  In one call at most one thing fails: the network refuses one    *)
(* block of a table to one controller, or one allocation returns NULL.     *)
(***************************************************************************)
EXTENDS Naturals, FiniteSets, Sequences, SequencesExt

CONSTANTS
  Ports,         (* the output ports, numbers: handlers visit them in order *)
  AddressOf,     (* port_addr of each port                                *)
  UidsAt,        (* the devices that can be on the line of each port      *)
  Hosts,         (* IP addresses of the controllers                       *)
  NoHost,        (* the zero IP address                                   *)
  InitialSize,   (* ARTNET_TOD_INITIAL_SIZE                               *)
  Increment,     (* ARTNET_TOD_INCREMENT                                  *)
  MaxUidCount,   (* ARTNET_MAX_UID_COUNT, the UIDs in a datagram          *)
  MaxRequesters, (* the size of tod_requester_ips                         *)
  MaxFaults      (* bound: how many calls meet a fault                    *)

ASSUME PortAssumption == Ports \subseteq Nat /\ IsFiniteSet(Ports)
ASSUME HostAssumption == NoHost \notin Hosts
ASSUME SizeAssumption ==
  /\ {InitialSize, Increment, MaxUidCount, MaxRequesters} \subseteq Nat \ {0}
  /\ MaxFaults \in Nat

Uids == UNION {UidsAt[p] : p \in Ports}
ASSUME DeviceAssumption == IsFiniteSet(Uids)

VARIABLES
  tod,          (* port_tod of each port; maxLength 0 when data is NULL   *)
  requesters,   (* tod_requester_ips                                      *)
  todReplyAddr, (* tod_reply_addr                                         *)
  view,         (* the last table each controller was sent of each port   *)
  reported,     (* what the application holds to be on each port          *)
  faults        (* how many calls met a fault                             *)

vars == <<tod, requesters, todReplyAddr, view, reported, faults>>

Flushed == [data |-> <<>>, maxLength |-> 0]
Untold == [total |-> 0, blocks |-> <<>>]

-----------------------------------------------------------------------------
(* The table.                                                              *)

(* Mutant: off by one.                                                     *)
MutIsFull(t) == Len(t.data) = t.maxLength + 1
IsFull(t) == Len(t.data) = t.maxLength
Grown(t) == IF t.maxLength = 0 THEN InitialSize ELSE t.maxLength + Increment

(* A UID goes to the end; without memory for it the table stays as it is.  *)
AddTodUid(t, entry) ==
  IF IsFull(t) /\ ~entry.memory THEN t
  ELSE [data |-> Append(t.data, entry.uid),
        maxLength |-> IF IsFull(t) THEN Grown(t) ELSE t.maxLength]

(* Mutant: the last UID is not moved.                                      *)
MutRemoveTodUid(t, uid) ==
  IF uid \notin ToSet(t.data) THEN t ELSE [t EXCEPT !.data = Front(@)]

(* The last UID moves to the place of the removed one.                     *)
RemoveTodUid(t, uid) ==
  IF uid \notin ToSet(t.data) THEN t
  ELSE LET i == SelectInSeq(t.data, LAMBDA u : u = uid)
       IN [t EXCEPT !.data = Front([@ EXCEPT ![i] = Last(t.data)])]

(* UIDs added one after another; a UID of lost meets a failed allocation   *)
(* if it needs one.                                                        *)
AddAll(t, uids, lost) ==
  FoldLeft(AddTodUid, t, [i \in DOMAIN uids |-> [uid |-> uids[i], memory |-> uids[i] \notin lost]])

(* The lists an application may report of a set of devices.                *)
AllLists == UNION {SetToSeqs(some) : some \in SUBSET Uids}
Lists(devices) == {list \in AllLists : ToSet(list) \subseteq devices}

-----------------------------------------------------------------------------
(* Sending a table.                                                        *)

Lower(a, b) == IF a < b THEN a ELSE b

(* The blocks of a table; an empty table has one empty block.              *)
BlockNumbers(t) == {b \in 0..Len(t.data) : b = 0 \/ b * MaxUidCount < Len(t.data)}
Block(t, b) ==
  SubSeq(t.data, b * MaxUidCount + 1, Lower(Len(t.data), (b + 1) * MaxUidCount))

(* Mutant: ret |= send.                                                    *)
MutBlocksSent(t, refused) == BlockNumbers(t) \ refused

(* ret = ret || send: nothing is sent after a block the network refuses.   *)
BlocksSent(t, refused) == {b \in BlockNumbers(t) : refused \cap 0..b = {}}

(* What a controller holds of a port after the datagrams of table t.  The  *)
(* first block starts a new table.                                         *)
Received(old, t, refused) ==
  LET sent == BlocksSent(t, refused)
  IN IF sent = {} THEN old
     ELSE [total |-> Len(t.data), blocks |-> [b \in sent |-> Block(t, b)]]

(* What goes wrong in a call: the blocks <<host, port, block>> the network *)
(* refuses and the UIDs that find no memory.                               *)
NoFault == [refused |-> {}, lost |-> {}]
LargestTable == CHOOSE n \in {Cardinality(UidsAt[p]) : p \in Ports} :
                  \A p \in Ports : Cardinality(UidsAt[p]) <= n
Faults == {NoFault}
  \cup (IF faults = MaxFaults THEN {}
        ELSE {[refused |-> {d}, lost |-> {}] : d \in Hosts \X Ports \X (0..LargestTable - 1)}
             \cup {[refused |-> {}, lost |-> {u}] : u \in Uids})
Suffer(f) == faults' = IF f = NoFault THEN faults ELSE faults + 1
RefusedBlocks(f, h, p) == {b \in 0..LargestTable - 1 : <<h, p, b>> \in f.refused}

(* Mutant: only the last one who asked is told.                            *)
MutToldOfChanges(known, replyAddr) == {replyAddr}

(* artnet_tx_tod_data_to_requesters: who is told of a change.              *)
ToldOfChanges(known, replyAddr) == IF known = <<>> THEN {replyAddr} ELSE ToSet(known)

(* The views after the tables of told[p] were sent of each port p.         *)
ViewAfter(told, tables, f) ==
  [h \in Hosts |-> [p \in Ports |->
     IF h \in told[p] THEN Received(view[h][p], tables[p], RefusedBlocks(f, h, p))
     ELSE view[h][p]]]

-----------------------------------------------------------------------------
(* The packets of the controllers.                                         *)

(* Mutant: the list is not searched.                                       *)
MutRemembered(h) ==
  IF Len(requesters) = MaxRequesters THEN requesters ELSE Append(requesters, h)

(* remember_tod_requester: once, and only while there is room.             *)
Remembered(h) ==
  IF h \in ToSet(requesters) \/ Len(requesters) = MaxRequesters THEN requesters
  ELSE Append(requesters, h)

(* ArtTodRequest lists the addresses it asks for.  A refused table of one  *)
(* port does not keep the next one from being sent.                        *)
HandleTodRequest(h, addresses, f) ==
  /\ todReplyAddr' = h
  /\ requesters' = Remembered(h)
  /\ view' = ViewAfter([p \in Ports |-> IF AddressOf[p] \in addresses THEN {h} ELSE {}], tod, f)
  /\ Suffer(f)
  /\ UNCHANGED <<tod, reported>>

(* ArtTodControl.  A flush empties the table; a flush and the start of     *)
(* incremental discovery call the application, which may search the line   *)
(* before it returns: found is what it reports from inside the callback.   *)
Searches(cmd) == cmd \in {"flush", "inc_on"}
Found(cmd, p) ==
  IF ~Searches(cmd) THEN {<<>>}
  ELSE Lists(UidsAt[p] \ IF cmd = "flush" THEN {} ELSE reported[p])
TodAfter(cmd, p, found, lost) ==
  AddAll(IF cmd = "flush" THEN Flushed ELSE tod[p], found, lost)

(* The matching ports whose table is the answer: a refused one ends them.  *)
Answered(h, matching, tables, f) ==
  {p \in matching : \A q \in matching : q < p =>
     BlocksSent(tables[q], RefusedBlocks(f, h, q)) = BlockNumbers(tables[q])}

HandleTodControl(h, address, cmd) ==
  LET matching == {p \in Ports : AddressOf[p] = address} IN
  \E found \in {s \in [matching -> AllLists] : \A p \in matching : s[p] \in Found(cmd, p)},
     f \in Faults :
    LET tables == [p \in Ports |-> IF p \in matching THEN TodAfter(cmd, p, found[p], f.lost)
                                   ELSE tod[p]]
        known == Remembered(h)
        answered == Answered(h, matching, tables, f)
        toldOf(p) == (IF p \in answered THEN {h} ELSE {})
                     \cup (IF p \in matching /\ found[p] # <<>> THEN ToldOfChanges(known, h) ELSE {})
    IN /\ tod' = tables
       /\ reported' = [p \in Ports |-> IF p \notin matching THEN reported[p]
                          ELSE ToSet(found[p]) \cup IF cmd = "flush" THEN {} ELSE reported[p]]
       /\ todReplyAddr' = h
       /\ requesters' = known
       /\ view' = ViewAfter([p \in Ports |-> toldOf(p)], tables, f)
       /\ Suffer(f)

-----------------------------------------------------------------------------
(* The calls of the application.                                           *)

(* The table of port p becomes t and everyone who asked is told.           *)
Announce(p, t, f) ==
  /\ tod' = [tod EXCEPT ![p] = t]
  /\ view' = ViewAfter([q \in Ports |-> IF q = p THEN ToldOfChanges(requesters, todReplyAddr) ELSE {}],
                       tod', f)
  /\ Suffer(f)
  /\ UNCHANGED <<requesters, todReplyAddr>>

(* artnet_add_rdm_device and artnet_add_rdm_devices.                       *)
AddDevices(p, uids, f) ==
  /\ reported' = [reported EXCEPT ![p] = @ \cup ToSet(uids)]
  /\ Announce(p, AddAll(tod[p], uids, f.lost), f)

RemoveDevice(p, uid, f) ==
  /\ reported' = [reported EXCEPT ![p] = @ \ {uid}]
  /\ Announce(p, RemoveTodUid(tod[p], uid), f)

(* artnet_send_tod_data goes to the last controller that asked.            *)
SendTodData(p, f) ==
  /\ todReplyAddr # NoHost
  /\ view' = ViewAfter([q \in Ports |-> IF q = p THEN {todReplyAddr} ELSE {}], tod, f)
  /\ Suffer(f)
  /\ UNCHANGED <<tod, requesters, todReplyAddr, reported>>

-----------------------------------------------------------------------------
Addresses == {AddressOf[p] : p \in Ports}
Commands == {"full", "flush", "inc_on"}

Init ==
  /\ tod = [p \in Ports |-> Flushed]
  /\ requesters = <<>>
  /\ todReplyAddr = NoHost
  /\ view = [h \in Hosts |-> [p \in Ports |-> Untold]]
  /\ reported = [p \in Ports |-> {}]
  /\ faults = 0

Next ==
  \/ \E h \in Hosts, asked \in SUBSET Addresses, f \in Faults : HandleTodRequest(h, asked, f)
  \/ \E h \in Hosts, a \in Addresses, cmd \in Commands : HandleTodControl(h, a, cmd)
  \/ \E p \in Ports :
       \/ \E uids \in Lists(UidsAt[p] \ reported[p]), f \in Faults : AddDevices(p, uids, f)
       \/ \E uid \in reported[p], f \in Faults : RemoveDevice(p, uid, f)
       \/ \E f \in Faults : SendTodData(p, f)

Spec == Init /\ [][Next]_vars

-----------------------------------------------------------------------------
(* The properties.                                                         *)

(* TypeOK: the state stays well-typed, the table inside its allocation and *)
(* the list of requesters inside its array.                                *)
TypeOK ==
  /\ \A p \in Ports :
       /\ tod[p].data \in Seq(UidsAt[p])
       /\ tod[p].maxLength \in Nat
       /\ Len(tod[p].data) <= tod[p].maxLength
  /\ requesters \in Seq(Hosts) /\ Len(requesters) <= MaxRequesters
  /\ todReplyAddr \in Hosts \cup {NoHost}
  /\ reported \in [Ports -> SUBSET Uids]
  /\ faults \in 0..MaxFaults

(* TableIsReported: through growth, removal by moving the last UID, and    *)
(* flushes, a table holds what the application reported, each device once; *)
(* a failed allocation loses one device and not the ones behind it.        *)
TableIsReported ==
  \A p \in Ports :
    /\ IsInjective(tod[p].data)
    /\ ToSet(tod[p].data) \subseteq reported[p]
    /\ Cardinality(reported[p]) - Len(tod[p].data) <= faults

(* ViewHasNoHole: whatever block of ArtTodData the network refuses, what a *)
(* controller was sent of a table is its beginning, without a gap, and no  *)
(* device twice: it can tell from the total that the rest is missing.      *)
ViewHasNoHole ==
  \A h \in Hosts, p \in Ports :
    LET v == view[h][p] IN
    /\ \A b \in DOMAIN v.blocks :
         /\ 0..b \subseteq DOMAIN v.blocks
         /\ Len(v.blocks[b]) = Lower(MaxUidCount, v.total - b * MaxUidCount)
    /\ \A b, c \in DOMAIN v.blocks :
         ToSet(v.blocks[b]) \cap ToSet(v.blocks[c]) # {} => b = c

IsCurrent(v, t) ==
  v = [total |-> Len(t.data), blocks |-> [b \in BlockNumbers(t) |-> Block(t, b)]]

(* ChangesAnnounced: a device that appears or leaves is told to every      *)
(* controller the node remembers, within the call that reports it, however *)
(* stale what they held; a refused datagram costs one controller its news. *)
(* A flush (maxLength 0) is answered to the one who asked for it only.     *)
ChangesAnnounced ==
  [][\A p \in Ports : tod'[p].data # tod[p].data /\ tod'[p].maxLength > 0 =>
       Cardinality({h \in ToSet(requesters') : ~IsCurrent(view'[h][p], tod'[p])})
         <= faults' - faults]_vars

(* AskersRemembered: every controller that was told of a table once stays  *)
(* among the requesters, until there is room for no more of them.          *)
AskersRemembered ==
  /\ IsInjective(requesters)
  /\ \A h \in Hosts : (\E p \in Ports : view[h][p] # Untold) =>
       h \in ToSet(requesters) \/ Len(requesters) = MaxRequesters
=============================================================================
