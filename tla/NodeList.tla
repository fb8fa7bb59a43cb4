------------------------------ MODULE NodeList ------------------------------
(***************************************************************************)
(* The list of discovered nodes: a linked list that the thread of          *)
(* artnet_read updates from ArtPollReply packets and prunes, that the same *)
(* thread's application walks with artnet_nl_first and artnet_nl_next and  *)
(* sends ArtDmx by, and that another thread reads with artnet_nl_foreach   *)
(* under a sequence lock.                                                  *)
(*                                                                         *)
(* An entry is a cell of the heap; a node is what identifies an entry, the *)
(* source IP and the first SwOut value, so joined nodes share an IP.  The  *)
(* threads' accesses are sequentially consistent.                          *)
(***************************************************************************)
EXTENDS Integers, Sequences, FiniteSets, SequencesExt

CONSTANTS
  Nodes,          (* (IP, SwOut[0]) of the nodes that answer ArtPoll         *)
  IpOf,           (* the IP of each node                                     *)
  MatchingPorts,  (* how many ports of each node carry the universe we send  *)
  BcastLimit,     (* state.bcast_limit                                       *)
  Cells,          (* the addresses malloc returns                            *)
  Nil,            (* the NULL pointer                                        *)
  Garbage,        (* what uninitialised memory holds when read as an address *)
  NodeTimeout,    (* NODELIST_TIMEOUT_MS, in ticks                           *)
  MallocFails,    (* whether malloc may return NULL                          *)
  Calls,          (* what the application calls: a subset of AllCalls        *)
  SeqWrap         (* UINT32_MAX + 1; bound: no pass of a reader spans more   *)
                  (* than SeqWrap / 2 - 1 writes                             *)

AllCalls == {"artnet_nl_first", "artnet_nl_next", "artnet_send_dmx", "artnet_nl_foreach"}

ASSUME HeapAssumption ==
  /\ Nil \notin Cells /\ IsFiniteSet(Cells) /\ IsFiniteSet(Nodes)
  /\ Cardinality(Nodes) <= Cardinality(Cells)
ASSUME NodeAssumption ==
  /\ DOMAIN IpOf = Nodes /\ \A n \in Nodes : IpOf[n] # Garbage
  /\ MatchingPorts \in [Nodes -> 0 .. 4]
ASSUME BoundAssumption ==
  /\ NodeTimeout \in Nat /\ BcastLimit \in Nat
  /\ SeqWrap \in Nat /\ SeqWrap >= 2 /\ SeqWrap % 2 = 0
  /\ MallocFails \in BOOLEAN /\ Calls \subseteq AllCalls

VARIABLES
  heap,      (* the cells: node, age of last_seen, next, whether allocated  *)
  list,      (* node_list: first, last, current, length                     *)
  nl_seq,    (* state.nl_seq                                                *)
  loop,      (* where the thread of artnet_read is                          *)
  silence,   (* how long ago each node's last ArtPollReply was handled      *)
  sent,      (* addresses the last artnet_send_dmx sent to                  *)
  reader     (* the thread inside artnet_nl_foreach                         *)

vars == <<heap, list, nl_seq, loop, silence, sent, reader>>

Old == NodeTimeout + 1
Older(age) == IF age < Old THEN age + 1 ELSE Old

(* The cells from cell c on, in the order the next pointers give.          *)
Follow(c) ==
  LET cell[k \in 0 .. Cardinality(Cells)] ==
        IF k = 0 THEN c
        ELSE IF cell[k - 1] = Nil THEN Nil ELSE heap[cell[k - 1]].next
      size == Cardinality({k \in DOMAIN cell : cell[k] # Nil})
  IN  [k \in 1 .. size |-> cell[k - 1]]

Entries == Follow(list.first)
NodesOf(cells) == [k \in DOMAIN cells |-> heap[cells[k]].node]
Listed == ToSet(NodesOf(Entries))

-----------------------------------------------------------------------------
(* The thread of artnet_read: ArtPollReply.                                *)

At(place) == loop.at = place
GoTo(place) == loop' = [at |-> place, node |-> Nil, pp |-> Nil]
Untouched == UNCHANGED <<heap, list>>
NotTheApplication == UNCHANGED <<sent, reader>>

InPass == reader.at \in {"first", "copy", "next", "check"}
Bump == nl_seq' = (nl_seq + 1) % SeqWrap

WriteBegin ==
  /\ InPass => (nl_seq + 2) % SeqWrap # reader.seq
  /\ Bump

(* artnet_read returns to the application when nothing is left to receive. *)
NothingReceived ==
  /\ At("recv")
  /\ GoTo("idle")
  /\ Untouched /\ NotTheApplication /\ UNCHANGED <<nl_seq, silence>>

UpdateBegin(n) ==
  /\ At("recv")
  /\ WriteBegin
  /\ loop' = [loop EXCEPT !.at = "update", !.node = n]
  /\ Untouched /\ NotTheApplication /\ UNCHANGED silence

(* Mutant: the tail is not moved to the new entry.                         *)
MutAddEntry(c) ==
  /\ heap' = [d \in Cells |->
       IF d = c THEN [node |-> loop.node, age |-> 0, next |-> Nil, live |-> TRUE]
       ELSE IF d = list.last THEN [heap[d] EXCEPT !.next = c] ELSE heap[d]]
  /\ list' = [list EXCEPT !.first = IF @ = Nil THEN c ELSE @,
                          !.last = IF @ = Nil THEN c ELSE @, !.length = @ + 1]

AddEntry(c) ==
  /\ heap' = [d \in Cells |->
       IF d = c THEN [node |-> loop.node, age |-> 0, next |-> Nil, live |-> TRUE]
       ELSE IF d = list.last THEN [heap[d] EXCEPT !.next = c] ELSE heap[d]]
  /\ list' = [list EXCEPT !.first = IF @ = Nil THEN c ELSE @, !.last = c, !.length = @ + 1]

Refresh(c) ==
  /\ heap' = [heap EXCEPT ![c].age = 0]
  /\ GoTo("updated")
  /\ UNCHANGED list

(* When malloc fails artnet_nl_update returns inside the write section.    *)
NlUpdate ==
  /\ At("update")
  /\ \/ /\ \E c \in ToSet(Entries) : heap[c].node = loop.node /\ Refresh(c)
        /\ silence' = [silence EXCEPT ![loop.node] = 0]
     \/ /\ loop.node \notin Listed
        /\ \E c \in {d \in Cells : ~heap[d].live} : AddEntry(c)
        /\ silence' = [silence EXCEPT ![loop.node] = 0]
        /\ GoTo("updated")
     \/ /\ loop.node \notin Listed
        /\ MallocFails
        /\ GoTo("check")
        /\ Untouched /\ UNCHANGED silence
  /\ NotTheApplication /\ UNCHANGED nl_seq

WriteEnd ==
  /\ \/ At("updated") /\ GoTo("check")
     \/ At("expired") /\ GoTo("recv")
  /\ Bump
  /\ Untouched /\ NotTheApplication /\ UNCHANGED silence

-----------------------------------------------------------------------------
(* check_timeouts: prune the entries not heard of for NodeTimeout.         *)

(* The application calls artnet_read, or artnet_read goes round its loop.  *)
ExpireBegin ==
  /\ At("idle") \/ At("check")
  /\ WriteBegin
  /\ GoTo("expire")
  /\ Untouched /\ NotTheApplication /\ UNCHANGED silence

(* loop.pp is the cell whose next field pp points to, Nil for node_list.   *)
Cursor == IF loop.pp = Nil THEN list.first ELSE heap[loop.pp].next

FreeCell == [node |-> Nil, age |-> 0, next |-> Nil, live |-> FALSE]

(* A freed cell keeps its node and next; only another thread looks at them. *)
Freed(c) ==
  IF "artnet_nl_foreach" \in Calls THEN [heap[c] EXCEPT !.live = FALSE, !.age = 0]
  ELSE FreeCell

Unlink(dead) ==
  /\ heap' = [c \in Cells |->
       IF c = dead THEN Freed(c)
       ELSE IF c = loop.pp THEN [heap[c] EXCEPT !.next = heap[dead].next] ELSE heap[c]]
  /\ list' = [list EXCEPT !.first = IF loop.pp = Nil THEN heap[dead].next ELSE @,
                          !.length = @ - 1]

(* Mutants: an entry is dropped one tick early; never.                     *)
MutStale(c) == heap[c].age >= NodeTimeout
MutNeverStale(c) == heap[c].age > Old

Stale(c) == heap[c].age > NodeTimeout

ExpireEntry ==
  /\ At("expire")
  /\ Cursor # Nil
  /\ \/ Stale(Cursor) /\ Unlink(Cursor) /\ UNCHANGED loop
     \/ ~Stale(Cursor) /\ loop' = [loop EXCEPT !.pp = Cursor] /\ Untouched
  /\ NotTheApplication /\ UNCHANGED <<nl_seq, silence>>

Tip == IF Entries = <<>> THEN Nil ELSE Entries[Len(Entries)]

(* Mutant: the tail is not updated.                                        *)
MutKeepLast == [list EXCEPT !.current = list.first]
Settled == [list EXCEPT !.last = Tip, !.current = list.first]

ExpireDone ==
  /\ At("expire")
  /\ Cursor = Nil
  /\ list' = Settled
  /\ GoTo("expired")
  /\ NotTheApplication /\ UNCHANGED <<heap, nl_seq, silence>>

Tick ==
  /\ At("idle") \/ At("recv")
  /\ heap' = [c \in Cells |-> IF heap[c].live THEN [heap[c] EXCEPT !.age = Older(@)]
                                              ELSE heap[c]]
  /\ silence' = [n \in Nodes |-> Older(silence[n])]
  /\ NotTheApplication /\ UNCHANGED <<list, nl_seq, loop>>

-----------------------------------------------------------------------------
(* The application in the same thread.                                     *)

NlFirst ==
  /\ "artnet_nl_first" \in Calls
  /\ At("idle")
  /\ list' = [list EXCEPT !.current = list.first]
  /\ UNCHANGED <<heap, nl_seq, loop, silence, sent, reader>>

NlNext ==
  /\ "artnet_nl_next" \in Calls
  /\ At("idle")
  /\ list.current # Nil
  /\ list' = [list EXCEPT !.current = heap[@].next]
  /\ UNCHANGED <<heap, nl_seq, loop, silence, sent, reader>>

SendDmx ==
  /\ "artnet_send_dmx" \in Calls
  /\ At("idle")
  /\ GoTo("send")
  /\ UNCHANGED <<heap, list, nl_seq, silence, sent, reader>>

(* find_nodes_from_uni goes along the list; it stores the address of a     *)
(* matching node once, while there is room, and counts its matching ports. *)
Match(found, n, limit) ==
  [ips |-> IF MatchingPorts[n] > 0 /\ Len(found.ips) < limit THEN Append(found.ips, IpOf[n])
                                                             ELSE found.ips,
   count |-> found.count + MatchingPorts[n]]

FindNodes(limit) ==
  LET nodes == NodesOf(Entries)
      found[k \in 0 .. Len(nodes)] ==
        IF k = 0 THEN [ips |-> <<>>, count |-> 0] ELSE Match(found[k - 1], nodes[k], limit)
  IN  found[Len(nodes)]

Limit == IF BcastLimit > 0 THEN BcastLimit
         ELSE IF list.length > 0 THEN list.length ELSE 1

LowerOf(a, b) == IF a < b THEN a ELSE b

(* Mutant: the array is sent to its end, not as far as it was filled.      *)
MutTargets ==
  [i \in 1 .. Limit |-> IF i <= Len(FindNodes(Limit).ips) THEN FindNodes(Limit).ips[i] ELSE Garbage]

(* artnet_send_dmx sends to as many addresses of the array as it was told. *)
(* The seqlock retry never passes while nl_seq is odd.                     *)
Targets ==
  LET found == FindNodes(Limit)
  IN  [i \in 1 .. (IF BcastLimit > 0 THEN LowerOf(found.count, BcastLimit) ELSE found.count) |->
         IF i <= Len(found.ips) THEN found.ips[i] ELSE Garbage]

SendDmxDone ==
  /\ At("send")
  /\ nl_seq % 2 = 0
  /\ sent' = ToSet(Targets)
  /\ GoTo("idle")
  /\ UNCHANGED <<heap, list, nl_seq, silence, reader>>

-----------------------------------------------------------------------------
(* Another thread in artnet_nl_foreach; reader.seen are the entries of the *)
(* current pass, in the order of the callbacks, and reader.snapshot the    *)
(* list when the pass read nl_seq.                                         *)

ReaderAt(place) == reader.at = place
ReaderOnly == UNCHANGED <<heap, list, nl_seq, loop, silence, sent>>

NoReader == [at |-> "idle", seq |-> 0, tmp |-> Nil, seen |-> <<>>,
             snapshot |-> <<>>]

NlForeach ==
  /\ "artnet_nl_foreach" \in Calls
  /\ reader.at \in {"idle", "returned", "stopped"}
  /\ reader' = [NoReader EXCEPT !.at = "begin"]
  /\ ReaderOnly

(* Mutant: the reader does not wait for a write to end.                    *)
MutReadBegin ==
  /\ ReaderAt("begin")
  /\ reader' = [reader EXCEPT !.at = "first", !.seq = nl_seq, !.snapshot = NodesOf(Entries)]
  /\ ReaderOnly

ReadBegin ==
  /\ ReaderAt("begin")
  /\ nl_seq % 2 = 0
  /\ reader' = [reader EXCEPT !.at = "first", !.seq = nl_seq, !.snapshot = NodesOf(Entries)]
  /\ ReaderOnly

Step(c) == IF c = Nil THEN "check" ELSE "copy"

ReadFirst ==
  /\ ReaderAt("first")
  /\ reader' = [reader EXCEPT !.at = Step(list.first), !.tmp = list.first]
  /\ ReaderOnly

(* A pass that has seen more entries than there can be is not followed on. *)
SeenWith(n) ==
  IF Len(reader.seen) > Cardinality(Nodes) THEN reader.seen ELSE Append(reader.seen, n)

(* Copying a freed entry is undefined: the program stops or reads what the *)
(* memory still holds.  A nonzero result of the callback ends the walk.    *)
CopyEntry ==
  /\ ReaderAt("copy")
  /\ \/ reader' = [reader EXCEPT !.at = "next", !.seen = SeenWith(heap[reader.tmp].node)]
     \/ reader' = [NoReader EXCEPT !.at = "stopped"]
     \/ ~heap[reader.tmp].live /\ reader' = [NoReader EXCEPT !.at = "crashed"]
  /\ ReaderOnly

NextEntry ==
  /\ ReaderAt("next")
  /\ LET next == heap[reader.tmp].next
     IN  \/ reader' = [reader EXCEPT !.at = Step(next), !.tmp = next]
         \/ ~heap[reader.tmp].live /\ reader' = [NoReader EXCEPT !.at = "crashed"]
  /\ ReaderOnly

(* Mutant: a pass that began before a write is accepted when it ends in    *)
(* the middle of the write.                                                *)
MutRetry == nl_seq \notin {reader.seq, (reader.seq + 1) % SeqWrap}
Retry == nl_seq # reader.seq

ReadCheck ==
  /\ ReaderAt("check")
  /\ \/ ~Retry /\ reader' = [reader EXCEPT !.at = "returned"]
     \/ Retry /\ reader' = [NoReader EXCEPT !.at = "begin"]
  /\ ReaderOnly

-----------------------------------------------------------------------------
Init ==
  /\ heap = [c \in Cells |-> FreeCell]
  /\ list = [first |-> Nil, last |-> Nil, current |-> Nil, length |-> 0]
  /\ nl_seq = 0
  /\ loop = [at |-> "idle", node |-> Nil, pp |-> Nil]
  /\ silence = [n \in Nodes |-> Old]
  /\ sent = {}
  /\ reader = NoReader

WriteStep == NlUpdate \/ WriteEnd \/ ExpireEntry \/ ExpireDone
ReadStep == ReadBegin \/ ReadFirst \/ CopyEntry \/ NextEntry \/ ReadCheck
ReceiveStep == NothingReceived \/ \E n \in Nodes : UpdateBegin(n)

Next ==
  \/ ReceiveStep
  \/ ExpireBegin
  \/ WriteStep
  \/ NlFirst \/ NlNext
  \/ SendDmx \/ SendDmxDone
  \/ NlForeach
  \/ ReadStep
  \/ Tick

Spec == Init /\ [][Next]_vars

(* A thread that runs goes on running; the application calls artnet_read   *)
(* over and over (README.md: "event loop"), which returns from select.     *)
FairSpec ==
  /\ Spec
  /\ WF_vars(WriteStep) /\ WF_vars(SendDmxDone) /\ WF_vars(ReadStep)
  /\ WF_vars(ReceiveStep)
  /\ SF_vars(ExpireBegin) /\ SF_vars(Tick)
-----------------------------------------------------------------------------
ListLinked ==
  /\ ToSet(Entries) = {c \in Cells : heap[c].live}
  /\ list.last = Tip
  /\ list.length = Len(Entries)
  /\ Cardinality(Listed) = Len(Entries)

CurrentIsLive == At("idle") /\ list.current # Nil => heap[list.current].live

(* Between the updates and the pruning, the list holds every allocated     *)
(* entry once, one per node; last is its tail, where the next entry is     *)
(* linked, and length counts it; and the application's walk never stands   *)
(* on an entry that was freed.                                             *)
ListSound == (At("idle") \/ At("recv") => ListLinked) /\ CurrentIsLive

(* A node whose ArtPollReply was handled within NODELIST_TIMEOUT_MS is     *)
(* listed, however its entry was pruned and added again.                   *)
HeardIsListed ==
  At("idle") => \A n \in Nodes : silence[n] <= NodeTimeout => n \in Listed

(* A walk of artnet_nl_foreach that returns by itself has last passed over *)
(* the list as it was at one moment, whatever the other thread did.        *)
ConsistentSnapshot == reader.at = "returned" => reader.seen = reader.snapshot

(* A pass of artnet_nl_foreach that stands on an entry the other thread    *)
(* has freed is not accepted: by then the sequence number tells it to try  *)
(* again.  That it reads the freed entry, nothing prevents.                *)
FreedIsRetried ==
  ReaderAt("copy") \/ ReaderAt("next") => heap[reader.tmp].live \/ Retry

Subscribed == {n \in Listed : MatchingPorts[n] > 0}

(* The array of find_nodes_from_uni has one address per node, its result   *)
(* counts ports: with two ports of one node on the universe, and an array  *)
(* or a limit that is not full before, it promises too many addresses.     *)
CountsTooMany ==
  /\ \E n \in Subscribed : MatchingPorts[n] > 1
  /\ BcastLimit = 0 \/ Cardinality(Subscribed) < BcastLimit

(* However the list has changed, artnet_send_dmx sends to all the nodes    *)
(* that carry the universe, unless they are more than the limit, and to no *)
(* other node.  It reads memory nobody wrote for more addresses when       *)
(* find_nodes_from_uni counts too many, and then only.                     *)
SendsToSubscribers ==
  [][At("send") /\ loop'.at # "send" =>
       /\ sent' \ {Garbage} \subseteq {IpOf[n] : n \in Subscribed}
       /\ BcastLimit = 0 \/ Cardinality(Subscribed) <= BcastLimit
            => {IpOf[n] : n \in Subscribed} \subseteq sent'
       /\ Garbage \in sent' <=> CountsTooMany]_vars

(* A node that stays silent leaves the list.                               *)
SilentNodeDropped ==
  \A n \in Nodes : silence[n] > NodeTimeout ~> (n \notin Listed \/ silence[n] <= NodeTimeout)

=============================================================================
