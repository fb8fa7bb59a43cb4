------------------------------- MODULE Endpoint -------------------------------
(***************************************************************************)
(* The nodes of one program, from artnet_new to artnet_destroy: which      *)
(* address they take, how they are joined to share a socket, when the      *)
(* socket is open, and the calls by which the application sends.           *)
(*                                                                         *)
(* The calls of one program are sequential.  A socket is known by its      *)
(* number, which the system gives out again once the socket is closed.  A  *)
(* ring of joined nodes is not used any more once one of them is           *)
(* destroyed: the others keep a pointer to it.                             *)
(***************************************************************************)
EXTENDS Transmit, FiniteSets, Sequences

CONSTANTS
  Nodes,        (* the nodes of the program                                *)
  NoNode,       (* a null pointer                                          *)
  TypeOf,       (* node_type of each node                                  *)
  Preferred,    (* the address each node is created with, or AnyAddress    *)
  AnyAddress,
  Interfaces,   (* the interfaces of the machine, in the system's order    *)
  Sockets,      (* bound: the sockets the system can give                  *)
  NoSocket,     (* INVALID_SOCKET                                          *)
  Subscribers,  (* the nodes found on the network that take a universe     *)
  PortsOfNet    (* how many enabled output ports there are in each net     *)

ASSUME NodeAssumption == NoNode \notin Nodes /\ IsFiniteSet(Nodes)
ASSUME SocketAssumption == NoSocket \notin Sockets
ASSUME TypeAssumption == TypeOf \in [Nodes -> {"srv", "node", "msrv", "raw"}]
ASSUME PortAssumption == \A net \in DOMAIN PortsOfNet : PortsOfNet[net] \in 1 .. 4

VARIABLES
  mode,   (* state.mode; "none" before artnet_new, "freed" at the end      *)
  ip,     (* state.ip_addr                                                 *)
  peer,   (* peering.peer                                                  *)
  master, (* peering.master                                                *)
  sd,     (* the socket each node uses                                     *)
  open,   (* the sockets that are open                                     *)
  abandoned, (* history: the open sockets of nodes that ran while their    *)
             (* ring was joined                                            *)
  sent    (* what the last call put on the network                         *)

sockets == <<open, abandoned>>
vars == <<mode, ip, peer, master, sd, sockets, sent>>

-----------------------------------------------------------------------------
(* Finding an address.                                                     *)

add_iface_if_needed(i) == i.up /\ ~i.loopback /\ i.ipv4
get_ifaces == SelectSeq(Interfaces, add_iface_if_needed)

(* The addresses artnet_net_init may settle on: one, or none.              *)
artnet_net_init(preferred) ==
  {get_ifaces[k].addr : k \in {j \in DOMAIN get_ifaces :
     IF preferred = AnyAddress THEN j = 1 ELSE get_ifaces[j].addr = preferred}}

-----------------------------------------------------------------------------
(* The ring of joined nodes.                                               *)

(* The nodes a walk along next meets from n on, n first.                   *)
WalkOf(next, n) ==
  LET at[k \in 0 .. Cardinality(Nodes)] ==
        IF k = 0 THEN n ELSE IF at[k - 1] = NoNode THEN NoNode ELSE next[at[k - 1]]
  IN {at[k] : k \in DOMAIN at} \ {NoNode}
Ring(n) == WalkOf(peer, n)

Usable(n) == \A m \in Ring(n) : mode[m] # "freed"

(* Mutant: the ring n1 was part of is not hooked in behind n2's.           *)
MutJoined(n1, n2) ==
  LET started == [peer EXCEPT ![n1] = n2]
      last == CHOOSE m \in WalkOf(started, n2) : started[m] \in {NoNode, n2}
  IN [started EXCEPT ![last] = n1]
(* n1 is followed by the ring of n2, then by its own.                      *)
Joined(n1, n2) ==
  LET started == [peer EXCEPT ![n1] = n2]
      last == CHOOSE m \in WalkOf(started, n2) : started[m] \in {NoNode, n2}
  IN [started EXCEPT ![last] = IF peer[n1] = NoNode THEN n1 ELSE peer[n1]]

(* Only the two nodes named are asked whether they run, not their rings.   *)
artnet_join(n1, n2) ==
  /\ mode[n1] = "standby" /\ mode[n2] = "standby"
  /\ Usable(n1) /\ Usable(n2)
  /\ peer' = Joined(n1, n2)
  /\ master' = [m \in Nodes |-> m = n1 \/ (master[m] /\ m \notin WalkOf(peer', n1))]
  /\ abandoned' = abandoned \cup
       (open \cap {sd[m] : m \in {x \in WalkOf(peer', n1) : mode[x] = "on"}})
  /\ sent' = {}
  /\ UNCHANGED <<mode, ip, sd, open>>

-----------------------------------------------------------------------------
(* Creating, starting, stopping, destroying.                               *)

artnet_new(n) ==
  /\ mode[n] = "none"
  /\ \E a \in artnet_net_init(Preferred[n]) : ip' = [ip EXCEPT ![n] = a]
  /\ mode' = [mode EXCEPT ![n] = "standby"]
  /\ sent' = {}
  /\ UNCHANGED <<peer, master, sd, sockets>>

(* Only the master opens a socket; all its ring is given it.               *)
artnet_net_start(n) ==
  IF master[n]
  THEN \E s \in Sockets \ open :
         /\ sd' = [m \in Nodes |-> IF m \in Ring(n) THEN s ELSE sd[m]]
         /\ open' = open \cup {s}
  ELSE UNCHANGED <<sd, open>>

(* What reaches the network of the packets a node sends on socket s.       *)
Reached(s, ps) == IF s \in open' THEN ps ELSE {}

(* A controller polls the network and asks for the tables of devices; a    *)
(* failure of that is reported to the caller, and the node runs.           *)
artnet_start(n) ==
  /\ mode[n] = "standby" /\ Usable(n)
  /\ artnet_net_start(n)
  /\ mode' = [mode EXCEPT ![n] = "on"]
  /\ sent' = IF TypeOf[n] = "srv"
             THEN Reached(sd'[n], artnet_tx_poll("srv", Broadcast)
                                    \cup artnet_tx_tod_request(PortsOfNet))
             ELSE {}
  /\ UNCHANGED <<ip, peer, master, abandoned>>

artnet_stop(n) ==
  /\ mode[n] = "on"
  /\ open' = open \ {sd[n]} /\ abandoned' = abandoned \ {sd[n]}
  /\ mode' = [mode EXCEPT ![n] = "standby"]
  /\ sent' = {}
  /\ UNCHANGED <<ip, peer, master, sd>>

(* Mutant: the socket of a node that runs stays open.                      *)
Mutartnet_destroy(n) ==
  /\ mode[n] \in {"standby", "on"}
  /\ mode' = [mode EXCEPT ![n] = "freed"]
  /\ sent' = {}
  /\ UNCHANGED <<ip, peer, master, sd, sockets>>
artnet_destroy(n) ==
  /\ mode[n] \in {"standby", "on"}
  /\ LET closed == IF mode[n] = "on" THEN {sd[n]} ELSE {}
     IN open' = open \ closed /\ abandoned' = abandoned \ closed
  /\ mode' = [mode EXCEPT ![n] = "freed"]
  /\ sent' = {}
  /\ UNCHANGED <<ip, peer, master, sd>>

-----------------------------------------------------------------------------
(* The application's calls, each of which asks for a node that runs.       *)
(* sendto refuses a socket that is closed.                                 *)

artnet_net_send(n, ps) ==
  /\ ps # {}
  /\ UNCHANGED <<mode, ip, peer, master, sd, sockets>>
  /\ sent' = Reached(sd[n], ps)

Controls(n) == TypeOf[n] \in {"srv", "raw"}

(* The arguments tried: those around each limit.                           *)
Payloads == {0, 512, 513}
Texts == {[len |-> 4, nul |-> FALSE]} \cup [len : {0, 512, 513}, nul : {TRUE}]
VlcData == {[len |-> 21, vlc |-> FALSE], [len |-> 22, vlc |-> FALSE], [len |-> 22, vlc |-> TRUE]}
Codes == {5, 6, 32768}
Timecodes == [kind : {3}, frames : {29, 30}, seconds : {59}, minutes : {59}, hours : {23}]
Timesyncs == [sec : {59}, min : {59}, hour : {23}, mday : {0, 31}, mon : {11}]

artnet_send_poll(n) ==
  \E to \in Subscribers \cup {Broadcast} :
    artnet_net_send(n, artnet_tx_poll(TypeOf[n], to))
artnet_send_address(n) ==
  /\ Controls(n)
  /\ \E to \in Subscribers, acn \in {200, 201, 255} : artnet_net_send(n, tx_address(to, acn))
artnet_send_input(n) ==
  Controls(n) /\ \E to \in Subscribers, ports \in {0, 4} : artnet_net_send(n, tx_input(to, ports))
artnet_send_ipprog(n) == \E to \in Subscribers : artnet_net_send(n, artnet_tx_ipprog(to))
artnet_send_data_request(n) ==
  \E to \in Subscribers, code \in Codes : artnet_net_send(n, artnet_tx_data_request(to, code))
artnet_send_data_reply(n) ==
  \E to \in Subscribers, code \in Codes, text \in Texts :
    artnet_net_send(n, artnet_tx_data_reply(to, code, text))
artnet_send_tod_request(n) == artnet_net_send(n, artnet_tx_tod_request(PortsOfNet))
artnet_send_tod_control(n) ==
  \E action \in {0, 4, 5} : artnet_net_send(n, artnet_tx_tod_control(action))
artnet_send_sync(n) == artnet_net_send(n, artnet_tx_sync)
artnet_raw_send_dmx(n) ==
  TypeOf[n] = "raw" /\ \E len \in Payloads : artnet_net_send(n, tx_dmx(Subscribers, len))
artnet_send_nzs(n) ==
  /\ TypeOf[n] = "raw"
  /\ \E code \in {0, 1, ARTNET_VLC_START_CODE, 204}, data \in VlcData :
       artnet_net_send(n, NzsPackets(Subscribers, code, data))
artnet_send_vlc(n) ==
  TypeOf[n] = "raw" /\ \E data \in VlcData : artnet_net_send(n, VlcPackets(Subscribers, data))
artnet_send_command(n) ==
  \E to \in Subscribers \cup {Broadcast}, text \in Texts :
    artnet_net_send(n, artnet_tx_command(to, text))
artnet_send_timecode(n) == \E t \in Timecodes : artnet_net_send(n, artnet_tx_timecode(t))
artnet_send_timesync(n) == \E t \in Timesyncs : artnet_net_send(n, artnet_tx_timesync(t))
artnet_send_trigger(n) ==
  \E key \in {0, 3, 4}, len \in Payloads : artnet_net_send(n, artnet_tx_trigger(key, len))
artnet_send_directory(n) == artnet_net_send(n, artnet_tx_directory(Subscribers))
artnet_send_file_tn_master(n) ==
  \E to \in Subscribers, words \in {0, 512, 513} :
    artnet_net_send(n, artnet_tx_file_tn_master(to, words))
artnet_send_file_fn_master(n) ==
  \E to \in Subscribers, chars \in {0, 1, 256} :
    artnet_net_send(n, artnet_tx_file_fn_master(to, chars))
artnet_send_media_patch(n) ==
  \E to \in Subscribers, len \in Payloads : artnet_net_send(n, artnet_tx_media_patch(to, len))
artnet_send_media_control(n) ==
  \E to \in Subscribers, len \in Payloads :
    artnet_net_send(n, artnet_tx_media_control("mediacontrol", to, len))
artnet_send_media_control_reply(n) ==
  \E to \in Subscribers, len \in Payloads :
    artnet_net_send(n, artnet_tx_media_control("mediacontrolreply", to, len))

-----------------------------------------------------------------------------
Init ==
  /\ mode = [n \in Nodes |-> "none"]
  /\ ip = [n \in Nodes |-> AnyAddress]
  /\ peer = [n \in Nodes |-> NoNode]
  /\ master = [n \in Nodes |-> TRUE]
  /\ sd = [n \in Nodes |-> NoSocket]
  /\ open = {} /\ abandoned = {}
  /\ sent = {}

Lives(n) == artnet_new(n) \/ artnet_start(n) \/ artnet_stop(n) \/ artnet_destroy(n)

Programs(n) == mode[n] = "on" /\
  \/ artnet_send_poll(n) \/ artnet_send_address(n) \/ artnet_send_input(n)
  \/ artnet_send_ipprog(n) \/ artnet_send_data_request(n) \/ artnet_send_data_reply(n)
  \/ artnet_send_tod_request(n) \/ artnet_send_tod_control(n)

Plays(n) == mode[n] = "on" /\
  \/ artnet_send_sync(n) \/ artnet_raw_send_dmx(n) \/ artnet_send_nzs(n) \/ artnet_send_vlc(n)
  \/ artnet_send_command(n) \/ artnet_send_timecode(n) \/ artnet_send_timesync(n)
  \/ artnet_send_trigger(n)

Transfers(n) == mode[n] = "on" /\
  \/ artnet_send_directory(n) \/ artnet_send_file_tn_master(n) \/ artnet_send_file_fn_master(n)
  \/ artnet_send_media_patch(n) \/ artnet_send_media_control(n)
  \/ artnet_send_media_control_reply(n)

Next ==
  \/ \E n \in Nodes : Lives(n) \/ Programs(n) \/ Plays(n) \/ Transfers(n)
  \/ \E n1, n2 \in Nodes : artnet_join(n1, n2)

Spec == Init /\ [][Next]_vars

-----------------------------------------------------------------------------
(* However often and in whatever order nodes are joined, the peer pointers *)
(* close to rings without a tail, and every ring has one master: a walk    *)
(* along a ring, as in artnet_read or artnet_net_start, ends, meets every  *)
(* node once, and exactly one node of it binds the port.                   *)
RingsSound ==
  \A n \in Nodes :
    /\ \A m \in Ring(n) : n \in Ring(m)
    /\ Cardinality({m \in Ring(n) : master[m]}) = 1
    /\ peer[n] = NoNode => Ring(n) = {n}

(* An open socket belongs to a master that runs and will close it, in      *)
(* whatever order the nodes of its ring are joined, started, stopped and   *)
(* destroyed, and although any of them closes the socket they share.  The  *)
(* only sockets that may be left without one are those of nodes that ran   *)
(* while their ring was joined by two others that did not: artnet_join     *)
(* takes the master flag from them without looking at their mode.          *)
SocketsOwned ==
  \A s \in open \ abandoned : \E n \in Nodes : mode[n] = "on" /\ master[n] /\ sd[n] = s

(* What one node of the library sends, another takes: each packet passes   *)
(* the tests of packet_length_is_valid and packet_fields_are_valid, unless *)
(* the caller gave a value that no transmitting function checks.           *)
SentIsAccepted == \A p \in sent : Accepted(p) \/ LeftToTheCaller(p)
=============================================================================
