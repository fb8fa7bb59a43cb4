------------------------------ MODULE NodeConfig ------------------------------
(***************************************************************************)
(* The configuration of a node: its switches, port addresses, names and    *)
(* interface.  The application sets them by calls, controllers program     *)
(* them by ArtAddress, ArtInput and ArtIpProg, and what the network has    *)
(* programmed is out of the application's reach until it is reset.         *)
(*                                                                         *)
(* Every change is to show in ar_temp, the ArtPollReply the node keeps     *)
(* built.  To whom it is sent is in Responder; the commands of ArtAddress  *)
(* that act on output data are in OutputPort.                              *)
(***************************************************************************)
EXTENDS Naturals, Sequences

CONSTANTS
  Ports,       (* the physical ports                                       *)
  NodeTypes,   (* the node types tried                                     *)
  Addressings, (* the ArtAddress packets the controllers send              *)
  IpProgs,     (* their ArtIpProg packets                                  *)
  NetArgs,     (* what the application passes to the set functions         *)
  SubnetArgs,
  PortArgs,
  Names,       (* names, as sequences of pieces                            *)
  Address0,    (* the address and mask of the interface                    *)
  Mask0,
  NoGateway,
  None,        (* no value                                                 *)
  MaxChanges   (* bound: calls and packets that change something           *)

ASSUME ArgAssumption ==
  /\ NetArgs \subseteq 0 .. 255 /\ SubnetArgs \subseteq 0 .. 255 /\ PortArgs \subseteq 0 .. 255
  /\ None \notin Nat
ASSUME AddressingAssumption ==
  Addressings \subseteq [bindIndex : 1 .. 255, shortName : Names \cup {None},
                         longName : Names \cup {None}, netSwitch : 0 .. 255,
                         subSwitch : 0 .. 255, swIn : [Ports -> 0 .. 255],
                         swOut : [Ports -> 0 .. 255], acnPriority : 0 .. 255]

VARIABLES
  node_type, mode,
  net,        (* netSwitch, default_netSwitch, netSwitch_net_ctl           *)
  sub,        (* subSwitch, default_subSwitch, subSwitch_net_ctl           *)
  in, out,    (* the ports                                                 *)
  names,      (* shortName, longName                                       *)
  bind_index, acn_priority,
  iface,      (* ip_addr, subnet_mask, bcast_addr, gateway                 *)
  report_code,
  ar_temp,    (* the ArtPollReply template                                 *)
  programmed, (* history: what the network programmed and has not reset    *)
  changes

switches == <<net, sub, in, out>>
labels == <<names, bind_index, acn_priority>>
vars == <<node_type, mode, switches, labels, iface, report_code, ar_temp, programmed, changes>>

PROGRAM_DEFAULTS == 0
Programs(byte) == byte >= 128

make_addr(n, s, p) == (n % 128) * 256 + (s % 16) * 16 + (p % 16)
addr_port(a) == a % 16
addr_subnet(a) == (a \div 16) % 16
addr_net(a) == (a \div 256) % 128

-----------------------------------------------------------------------------
(* The template.                                                           *)

NetworkProgrammed ==
  net.ctl \/ sub.ctl \/ \E i \in Ports : in[i].ctl \/ out[i].ctl

Template ==
  [ip |-> iface.ip, netSwitch |-> net.value, subSwitch |-> sub.value, names |-> names,
   swIn |-> [i \in Ports |-> addr_port(in[i].addr)],
   swOut |-> [i \in Ports |-> addr_port(out[i].addr)],
   acnPriority |-> acn_priority, bindIndex |-> bind_index,
   networkProgrammed |-> NetworkProgrammed]

artnet_tx_build_art_poll_reply == ar_temp' = Template'
(* Mutant: the template is built when the node starts only.                *)
MutRebuildIfOn == UNCHANGED ar_temp
RebuildIfOn == IF mode = "on" THEN artnet_tx_build_art_poll_reply ELSE UNCHANGED ar_temp

-----------------------------------------------------------------------------
(* Programming by the network.                                             *)

bind_index_matches(i) == i = bind_index
Answering == mode = "on" /\ node_type \notin {"srv", "raw"}

Switched(sw, byte, value) ==
  CASE byte = PROGRAM_DEFAULTS -> [sw EXCEPT !.value = sw.default, !.ctl = FALSE]
    [] Programs(byte) -> [sw EXCEPT !.value = value, !.ctl = TRUE]
    [] OTHER -> sw

(* A port moved to address p of the new net and sub-net.                   *)
Moved(port, p) == [port EXCEPT !.addr = make_addr(net'.value, sub'.value, p)]

(* Mutant: the ports keep the addresses of the old net.                    *)
MutRebuilt(ports) ==
  [i \in Ports |->
    IF sub'.value = sub.value THEN ports[i] ELSE Moved(ports[i], addr_port(ports[i].addr))]
(* All port addresses are made anew when the net or the sub-net changes.   *)
Rebuilt(ports) ==
  [i \in Ports |->
    IF net'.value = net.value /\ sub'.value = sub.value THEN ports[i]
    ELSE Moved(ports[i], addr_port(ports[i].addr))]

ProgrammedPort(port, byte) ==
  CASE byte = PROGRAM_DEFAULTS -> [Moved(port, port.default) EXCEPT !.ctl = FALSE]
    [] Programs(byte) -> [Moved(port, byte) EXCEPT !.ctl = TRUE]
    [] OTHER -> port

Touched(byte) == byte = PROGRAM_DEFAULTS \/ Programs(byte)

(* An input port whose address changes starts its sequence again; an       *)
(* output port that is programmed is enabled by it.                        *)
InAfter(p) ==
  LET after == [i \in Ports |-> ProgrammedPort(Rebuilt(in)[i], p.swIn[i])]
  IN [i \in Ports |-> IF after[i].addr # in[i].addr
                      THEN [after[i] EXCEPT !.seq = "first"] ELSE after[i]]
OutAfter(p) ==
  [i \in Ports |->
    [ProgrammedPort(Rebuilt(out)[i], p.swOut[i]) EXCEPT !.enabled = @ \/ Touched(p.swOut[i])]]

Or(new, old) == IF new = None THEN old ELSE new

(* What a byte of ArtAddress leaves programmed.                            *)
Note(byte, value, before) ==
  CASE byte = PROGRAM_DEFAULTS -> None [] Programs(byte) -> value [] OTHER -> before
NoteAll(p) ==
  [net |-> Note(p.netSwitch, p.netSwitch % 128, programmed.net),
   sub |-> Note(p.subSwitch, p.subSwitch % 16, programmed.sub),
   in |-> [i \in Ports |-> Note(p.swIn[i], p.swIn[i] % 16, programmed.in[i])],
   out |-> [i \in Ports |-> Note(p.swOut[i], p.swOut[i] % 16, programmed.out[i])]]

handle_address(p) ==
  /\ Answering /\ bind_index_matches(p.bindIndex)
  /\ names' = [short |-> Or(p.shortName, names.short), long |-> Or(p.longName, names.long)]
  /\ report_code' = IF p.longName # None THEN "loname_ok"
                    ELSE IF p.shortName # None THEN "shname_ok" ELSE report_code
  /\ sub' = Switched(sub, p.subSwitch, p.subSwitch % 16)
  /\ net' = Switched(net, p.netSwitch, p.netSwitch % 128)
  /\ in' = InAfter(p)
  /\ out' = OutAfter(p)
  /\ acn_priority' = IF p.acnPriority = 255 THEN acn_priority ELSE p.acnPriority
  /\ programmed' = NoteAll(p)
  /\ UNCHANGED <<node_type, mode, bind_index, iface>>
  /\ artnet_tx_build_art_poll_reply

(* ArtInput; the ports after the number it gives are left alone.           *)
_artnet_handle_input(disabled, ports) ==
  /\ Answering
  /\ in' = [i \in Ports |-> IF i \in ports THEN [in[i] EXCEPT !.disabled = i \in disabled]
                            ELSE in[i]]
  /\ UNCHANGED <<node_type, mode, net, sub, out, labels, iface, report_code, programmed>>
  /\ artnet_tx_build_art_poll_reply

BroadcastOf(ip, mask) == [net |-> ip, mask |-> mask]

(* Bits 2, 1 and 4 in this order; each of the first two makes the          *)
(* broadcast address anew.                                                 *)
IfaceAfter(p) ==
  LET ip == Or(p.ip, iface.ip)
      mask == Or(p.mask, iface.mask)
  IN [ip |-> ip, mask |-> mask, gateway |-> Or(p.gateway, iface.gateway),
      bcast |-> IF p.ip # None \/ p.mask # None THEN BroadcastOf(ip, mask) ELSE iface.bcast]

(* Without bit 7 it is a query; DHCP and the reset are only reported.      *)
handle_ipprog(p) ==
  /\ mode = "on"
  /\ IF p.enable
     THEN /\ iface' = IF p.dhcp \/ p.reset THEN iface ELSE IfaceAfter(p)
          /\ report_code' = IF \/ p.dhcp \/ p.reset
                               \/ {p.ip, p.mask, p.gateway} # {None}
                            THEN "debug" ELSE report_code
     ELSE UNCHANGED <<iface, report_code>>
  /\ UNCHANGED <<node_type, mode, switches, labels, programmed>>
  /\ artnet_tx_build_art_poll_reply

-----------------------------------------------------------------------------
(* The application's set functions.                                        *)

artnet_set_net_addr(arg) ==
  /\ UNCHANGED sub
  /\ IF arg > 127
     THEN report_code' = "user_fail" /\ UNCHANGED <<net, in, out, ar_temp>>
     ELSE /\ net' = [net EXCEPT !.default = arg, !.value = IF net.ctl THEN @ ELSE arg]
          /\ report_code' = IF net.ctl THEN "user_fail" ELSE report_code
          /\ in' = Rebuilt(in)
          /\ out' = Rebuilt(out)
          /\ IF net'.value # net.value THEN RebuildIfOn ELSE UNCHANGED ar_temp

(* Unlike the net, a new sub-net starts the sequences again.               *)
artnet_set_subnet_addr(arg) ==
  /\ sub' = [sub EXCEPT !.default = arg, !.value = IF sub.ctl THEN @ ELSE arg]
  /\ UNCHANGED net
  /\ report_code' = IF sub.ctl THEN "user_fail" ELSE report_code
  /\ in' = [i \in Ports |-> IF sub'.value = sub.value THEN in[i]
                            ELSE [Rebuilt(in)[i] EXCEPT !.seq = "first"]]
  /\ out' = Rebuilt(out)
  /\ IF sub'.value # sub.value THEN RebuildIfOn ELSE UNCHANGED ar_temp

(* Mutant: the address of a port under network control is taken, too.      *)
MutTakes(port, arg) == ~port.enabled \/ arg # addr_port(port.addr)
(* The address of a port is taken when it changes, or the port is new.     *)
Takes(port, arg) == ~port.ctl /\ (~port.enabled \/ arg # addr_port(port.addr))

PortSet(port, arg) ==
  [port EXCEPT !.enabled = TRUE, !.default = arg,
               !.addr = IF Takes(port, arg) THEN make_addr(net.value, sub.value, arg) ELSE @]

artnet_set_port_addr(i, dir, arg) ==
  /\ arg <= 15
  /\ LET port == IF dir = "in" THEN in[i] ELSE out[i]
         set == PortSet(port, arg)
     IN /\ in' = IF dir = "in"
                 THEN [in EXCEPT ![i] = IF Takes(port, arg)
                                        THEN [set EXCEPT !.seq = "first"] ELSE set]
                 ELSE in
        /\ out' = IF dir = "out" THEN [out EXCEPT ![i] = set] ELSE out
        /\ report_code' = IF port.ctl THEN "user_fail" ELSE report_code
        /\ UNCHANGED <<net, sub>>
        /\ IF Takes(port, arg) THEN RebuildIfOn ELSE UNCHANGED ar_temp

Sets ==
  /\ UNCHANGED <<node_type, mode, labels, iface, programmed>>
  /\ \/ \E arg \in NetArgs : artnet_set_net_addr(arg)
     \/ \E arg \in SubnetArgs : artnet_set_subnet_addr(arg)
     \/ \E i \in Ports, dir \in {"in", "out"}, arg \in PortArgs : artnet_set_port_addr(i, dir, arg)

(* The characters of a name are put over those that are there: of a longer *)
(* name the rest stays.                                                    *)
PutOver(name, old) == name \o SubSeq(old, Len(name) + 1, Len(old))
artnet_set_short_name(name) ==
  names' = [names EXCEPT !.short = PutOver(name, @)] /\ UNCHANGED bind_index
artnet_set_long_name(name) ==
  names' = [names EXCEPT !.long = PutOver(name, @)] /\ UNCHANGED bind_index

(* Names are put into the template at once, whether the node runs or not.  *)
SetsLabels ==
  /\ UNCHANGED <<node_type, mode, switches, iface, report_code, programmed, acn_priority>>
  /\ \/ /\ \E name \in Names : artnet_set_short_name(name) \/ artnet_set_long_name(name)
        /\ artnet_tx_build_art_poll_reply
     \/ /\ \E i \in {1, 2} : bind_index' = i
        /\ UNCHANGED names
        /\ RebuildIfOn

artnet_set_node_type ==
  /\ node_type' \in NodeTypes
  /\ UNCHANGED <<mode, switches, labels, iface, report_code, ar_temp, programmed>>

artnet_set_gateway(gw) ==
  /\ iface' = [iface EXCEPT !.gateway = gw]
  /\ UNCHANGED <<node_type, mode, switches, labels, report_code, ar_temp, programmed>>

(* A frame sent takes the sequence of its port on.                         *)
artnet_send_dmx(i) ==
  /\ mode = "on" /\ ~in[i].disabled
  /\ in' = [in EXCEPT ![i].seq = "later"]
  /\ UNCHANGED <<node_type, mode, net, sub, out, labels, iface, report_code, ar_temp, programmed>>

artnet_start ==
  /\ mode = "standby" /\ mode' = "on"
  /\ UNCHANGED <<node_type, switches, labels, iface, report_code, programmed>>
  /\ artnet_tx_build_art_poll_reply
artnet_stop ==
  /\ mode = "on" /\ mode' = "standby"
  /\ UNCHANGED <<node_type, switches, labels, iface, report_code, ar_temp, programmed>>

-----------------------------------------------------------------------------
NewSwitch == [value |-> 0, default |-> 0, ctl |-> FALSE]
NewOut == [addr |-> 0, default |-> 0, ctl |-> FALSE, enabled |-> FALSE]
NewIn == [addr |-> 0, default |-> 0, ctl |-> FALSE, enabled |-> FALSE, disabled |-> FALSE,
          seq |-> "first"]

(* artnet_new fills the structure with zeros: the template, too.           *)
Init ==
  /\ node_type \in NodeTypes /\ mode = "standby"
  /\ net = NewSwitch /\ sub = NewSwitch
  /\ in = [i \in Ports |-> NewIn] /\ out = [i \in Ports |-> NewOut]
  /\ names = [short |-> <<>>, long |-> <<>>]
  /\ bind_index = 1 /\ acn_priority = 255
  /\ iface = [ip |-> Address0, mask |-> Mask0, bcast |-> BroadcastOf(Address0, Mask0),
              gateway |-> NoGateway]
  /\ report_code = "power_ok"
  /\ ar_temp = None
  /\ programmed = [net |-> None, sub |-> None, in |-> [i \in Ports |-> None],
                   out |-> [i \in Ports |-> None]]
  /\ changes = 0

Handles ==
  \/ \E p \in Addressings : handle_address(p)
  \/ \E ports, disabled \in SUBSET Ports : _artnet_handle_input(disabled, ports)
  \/ \E p \in IpProgs : handle_ipprog(p)

Configures ==
  \/ Sets \/ SetsLabels \/ artnet_set_node_type
  \/ \E p \in IpProgs : artnet_set_gateway(p.gateway)
  \/ \E i \in Ports : artnet_send_dmx(i)

Next ==
  \/ changes < MaxChanges /\ changes' = changes + 1 /\ (Handles \/ Configures)
  \/ (artnet_start \/ artnet_stop) /\ UNCHANGED changes

Spec == Init /\ [][Next]_vars

-----------------------------------------------------------------------------
(* Every port is on the net and sub-net of its node, whichever of the six  *)
(* functions that change one of the three wrote last.                      *)
PortsFollowSwitches ==
  \A i \in Ports : \A a \in {in[i].addr, out[i].addr} :
    addr_net(a) = net.value % 128 /\ addr_subnet(a) = sub.value % 16

Holds(sw, value, kept) == value = IF kept = None THEN sw.default ELSE kept

(* Each switch and each port has the value the network programmed last,    *)
(* and if there is none, or the network has reset it, the value the        *)
(* application set last, even if it set that while the network was in      *)
(* control; and the broadcast address is the one of the address and mask.  *)
ProgrammingHolds ==
  /\ Holds(net, net.value, programmed.net)
  /\ Holds(sub, sub.value, programmed.sub)
  /\ \A i \in Ports : /\ Holds(in[i], addr_port(in[i].addr), programmed.in[i])
                      /\ Holds(out[i], addr_port(out[i].addr), programmed.out[i])
  /\ iface.bcast = BroadcastOf(iface.ip, iface.mask)

(* While the node runs, the ArtPollReply it would send shows the           *)
(* configuration it has.                                                   *)
AnnouncedCurrent == mode = "on" => ar_temp = Template
=============================================================================
