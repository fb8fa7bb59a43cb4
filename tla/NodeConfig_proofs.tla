-------------------------- MODULE NodeConfig_proofs --------------------------
(***************************************************************************)
(* Proofs about NodeConfig for any number of ports and any packets and     *)
(* arguments: ports follow the switches of their node, programming holds,  *)
(* and what is announced is current.                                       *)
(***************************************************************************)
EXTENDS NodeConfig, TLAPS

Shared == [addr : Nat, default : 0 .. 15, ctl : BOOLEAN, enabled : BOOLEAN]
InPort == [addr : Nat, default : 0 .. 15, ctl : BOOLEAN, enabled : BOOLEAN, disabled : BOOLEAN,
           seq : {"first", "later"}]
Nibbles == 0 .. 15 \cup {None}

Typed ==
  /\ net \in [value : 0 .. 127, default : 0 .. 127, ctl : BOOLEAN]
  /\ sub \in [value : 0 .. 255, default : 0 .. 255, ctl : BOOLEAN]
  /\ in \in [Ports -> InPort] /\ out \in [Ports -> Shared]
  /\ programmed \in [net : 0 .. 127 \cup {None}, sub : Nibbles, in : [Ports -> Nibbles],
                     out : [Ports -> Nibbles]]

(* A switch or port is under network control exactly when something of the *)
(* network's is kept in it.                                                *)
SwitchOK(sw, kept) == Holds(sw, sw.value, kept) /\ (sw.ctl <=> kept # None)
PortHolds(port, kept) ==
  Holds(port, addr_port(port.addr), kept) /\ (port.ctl <=> kept # None)
PortOn(port, n, s) == addr_net(port.addr) = n % 128 /\ addr_subnet(port.addr) = s % 16

SwitchesOK == SwitchOK(net, programmed.net) /\ SwitchOK(sub, programmed.sub)
InOK(i) == PortOn(in[i], net.value, sub.value) /\ PortHolds(in[i], programmed.in[i])
OutOK(i) == PortOn(out[i], net.value, sub.value) /\ PortHolds(out[i], programmed.out[i])
PortsOK == \A i \in Ports : InOK(i) /\ OutOK(i)
IfaceOK ==
  /\ iface = [ip |-> iface.ip, mask |-> iface.mask, bcast |-> iface.bcast,
              gateway |-> iface.gateway]
  /\ iface.bcast = BroadcastOf(iface.ip, iface.mask)

IInv == Typed /\ SwitchesOK /\ PortsOK /\ IfaceOK /\ AnnouncedCurrent

-----------------------------------------------------------------------------
(* Addresses.                                                              *)

LEMMA Ranges ==
  ASSUME NEW x \in Nat
  PROVE  /\ x % 128 \in 0 .. 127 /\ x % 16 \in 0 .. 15
         /\ x \in 0 .. 127 => x % 128 = x
         /\ x \in 0 .. 15 => x % 16 = x
BY SMT

LEMMA FieldsOfSum ==
  ASSUME NEW a \in 0 .. 127, NEW b \in 0 .. 15, NEW c \in 0 .. 15
  PROVE  LET x == a * 256 + b * 16 + c
         IN x \in Nat /\ x % 16 = c /\ (x \div 16) % 16 = b /\ (x \div 256) % 128 = a
BY SMT

(* make_addr keeps the low bits of its three arguments apart.              *)
LEMMA MakeAddr ==
  ASSUME NEW n \in Nat, NEW s \in Nat, NEW p \in Nat
  PROVE  /\ make_addr(n, s, p) \in Nat
         /\ addr_port(make_addr(n, s, p)) = p % 16
         /\ addr_subnet(make_addr(n, s, p)) = s % 16
         /\ addr_net(make_addr(n, s, p)) = n % 128
<1> DEFINE a == n % 128
           b == s % 16
           c == p % 16
<1>1. a \in 0 .. 127 /\ b \in 0 .. 15 /\ c \in 0 .. 15
  BY Ranges
<1>2. make_addr(n, s, p) = a * 256 + b * 16 + c
  BY DEF make_addr
<1> HIDE DEF a, b, c
<1>3. LET x == a * 256 + b * 16 + c
      IN x \in Nat /\ x % 16 = c /\ (x \div 16) % 16 = b /\ (x \div 256) % 128 = a
  BY <1>1, FieldsOfSum
<1> USE DEF a, b, c
<1> QED BY <1>2, <1>3 DEF addr_port, addr_subnet, addr_net

LEMMA PortNibble ==
  ASSUME NEW a \in Nat
  PROVE  addr_port(a) \in 0 .. 15 /\ addr_port(a) % 16 = addr_port(a)
<1>1. addr_port(a) \in 0 .. 15
  BY Ranges DEF addr_port
<1> QED BY <1>1, Ranges

-----------------------------------------------------------------------------
(* One port.                                                               *)

LEMMA Readdressed ==
  ASSUME NEW port \in InPort \cup Shared, NEW n \in Nat, NEW s \in Nat, NEW p \in Nat
  PROVE  LET q == [port EXCEPT !.addr = make_addr(n, s, p)]
         IN /\ port \in InPort => q \in InPort
            /\ port \in Shared => q \in Shared
            /\ PortOn(q, n, s) /\ addr_port(q.addr) = p % 16
            /\ q.default = port.default /\ q.ctl = port.ctl
<1> DEFINE q == [port EXCEPT !.addr = make_addr(n, s, p)]
<1>1. make_addr(n, s, p) \in Nat
  BY MakeAddr
<1>2. /\ port \in InPort => q \in InPort
      /\ port \in Shared => q \in Shared
      /\ q.addr = make_addr(n, s, p) /\ q.default = port.default /\ q.ctl = port.ctl
  BY <1>1 DEF InPort, Shared
<1> QED BY <1>2, MakeAddr DEF PortOn

(* The same for the net and sub-net that a step leaves.                    *)
LEMMA MovedOK ==
  ASSUME NEW port \in InPort \cup Shared, NEW p \in Nat,
         net'.value \in Nat, sub'.value \in Nat
  PROVE  LET q == Moved(port, p)
         IN /\ port \in InPort => q \in InPort
            /\ port \in Shared => q \in Shared
            /\ PortOn(q, net'.value, sub'.value) /\ addr_port(q.addr) = p % 16
            /\ q.default = port.default /\ q.ctl = port.ctl
BY Readdressed DEF Moved

(* Making the addresses anew puts the ports on the new net and keeps the   *)
(* rest of them.                                                           *)
LEMMA RebuiltOK ==
  ASSUME NEW ports, NEW i \in Ports, NEW kept,
         ports[i] \in InPort \cup Shared,
         net.value \in Nat, sub.value \in Nat, net'.value \in Nat, sub'.value \in Nat,
         PortOn(ports[i], net.value, sub.value), PortHolds(ports[i], kept)
  PROVE  LET q == Rebuilt(ports)[i]
         IN /\ ports[i] \in InPort => q \in InPort
            /\ ports[i] \in Shared => q \in Shared
            /\ PortOn(q, net'.value, sub'.value) /\ PortHolds(q, kept)
<1> DEFINE q == Rebuilt(ports)[i]
<1>1. CASE net'.value = net.value /\ sub'.value = sub.value
  <2>1. q = ports[i]
    BY <1>1 DEF Rebuilt
  <2> QED BY <1>1, <2>1
<1>2. CASE ~(net'.value = net.value /\ sub'.value = sub.value)
  <2> DEFINE p == addr_port(ports[i].addr)
  <2>1. ports[i].addr \in Nat
    BY DEF InPort, Shared
  <2>2. p \in Nat /\ p % 16 = p
    BY <2>1, PortNibble
  <2>3. q = Moved(ports[i], p)
    BY <1>2 DEF Rebuilt
  <2> HIDE DEF p, q
  <2>4. /\ ports[i] \in InPort => q \in InPort
        /\ ports[i] \in Shared => q \in Shared
        /\ PortOn(q, net'.value, sub'.value) /\ addr_port(q.addr) = p
        /\ q.default = ports[i].default /\ q.ctl = ports[i].ctl
    BY <2>2, <2>3, MovedOK
  <2> QED BY <2>4 DEF PortHolds, Holds, p, q
<1> QED BY <1>1, <1>2

(* A byte of ArtAddress leaves in a port what Note says.                   *)
LEMMA ProgrammedOK ==
  ASSUME NEW port \in InPort \cup Shared, NEW byte \in 0 .. 255, NEW kept \in Nibbles,
         net'.value \in Nat, sub'.value \in Nat,
         PortOn(port, net'.value, sub'.value), PortHolds(port, kept)
  PROVE  LET q == ProgrammedPort(port, byte)
         IN /\ port \in InPort => q \in InPort
            /\ port \in Shared => q \in Shared
            /\ PortOn(q, net'.value, sub'.value)
            /\ PortHolds(q, Note(byte, byte % 16, kept))
            /\ Note(byte, byte % 16, kept) \in Nibbles
<1> DEFINE q == ProgrammedPort(port, byte)
<1>0. None \notin Nat
  BY ArgAssumption
<1>1. CASE byte = PROGRAM_DEFAULTS
  <2> DEFINE r == Moved(port, port.default)
  <2>0. ~Programs(byte)
    BY <1>1 DEF Programs, PROGRAM_DEFAULTS
  <2>1. port.default \in 0 .. 15
    BY DEF InPort, Shared
  <2>2. port.default \in Nat /\ port.default % 16 = port.default
    BY <2>1, Ranges
  <2>3. /\ port \in InPort => r \in InPort
        /\ port \in Shared => r \in Shared
        /\ PortOn(r, net'.value, sub'.value) /\ addr_port(r.addr) = port.default
        /\ r.default = port.default /\ r.ctl = port.ctl
    BY <2>2, MovedOK
  <2>4. q = [r EXCEPT !.ctl = FALSE]
    BY <1>1, <2>0 DEF ProgrammedPort
  <2> HIDE DEF r, q
  <2>5. /\ port \in InPort => q \in InPort
        /\ port \in Shared => q \in Shared
        /\ q.addr = r.addr /\ q.default = r.default /\ q.ctl = FALSE
    BY <2>3, <2>4 DEF InPort, Shared
  <2>6. Note(byte, byte % 16, kept) = None
    BY <1>1, <2>0 DEF Note
  <2>7. PortOn(q, net'.value, sub'.value)
    BY <2>3, <2>5 DEF PortOn
  <2>8. PortHolds(q, None)
    BY <2>3, <2>5 DEF PortHolds, Holds
  <2> QED BY <2>5, <2>6, <2>7, <2>8 DEF Nibbles, q
<1>2. CASE byte # PROGRAM_DEFAULTS /\ Programs(byte)
  <2> DEFINE r == Moved(port, byte)
  <2>1. byte % 16 \in 0 .. 15
    BY Ranges
  <2>2. byte \in Nat
    OBVIOUS
  <2>3. /\ port \in InPort => r \in InPort
        /\ port \in Shared => r \in Shared
        /\ PortOn(r, net'.value, sub'.value) /\ addr_port(r.addr) = byte % 16
        /\ r.default = port.default /\ r.ctl = port.ctl
    BY <2>2, MovedOK
  <2>4. q = [r EXCEPT !.ctl = TRUE]
    BY <1>2 DEF ProgrammedPort
  <2> HIDE DEF r, q
  <2>5. /\ port \in InPort => q \in InPort
        /\ port \in Shared => q \in Shared
        /\ q.addr = r.addr /\ q.default = r.default /\ q.ctl = TRUE
    BY <2>3, <2>4 DEF InPort, Shared
  <2>6. Note(byte, byte % 16, kept) = byte % 16
    BY <1>2 DEF Note
  <2> QED BY <1>0, <2>1, <2>3, <2>5, <2>6 DEF PortOn, PortHolds, Holds, Nibbles, q
<1>3. CASE byte # PROGRAM_DEFAULTS /\ ~Programs(byte)
  <2>1. q = port /\ Note(byte, byte % 16, kept) = kept
    BY <1>3 DEF ProgrammedPort, Note
  <2> QED BY <2>1
<1> QED BY <1>1, <1>2, <1>3

(* So does a byte for a switch.                                            *)
LEMMA SwitchedOK ==
  ASSUME NEW max \in Nat, NEW sw \in [value : 0 .. max, default : 0 .. max, ctl : BOOLEAN],
         NEW byte \in 0 .. 255, NEW value \in 0 .. max, NEW kept, SwitchOK(sw, kept)
  PROVE  LET q == Switched(sw, byte, value)
         IN /\ q \in [value : 0 .. max, default : 0 .. max, ctl : BOOLEAN]
            /\ SwitchOK(q, Note(byte, value, kept))
<1> DEFINE q == Switched(sw, byte, value)
<1>0. None \notin Nat
  BY ArgAssumption
<1>1. CASE byte = PROGRAM_DEFAULTS
  <2>1. ~Programs(byte)
    BY <1>1 DEF Programs, PROGRAM_DEFAULTS
  <2>2. q = [sw EXCEPT !.value = sw.default, !.ctl = FALSE] /\ Note(byte, value, kept) = None
    BY <1>1, <2>1 DEF Switched, Note
  <2> QED BY <2>2 DEF SwitchOK, Holds
<1>2. CASE byte # PROGRAM_DEFAULTS /\ Programs(byte)
  <2>1. q = [sw EXCEPT !.value = value, !.ctl = TRUE] /\ Note(byte, value, kept) = value
    BY <1>2 DEF Switched, Note
  <2>2. /\ q \in [value : 0 .. max, default : 0 .. max, ctl : BOOLEAN]
        /\ q.value = value /\ q.ctl = TRUE
    BY <2>1
  <2>3. value # None
    BY <1>0
  <2> HIDE DEF q
  <2>4. SwitchOK(q, value)
    BY <2>2, <2>3 DEF SwitchOK, Holds
  <2> QED BY <2>1, <2>2, <2>4 DEF q
<1>3. CASE byte # PROGRAM_DEFAULTS /\ ~Programs(byte)
  <2>1. q = sw /\ Note(byte, value, kept) = kept
    BY <1>3 DEF Switched, Note
  <2> QED BY <2>1
<1> QED BY <1>1, <1>2, <1>3

(* The numbers of an input port start again.                               *)
LEMMA Restarted ==
  ASSUME NEW port \in InPort
  PROVE  LET q == [port EXCEPT !.seq = "first"]
         IN q \in InPort /\ q.addr = port.addr /\ q.default = port.default /\ q.ctl = port.ctl
BY DEF InPort

-----------------------------------------------------------------------------
(* What is announced.                                                      *)

(* The template shows these parts of the state and no others.              *)
LEMMA TemplateFrame ==
  ASSUME iface'.ip = iface.ip, net'.value = net.value, net'.ctl = net.ctl,
         sub'.value = sub.value, sub'.ctl = sub.ctl,
         \A i \in Ports : in'[i].addr = in[i].addr /\ in'[i].ctl = in[i].ctl,
         \A i \in Ports : out'[i].addr = out[i].addr /\ out'[i].ctl = out[i].ctl,
         UNCHANGED labels
  PROVE  Template' = Template
<1>1. NetworkProgrammed' = NetworkProgrammed
  BY DEF NetworkProgrammed
<1>2. [i \in Ports |-> addr_port(in'[i].addr)] = [i \in Ports |-> addr_port(in[i].addr)]
  OBVIOUS
<1>3. [i \in Ports |-> addr_port(out'[i].addr)] = [i \in Ports |-> addr_port(out[i].addr)]
  OBVIOUS
<1> QED BY <1>1, <1>2, <1>3 DEF Template, labels

LEMMA Built ==
  ASSUME artnet_tx_build_art_poll_reply
  PROVE  AnnouncedCurrent'
BY DEF artnet_tx_build_art_poll_reply, AnnouncedCurrent

LEMMA BuiltIfOn ==
  ASSUME RebuildIfOn, UNCHANGED mode
  PROVE  AnnouncedCurrent'
<1>1. CASE mode = "on"
  BY <1>1, Built DEF RebuildIfOn
<1>2. CASE mode # "on"
  BY <1>2 DEF AnnouncedCurrent
<1> QED BY <1>1, <1>2

LEMMA NotBuilt ==
  ASSUME AnnouncedCurrent, UNCHANGED <<mode, ar_temp>>, Template' = Template
  PROVE  AnnouncedCurrent'
BY DEF AnnouncedCurrent

-----------------------------------------------------------------------------
(* The steps.                                                              *)

Fixed == UNCHANGED <<net, sub, in, out, programmed>>

(* What leaves switches and ports alone keeps all that is said of them.    *)
LEMMA FixedOK ==
  ASSUME IInv, Fixed
  PROVE  Typed' /\ SwitchesOK' /\ PortsOK'
BY DEF IInv, Fixed, Typed, SwitchesOK, PortsOK, InOK, OutOK

LEMMA AddressStep ==
  ASSUME IInv, NEW p \in Addressings, handle_address(p)
  PROVE  IInv'
<1>p. /\ p.netSwitch \in 0 .. 255 /\ p.subSwitch \in 0 .. 255
      /\ p.swIn \in [Ports -> 0 .. 255] /\ p.swOut \in [Ports -> 0 .. 255]
  BY AddressingAssumption
<1>0. /\ p.netSwitch % 128 \in 0 .. 127 /\ p.subSwitch % 16 \in 0 .. 15
  BY <1>p, Ranges
<1> USE DEF IInv
<1>1. /\ net' \in [value : 0 .. 127, default : 0 .. 127, ctl : BOOLEAN]
      /\ SwitchOK(net', Note(p.netSwitch, p.netSwitch % 128, programmed.net))
  <2>1. net' = Switched(net, p.netSwitch, p.netSwitch % 128)
    BY DEF handle_address
  <2>2. net \in [value : 0 .. 127, default : 0 .. 127, ctl : BOOLEAN]
        /\ SwitchOK(net, programmed.net)
    BY DEF Typed, SwitchesOK
  <2>3. 127 \in Nat
    OBVIOUS
  <2> DEFINE q == Switched(net, p.netSwitch, p.netSwitch % 128)
  <2>4. /\ q \in [value : 0 .. 127, default : 0 .. 127, ctl : BOOLEAN]
        /\ SwitchOK(q, Note(p.netSwitch, p.netSwitch % 128, programmed.net))
    <3>1. p.netSwitch \in 0 .. 255 /\ p.netSwitch % 128 \in 0 .. 127
      BY <1>p, <1>0
    <3> QED BY <2>2, <2>3, <3>1, SwitchedOK, ZenonT(30)
  <2> QED BY <2>1, <2>4
<1>2. /\ sub' \in [value : 0 .. 255, default : 0 .. 255, ctl : BOOLEAN]
      /\ SwitchOK(sub', Note(p.subSwitch, p.subSwitch % 16, programmed.sub))
  <2>1. sub' = Switched(sub, p.subSwitch, p.subSwitch % 16)
    BY DEF handle_address
  <2>2. sub \in [value : 0 .. 255, default : 0 .. 255, ctl : BOOLEAN]
        /\ SwitchOK(sub, programmed.sub)
    BY DEF Typed, SwitchesOK
  <2>3. p.subSwitch % 16 \in 0 .. 255
    BY <1>0
  <2> DEFINE q == Switched(sub, p.subSwitch, p.subSwitch % 16)
  <2>4. /\ q \in [value : 0 .. 255, default : 0 .. 255, ctl : BOOLEAN]
        /\ SwitchOK(q, Note(p.subSwitch, p.subSwitch % 16, programmed.sub))
    <3>1. 255 \in Nat
      OBVIOUS
    <3> QED BY <1>p, <2>2, <2>3, <3>1, SwitchedOK, ZenonT(30)
  <2> QED BY <2>1, <2>4
<1>3. net.value \in Nat /\ sub.value \in Nat /\ net'.value \in Nat /\ sub'.value \in Nat
  BY <1>1, <1>2 DEF Typed
<1>4. programmed' = NoteAll(p)
  BY DEF handle_address
<1>5. ASSUME NEW i \in Ports
      PROVE  /\ in'[i] \in InPort /\ PortOn(in'[i], net'.value, sub'.value)
             /\ PortHolds(in'[i], programmed'.in[i]) /\ programmed'.in[i] \in Nibbles
  <2> DEFINE r == Rebuilt(in)[i]
             q == ProgrammedPort(r, p.swIn[i])
             kept == programmed.in[i]
  <2>1. in[i] \in InPort /\ InOK(i) /\ kept \in Nibbles /\ p.swIn[i] \in 0 .. 255
    BY <1>p DEF Typed, PortsOK
  <2>2. r \in InPort /\ PortOn(r, net'.value, sub'.value) /\ PortHolds(r, kept)
    BY <1>3, <2>1, RebuiltOK DEF InOK
  <2>3. /\ q \in InPort /\ PortOn(q, net'.value, sub'.value)
        /\ PortHolds(q, Note(p.swIn[i], p.swIn[i] % 16, kept))
        /\ Note(p.swIn[i], p.swIn[i] % 16, kept) \in Nibbles
    <3> HIDE DEF r, kept
    <3> QED BY <1>3, <2>1, <2>2, ProgrammedOK
  <2>4. in'[i] \in {q, [q EXCEPT !.seq = "first"]}
    BY DEF handle_address, InAfter
  <2>5. programmed'.in[i] = Note(p.swIn[i], p.swIn[i] % 16, kept)
    BY <1>4 DEF NoteAll
  <2> HIDE DEF q, r, kept
  <2>6. /\ in'[i] \in InPort /\ in'[i].addr = q.addr
        /\ in'[i].default = q.default /\ in'[i].ctl = q.ctl
    BY <2>3, <2>4, Restarted
  <2> QED BY <2>3, <2>5, <2>6 DEF PortOn, PortHolds, Holds
<1>6. ASSUME NEW i \in Ports
      PROVE  /\ out'[i] \in Shared /\ PortOn(out'[i], net'.value, sub'.value)
             /\ PortHolds(out'[i], programmed'.out[i]) /\ programmed'.out[i] \in Nibbles
  <2> DEFINE r == Rebuilt(out)[i]
             q == ProgrammedPort(r, p.swOut[i])
             kept == programmed.out[i]
  <2>1. out[i] \in Shared /\ OutOK(i) /\ kept \in Nibbles /\ p.swOut[i] \in 0 .. 255
    BY <1>p DEF Typed, PortsOK
  <2>2. r \in Shared /\ PortOn(r, net'.value, sub'.value) /\ PortHolds(r, kept)
    BY <1>3, <2>1, RebuiltOK DEF OutOK
  <2>3. /\ q \in Shared /\ PortOn(q, net'.value, sub'.value)
        /\ PortHolds(q, Note(p.swOut[i], p.swOut[i] % 16, kept))
        /\ Note(p.swOut[i], p.swOut[i] % 16, kept) \in Nibbles
    <3> HIDE DEF r, kept
    <3> QED BY <1>3, <2>1, <2>2, ProgrammedOK
  <2>4. out'[i] = [q EXCEPT !.enabled = q.enabled \/ Touched(p.swOut[i])]
    BY DEF handle_address, OutAfter
  <2>5. programmed'.out[i] = Note(p.swOut[i], p.swOut[i] % 16, kept)
    BY <1>4 DEF NoteAll
  <2> HIDE DEF q, r, kept
  <2>6. /\ out'[i] \in Shared /\ out'[i].addr = q.addr
        /\ out'[i].default = q.default /\ out'[i].ctl = q.ctl
    BY <2>3, <2>4 DEF Shared
  <2> QED BY <2>3, <2>5, <2>6 DEF PortOn, PortHolds, Holds
<1>7. PortsOK'
  BY <1>5, <1>6 DEF PortsOK, InOK, OutOK
<1>8. SwitchesOK'
  BY <1>1, <1>2, <1>4 DEF NoteAll, SwitchesOK
<1>9. Typed'
  <2>1. in' \in [Ports -> InPort] /\ out' \in [Ports -> Shared]
    <3>1. DOMAIN in' = Ports /\ in' = [i \in Ports |-> in'[i]]
      BY DEF handle_address, InAfter
    <3>2. DOMAIN out' = Ports /\ out' = [i \in Ports |-> out'[i]]
      BY DEF handle_address, OutAfter
    <3> QED BY <1>5, <1>6, <3>1, <3>2
  <2>2. /\ Note(p.netSwitch, p.netSwitch % 128, programmed.net) \in 0 .. 127 \cup {None}
        /\ Note(p.subSwitch, p.subSwitch % 16, programmed.sub) \in Nibbles
    BY <1>0 DEF Note, Typed, Nibbles
  <2>3. programmed'.in \in [Ports -> Nibbles] /\ programmed'.out \in [Ports -> Nibbles]
    BY <1>4, <1>5, <1>6 DEF NoteAll
  <2> QED BY <1>1, <1>2, <1>4, <2>1, <2>2, <2>3 DEF Typed, NoteAll
<1>10. IfaceOK' /\ AnnouncedCurrent'
  BY Built DEF handle_address, IfaceOK
<1> QED BY <1>7, <1>8, <1>9, <1>10

(* Steps that change of the input ports only what is not announced.        *)
LEMMA InputsOnlyOK ==
  ASSUME IInv, UNCHANGED <<net, sub, out, programmed>>, in' \in [Ports -> InPort],
         \A i \in Ports : /\ in'[i].addr = in[i].addr /\ in'[i].default = in[i].default
                          /\ in'[i].ctl = in[i].ctl
  PROVE  Typed' /\ SwitchesOK' /\ PortsOK'
<1>1. Typed' /\ SwitchesOK'
  BY DEF IInv, Typed, SwitchesOK
<1>2. ASSUME NEW i \in Ports PROVE InOK(i)' /\ OutOK(i)'
  <2>1. InOK(i) /\ OutOK(i)
    BY DEF IInv, PortsOK
  <2> QED BY <2>1 DEF InOK, OutOK, PortOn, PortHolds, Holds
<1> QED BY <1>1, <1>2 DEF PortsOK

LEMMA InputStep ==
  ASSUME IInv, NEW disabled, NEW ports, _artnet_handle_input(disabled, ports)
  PROVE  IInv'
<1>1. in \in [Ports -> InPort]
  BY DEF IInv, Typed
<1>2. ASSUME NEW i \in Ports
      PROVE  /\ in'[i] \in InPort /\ in'[i].addr = in[i].addr
             /\ in'[i].default = in[i].default /\ in'[i].ctl = in[i].ctl
  <2>1. \/ in'[i] = in[i]
        \/ in'[i] = [in[i] EXCEPT !.disabled = i \in disabled]
    BY DEF _artnet_handle_input
  <2>2. in[i] \in InPort /\ (i \in disabled) \in BOOLEAN
    BY <1>1
  <2> QED BY <2>1, <2>2 DEF InPort
<1>3. in' \in [Ports -> InPort]
  <2>1. DOMAIN in' = Ports /\ in' = [i \in Ports |-> in'[i]]
    BY DEF _artnet_handle_input
  <2> QED BY <1>2, <2>1
<1>4. Typed' /\ SwitchesOK' /\ PortsOK'
  BY <1>2, <1>3, InputsOnlyOK DEF _artnet_handle_input
<1>5. IfaceOK' /\ AnnouncedCurrent'
  BY Built DEF _artnet_handle_input, IInv, IfaceOK
<1> QED BY <1>4, <1>5 DEF IInv

LEMMA SendStep ==
  ASSUME IInv, NEW i \in Ports, artnet_send_dmx(i)
  PROVE  IInv'
<1>1. in \in [Ports -> InPort]
  BY DEF IInv, Typed
<1>2. in' = [in EXCEPT ![i] = [in[i] EXCEPT !.seq = "later"]]
  BY DEF artnet_send_dmx
<1>3. in' \in [Ports -> InPort]
  BY <1>1, <1>2 DEF InPort
<1>4. \A j \in Ports : /\ in'[j].addr = in[j].addr /\ in'[j].default = in[j].default
                       /\ in'[j].ctl = in[j].ctl
  BY <1>1, <1>2 DEF InPort
<1>5. Typed' /\ SwitchesOK' /\ PortsOK'
  BY <1>3, <1>4, InputsOnlyOK DEF artnet_send_dmx
<1>6. Template' = Template
  BY <1>4, TemplateFrame DEF artnet_send_dmx
<1>7. IfaceOK' /\ AnnouncedCurrent'
  BY <1>6, NotBuilt DEF artnet_send_dmx, IInv, IfaceOK
<1> QED BY <1>5, <1>7 DEF IInv

LEMMA IpProgStep ==
  ASSUME IInv, NEW p \in IpProgs, handle_ipprog(p)
  PROVE  IInv'
<1>1. Typed' /\ SwitchesOK' /\ PortsOK'
  BY FixedOK DEF Fixed, handle_ipprog, switches
<1>2. IfaceOK'
  <2>1. CASE iface' = iface
    BY <2>1 DEF IInv, IfaceOK
  <2>2. CASE iface' = IfaceAfter(p)
    BY <2>2 DEF IfaceAfter, Or, IInv, IfaceOK
  <2> QED BY <2>1, <2>2 DEF handle_ipprog
<1>3. AnnouncedCurrent'
  BY Built DEF handle_ipprog
<1> QED BY <1>1, <1>2, <1>3 DEF IInv

(* The steps that touch neither switches nor ports.                        *)
LEMMA OtherSteps ==
  ASSUME IInv,
         \/ SetsLabels \/ artnet_set_node_type \/ artnet_start \/ artnet_stop
         \/ \E p \in IpProgs : artnet_set_gateway(p.gateway)
  PROVE  IInv'
<1>1. CASE SetsLabels
  <2>1. Typed' /\ SwitchesOK' /\ PortsOK' /\ IfaceOK'
    BY <1>1, FixedOK DEF Fixed, SetsLabels, switches, IInv, IfaceOK
  <2>2. AnnouncedCurrent'
    BY <1>1, Built, BuiltIfOn DEF SetsLabels
  <2> QED BY <2>1, <2>2 DEF IInv
<1>2. CASE artnet_set_node_type
  <2>1. Typed' /\ SwitchesOK' /\ PortsOK' /\ IfaceOK'
    BY <1>2, FixedOK DEF Fixed, artnet_set_node_type, switches, IInv, IfaceOK
  <2>2. Template' = Template
    BY <1>2, TemplateFrame DEF artnet_set_node_type, switches
  <2> QED BY <1>2, <2>1, <2>2, NotBuilt DEF IInv, artnet_set_node_type
<1>3. CASE artnet_start
  <2>1. Typed' /\ SwitchesOK' /\ PortsOK' /\ IfaceOK'
    BY <1>3, FixedOK DEF Fixed, artnet_start, switches, IInv, IfaceOK
  <2> QED BY <1>3, <2>1, Built DEF IInv, artnet_start
<1>4. CASE artnet_stop
  <2>1. Typed' /\ SwitchesOK' /\ PortsOK' /\ IfaceOK'
    BY <1>4, FixedOK DEF Fixed, artnet_stop, switches, IInv, IfaceOK
  <2>2. AnnouncedCurrent'
    BY <1>4 DEF artnet_stop, AnnouncedCurrent
  <2> QED BY <2>1, <2>2 DEF IInv
<1>5. ASSUME NEW p \in IpProgs, artnet_set_gateway(p.gateway) PROVE IInv'
  <2>1. Typed' /\ SwitchesOK' /\ PortsOK'
    BY <1>5, FixedOK DEF Fixed, artnet_set_gateway, switches
  <2>2. IfaceOK' /\ iface'.ip = iface.ip
    BY <1>5 DEF artnet_set_gateway, IInv, IfaceOK
  <2>3. Template' = Template
    BY <1>5, <2>2, TemplateFrame DEF artnet_set_gateway, switches
  <2>4. AnnouncedCurrent'
    BY <1>5, <2>3, NotBuilt DEF IInv, artnet_set_gateway
  <2> QED BY <2>1, <2>2, <2>4 DEF IInv
<1> QED BY <1>1, <1>2, <1>3, <1>4, <1>5

SetsFrame == UNCHANGED <<node_type, mode, labels, iface, programmed>>

(* A new net or sub-net takes the ports along.                             *)
LEMMA PortsRebuilt ==
  ASSUME IInv, UNCHANGED programmed,
         net'.value \in Nat, sub'.value \in Nat,
         in' = [i \in Ports |-> in'[i]],
         \A i \in Ports : in'[i] \in {Rebuilt(in)[i], [Rebuilt(in)[i] EXCEPT !.seq = "first"]},
         out' = Rebuilt(out)
  PROVE  in' \in [Ports -> InPort] /\ out' \in [Ports -> Shared] /\ PortsOK'
<1>1. net.value \in Nat /\ sub.value \in Nat
  BY DEF IInv, Typed
<1>2. ASSUME NEW i \in Ports PROVE in'[i] \in InPort /\ InOK(i)'
  <2> DEFINE r == Rebuilt(in)[i]
  <2>1. in[i] \in InPort /\ InOK(i)
    BY DEF IInv, Typed, PortsOK
  <2>2. r \in InPort /\ PortOn(r, net'.value, sub'.value) /\ PortHolds(r, programmed.in[i])
    BY <1>1, <2>1, RebuiltOK DEF InOK
  <2>3. in'[i] \in {r, [r EXCEPT !.seq = "first"]}
    OBVIOUS
  <2> HIDE DEF r
  <2>4. /\ in'[i] \in InPort /\ in'[i].addr = r.addr
        /\ in'[i].default = r.default /\ in'[i].ctl = r.ctl
    BY <2>2, <2>3, Restarted
  <2> QED BY <2>2, <2>4 DEF InOK, PortOn, PortHolds, Holds
<1>3. ASSUME NEW i \in Ports PROVE out'[i] \in Shared /\ OutOK(i)'
  <2>1. out[i] \in Shared /\ OutOK(i)
    BY DEF IInv, Typed, PortsOK
  <2> DEFINE r == Rebuilt(out)[i]
  <2>2. r \in Shared /\ PortOn(r, net'.value, sub'.value) /\ PortHolds(r, programmed.out[i])
    BY <1>1, <2>1, RebuiltOK DEF OutOK
  <2> QED BY <2>2 DEF OutOK
<1>4. DOMAIN out' = Ports /\ out' = [i \in Ports |-> out'[i]]
  BY DEF Rebuilt
<1> QED BY <1>2, <1>3, <1>4 DEF PortsOK

LEMMA NetStep ==
  ASSUME IInv, NEW arg \in NetArgs, artnet_set_net_addr(arg), SetsFrame
  PROVE  IInv'
<1>1. IfaceOK'
  BY DEF IInv, IfaceOK, SetsFrame
<1>2. CASE arg > 127
  <2>1. UNCHANGED <<net, sub, in, out, ar_temp>>
    BY <1>2 DEF artnet_set_net_addr
  <2>2. Typed' /\ SwitchesOK' /\ PortsOK'
    BY <2>1, FixedOK DEF Fixed, SetsFrame
  <2>3. AnnouncedCurrent'
    BY <2>1, TemplateFrame, NotBuilt DEF IInv, SetsFrame
  <2> QED BY <1>1, <2>2, <2>3 DEF IInv
<1>3. CASE ~(arg > 127)
  <2>1. arg \in 0 .. 127
    BY <1>3, ArgAssumption
  <2>2. /\ net' = [net EXCEPT !.default = arg, !.value = IF net.ctl THEN net.value ELSE arg]
        /\ UNCHANGED sub /\ in' = Rebuilt(in) /\ out' = Rebuilt(out)
    BY <1>3 DEF artnet_set_net_addr
  <2>3. /\ net \in [value : 0 .. 127, default : 0 .. 127, ctl : BOOLEAN]
        /\ SwitchOK(net, programmed.net)
    BY DEF IInv, Typed, SwitchesOK
  <2>4. /\ net' \in [value : 0 .. 127, default : 0 .. 127, ctl : BOOLEAN]
        /\ net'.ctl = net.ctl /\ net'.default = arg
        /\ net'.value = IF net.ctl THEN net.value ELSE arg
    BY <2>1, <2>2, <2>3
  <2>5. SwitchesOK'
    BY <2>2, <2>3, <2>4 DEF SwitchesOK, SwitchOK, Holds, IInv, SetsFrame
  <2>6. net'.value \in Nat /\ sub'.value \in Nat
    <3>1. net'.value \in 0 .. 127
      BY <2>4
    <3>2. sub' = sub /\ sub.value \in 0 .. 255
      BY <2>2 DEF IInv, Typed
    <3> QED BY <3>1, <3>2
  <2>7. in' = [i \in Ports |-> in'[i]]
    BY <2>2 DEF Rebuilt
  <2>8. in' \in [Ports -> InPort] /\ out' \in [Ports -> Shared] /\ PortsOK'
    BY <2>2, <2>6, <2>7, PortsRebuilt DEF SetsFrame
  <2>9. Typed'
    BY <2>2, <2>4, <2>8 DEF IInv, Typed, SetsFrame
  <2>10. AnnouncedCurrent'
    <3>1. CASE net'.value = net.value
      <4>1. UNCHANGED ar_temp
        BY <1>3, <3>1 DEF artnet_set_net_addr
      <4>2. \A i \in Ports : in'[i] = in[i] /\ out'[i] = out[i]
        BY <2>2, <3>1 DEF Rebuilt
      <4>3. Template' = Template
        BY <2>2, <2>4, <3>1, <4>2, TemplateFrame DEF SetsFrame
      <4> QED BY <4>1, <4>3, NotBuilt DEF IInv, SetsFrame
    <3>2. CASE net'.value # net.value
      BY <1>3, <3>2, BuiltIfOn DEF artnet_set_net_addr, SetsFrame
    <3> QED BY <3>1, <3>2
  <2> QED BY <1>1, <2>5, <2>8, <2>9, <2>10 DEF IInv
<1> QED BY <1>2, <1>3

LEMMA SubnetStep ==
  ASSUME IInv, NEW arg \in SubnetArgs, artnet_set_subnet_addr(arg), SetsFrame
  PROVE  IInv'
<1>1. IfaceOK'
  BY DEF IInv, IfaceOK, SetsFrame
<1>2. arg \in 0 .. 255
  BY ArgAssumption
<1>3. /\ sub' = [sub EXCEPT !.default = arg, !.value = IF sub.ctl THEN sub.value ELSE arg]
      /\ UNCHANGED net /\ out' = Rebuilt(out)
      /\ in' = [i \in Ports |-> IF sub'.value = sub.value THEN in[i]
                                ELSE [Rebuilt(in)[i] EXCEPT !.seq = "first"]]
  BY DEF artnet_set_subnet_addr
<1>4. /\ sub \in [value : 0 .. 255, default : 0 .. 255, ctl : BOOLEAN]
      /\ SwitchOK(sub, programmed.sub)
  BY DEF IInv, Typed, SwitchesOK
<1>5. /\ sub' \in [value : 0 .. 255, default : 0 .. 255, ctl : BOOLEAN]
      /\ sub'.ctl = sub.ctl /\ sub'.default = arg
      /\ sub'.value = IF sub.ctl THEN sub.value ELSE arg
  BY <1>2, <1>3, <1>4
<1>6. SwitchesOK'
  BY <1>3, <1>4, <1>5 DEF SwitchesOK, SwitchOK, Holds, IInv, SetsFrame
<1>7. net'.value \in Nat /\ sub'.value \in Nat
  <2>1. sub'.value \in 0 .. 255
    BY <1>5
  <2>2. net' = net /\ net.value \in 0 .. 127
    BY <1>3 DEF IInv, Typed
  <2> QED BY <2>1, <2>2
<1>8. in' = [i \in Ports |-> in'[i]]
  BY <1>3
<1>9. \A i \in Ports : in'[i] \in {Rebuilt(in)[i], [Rebuilt(in)[i] EXCEPT !.seq = "first"]}
  <2>1. CASE sub'.value = sub.value
    BY <1>3, <2>1 DEF Rebuilt
  <2>2. CASE sub'.value # sub.value
    BY <1>3, <2>2
  <2> QED BY <2>1, <2>2
<1>10. in' \in [Ports -> InPort] /\ out' \in [Ports -> Shared] /\ PortsOK'
  BY <1>3, <1>7, <1>8, <1>9, PortsRebuilt DEF SetsFrame
<1>11. Typed'
  BY <1>3, <1>5, <1>10 DEF IInv, Typed, SetsFrame
<1>12. AnnouncedCurrent'
  <2>1. CASE sub'.value = sub.value
    <3>1. UNCHANGED ar_temp
      BY <2>1 DEF artnet_set_subnet_addr
    <3>2. \A i \in Ports : in'[i] = in[i] /\ out'[i] = out[i]
      BY <1>3, <2>1 DEF Rebuilt
    <3>3. Template' = Template
      BY <1>3, <1>5, <2>1, <3>2, TemplateFrame DEF SetsFrame
    <3> QED BY <3>1, <3>3, NotBuilt DEF IInv, SetsFrame
  <2>2. CASE sub'.value # sub.value
    BY <2>2, BuiltIfOn DEF artnet_set_subnet_addr, SetsFrame
  <2> QED BY <2>1, <2>2
<1> QED BY <1>1, <1>6, <1>10, <1>11, <1>12 DEF IInv

(* Setting the address of one port; the others are left alone.             *)
LEMMA PortSetOK ==
  ASSUME NEW port \in InPort \cup Shared, NEW arg \in 0 .. 15, NEW kept \in Nibbles,
         net.value \in Nat, sub.value \in Nat,
         PortOn(port, net.value, sub.value), PortHolds(port, kept)
  PROVE  LET q == PortSet(port, arg)
         IN /\ port \in InPort => q \in InPort
            /\ port \in Shared => q \in Shared
            /\ PortOn(q, net.value, sub.value) /\ PortHolds(q, kept)
            /\ q.ctl = port.ctl /\ (Takes(port, arg) \/ q.addr = port.addr)
<1> DEFINE q == PortSet(port, arg)
           a == make_addr(net.value, sub.value, arg)
<1>1. arg \in Nat /\ arg % 16 = arg
  BY Ranges
<1>2. /\ a \in Nat /\ addr_port(a) = arg
      /\ addr_subnet(a) = sub.value % 16 /\ addr_net(a) = net.value % 128
  <2> DEFINE r == [port EXCEPT !.addr = a]
  <2>1. /\ r \in InPort \cup Shared
        /\ PortOn(r, net.value, sub.value) /\ addr_port(r.addr) = arg % 16
    BY <1>1, Readdressed
  <2>2. r.addr = a
    BY DEF InPort, Shared
  <2> HIDE DEF r
  <2>3. r.addr \in Nat
    BY <2>1 DEF InPort, Shared
  <2> HIDE DEF a
  <2> QED BY <1>1, <2>1, <2>2, <2>3 DEF PortOn
<1>3. q = [port EXCEPT !.enabled = TRUE, !.default = arg,
                       !.addr = IF Takes(port, arg) THEN a ELSE port.addr]
  BY DEF PortSet
<1> HIDE DEF q, a
<1>4. /\ port \in InPort => q \in InPort
      /\ port \in Shared => q \in Shared
      /\ q.addr = (IF Takes(port, arg) THEN a ELSE port.addr)
      /\ q.default = arg /\ q.ctl = port.ctl
  BY <1>2, <1>3 DEF InPort, Shared
<1>5. PortOn(q, net.value, sub.value)
  BY <1>2, <1>4 DEF PortOn
<1>6. PortHolds(q, kept)
  <2>1. CASE Takes(port, arg)
    BY <1>2, <1>4, <2>1 DEF PortHolds, Holds, Takes
  <2>2. CASE ~Takes(port, arg)
    BY <1>4, <2>2 DEF PortHolds, Holds, Takes
  <2> QED BY <2>1, <2>2
<1> QED BY <1>4, <1>5, <1>6 DEF q

LEMMA PortStep ==
  ASSUME IInv, NEW i \in Ports, NEW dir \in {"in", "out"}, NEW arg \in PortArgs,
         artnet_set_port_addr(i, dir, arg), SetsFrame
  PROVE  IInv'
<1>1. IfaceOK' /\ SwitchesOK' /\ UNCHANGED <<net, sub, programmed>>
  BY DEF IInv, IfaceOK, SwitchesOK, SetsFrame, artnet_set_port_addr
<1>2. arg \in 0 .. 15
  BY ArgAssumption DEF artnet_set_port_addr
<1>3. net.value \in Nat /\ sub.value \in Nat
  BY DEF IInv, Typed
<1>4. /\ in[i] \in InPort /\ out[i] \in Shared /\ InOK(i) /\ OutOK(i)
      /\ programmed.in[i] \in Nibbles /\ programmed.out[i] \in Nibbles
      /\ in \in [Ports -> InPort] /\ out \in [Ports -> Shared]
  BY DEF IInv, Typed, PortsOK
<1>5. CASE dir = "in"
  <2> DEFINE q == PortSet(in[i], arg)
  <2>1. /\ q \in InPort /\ PortOn(q, net.value, sub.value) /\ PortHolds(q, programmed.in[i])
        /\ q.ctl = in[i].ctl /\ (Takes(in[i], arg) \/ q.addr = in[i].addr)
    BY <1>2, <1>3, <1>4, PortSetOK DEF InOK
  <2>2. out' = out
    BY <1>5 DEF artnet_set_port_addr
  <2>11. \/ in' = [in EXCEPT ![i] = q]
         \/ in' = [in EXCEPT ![i] = [q EXCEPT !.seq = "first"]]
    BY <1>5 DEF artnet_set_port_addr
  <2>3. Takes(in[i], arg) \/ UNCHANGED ar_temp
    BY <1>5 DEF artnet_set_port_addr
  <2>4. Takes(in[i], arg) => RebuildIfOn
    BY <1>5 DEF artnet_set_port_addr
  <2> HIDE DEF q
  <2>5. [q EXCEPT !.seq = "first"] \in InPort
    BY <2>1, Restarted
  <2>6. /\ in'[i] \in InPort /\ in'[i].addr = q.addr
        /\ in'[i].default = q.default /\ in'[i].ctl = q.ctl
        /\ \A j \in Ports : j # i => in'[j] = in[j]
        /\ in' \in [Ports -> InPort]
    BY <1>4, <2>1, <2>5, <2>11, Restarted
  <2>7. InOK(i)'
    BY <1>1, <2>1, <2>6 DEF InOK, PortOn, PortHolds, Holds
  <2>8. PortsOK'
    BY <1>1, <2>2, <2>6, <2>7 DEF IInv, PortsOK, InOK, OutOK
  <2>9. Typed'
    BY <1>1, <2>2, <2>6 DEF IInv, Typed
  <2>10. AnnouncedCurrent'
    <3>1. CASE Takes(in[i], arg)
      BY <2>4, <3>1, BuiltIfOn DEF SetsFrame
    <3>2. CASE ~Takes(in[i], arg)
      <4>1. \A j \in Ports : in'[j].addr = in[j].addr /\ in'[j].ctl = in[j].ctl
        BY <2>1, <2>6, <3>2
      <4>2. Template' = Template
        BY <1>1, <2>2, <4>1, TemplateFrame DEF SetsFrame
      <4> QED BY <2>3, <3>2, <4>2, NotBuilt DEF IInv, SetsFrame
    <3> QED BY <3>1, <3>2
  <2> QED BY <1>1, <2>8, <2>9, <2>10 DEF IInv
<1>6. CASE dir = "out"
  <2> DEFINE q == PortSet(out[i], arg)
  <2>1. /\ q \in Shared /\ PortOn(q, net.value, sub.value) /\ PortHolds(q, programmed.out[i])
        /\ q.ctl = out[i].ctl /\ (Takes(out[i], arg) \/ q.addr = out[i].addr)
    BY <1>2, <1>3, <1>4, PortSetOK DEF OutOK
  <2>2. in' = in /\ out' = [out EXCEPT ![i] = q]
    BY <1>6 DEF artnet_set_port_addr
  <2>3. Takes(out[i], arg) \/ UNCHANGED ar_temp
    BY <1>6 DEF artnet_set_port_addr
  <2>4. Takes(out[i], arg) => RebuildIfOn
    BY <1>6 DEF artnet_set_port_addr
  <2> HIDE DEF q
  <2>6. /\ out'[i] = q /\ \A j \in Ports : j # i => out'[j] = out[j]
        /\ out' \in [Ports -> Shared]
    BY <1>4, <2>1, <2>2
  <2>7. OutOK(i)'
    BY <1>1, <2>1, <2>6 DEF OutOK, PortOn, PortHolds, Holds
  <2>8. PortsOK'
    BY <1>1, <2>2, <2>6, <2>7 DEF IInv, PortsOK, InOK, OutOK
  <2>9. Typed'
    BY <1>1, <2>2, <2>6 DEF IInv, Typed
  <2>10. AnnouncedCurrent'
    <3>1. CASE Takes(out[i], arg)
      BY <2>4, <3>1, BuiltIfOn DEF SetsFrame
    <3>2. CASE ~Takes(out[i], arg)
      <4>1. \A j \in Ports : out'[j].addr = out[j].addr /\ out'[j].ctl = out[j].ctl
        BY <2>1, <2>6, <3>2
      <4>2. Template' = Template
        BY <1>1, <2>2, <4>1, TemplateFrame DEF SetsFrame
      <4> QED BY <2>3, <3>2, <4>2, NotBuilt DEF IInv, SetsFrame
    <3> QED BY <3>1, <3>2
  <2> QED BY <1>1, <2>8, <2>9, <2>10 DEF IInv
<1> QED BY <1>5, <1>6

-----------------------------------------------------------------------------
LEMMA InitHolds ==
  ASSUME Init
  PROVE  IInv
<1>1. addr_port(0) = 0 /\ addr_subnet(0) = 0 /\ addr_net(0) = 0
  BY SMT DEF addr_port, addr_subnet, addr_net
<1>2. Typed
  BY DEF Init, Typed, NewSwitch, NewIn, NewOut, InPort, Shared, Nibbles
<1>3. SwitchesOK /\ IfaceOK
  BY DEF Init, SwitchesOK, SwitchOK, Holds, NewSwitch, IfaceOK
<1>4. PortsOK
  <2>1. net.value % 128 = 0 /\ sub.value % 16 = 0
    BY SMT DEF Init, NewSwitch
  <2> QED BY <1>1, <2>1 DEF Init, PortsOK, InOK, OutOK, PortOn, PortHolds, Holds, NewIn, NewOut
<1>5. AnnouncedCurrent
  BY DEF Init, AnnouncedCurrent
<1> QED BY <1>2, <1>3, <1>4, <1>5 DEF IInv

LEMMA NextHolds ==
  ASSUME IInv, [Next]_vars
  PROVE  IInv'
<1>1. CASE UNCHANGED vars
  <2>1. UNCHANGED <<mode, net, sub, in, out, labels, iface, ar_temp, programmed>>
    BY <1>1 DEF vars, switches
  <2>2. Typed' /\ SwitchesOK' /\ PortsOK' /\ IfaceOK'
    BY <2>1, FixedOK DEF Fixed, IInv, IfaceOK
  <2>3. Template' = Template
    BY <2>1, TemplateFrame
  <2> QED BY <2>1, <2>2, <2>3, NotBuilt DEF IInv
<1>2. CASE Handles
  BY <1>2, AddressStep, InputStep, IpProgStep DEF Handles
<1>3. CASE Sets
  BY <1>3, NetStep, SubnetStep, PortStep DEF Sets, SetsFrame
<1>4. CASE Configures
  BY <1>3, <1>4, OtherSteps, SendStep DEF Configures
<1>5. CASE artnet_start \/ artnet_stop
  BY <1>5, OtherSteps
<1> QED BY <1>1, <1>2, <1>4, <1>5 DEF Next

LEMMA InvHolds == Spec => []IInv
<1>1. Init => IInv
  BY InitHolds
<1>2. IInv /\ [Next]_vars => IInv'
  BY NextHolds
<1> QED BY <1>1, <1>2, PTL DEF Spec

(* Every port is on the net and sub-net of its node, for any number of     *)
(* ports and after any calls and packets (handle_address, the three set    *)
(* functions of addresses).                                                *)
THEOREM PortsOnNet == Spec => []PortsFollowSwitches
<1>1. IInv => PortsFollowSwitches
  BY DEF IInv, PortsOK, InOK, OutOK, PortOn, PortsFollowSwitches
<1> QED BY <1>1, InvHolds, PTL

(* What the network programmed holds until it resets it, and then what the *)
(* application set meanwhile (handle_address, artnet_set_port_addr).       *)
THEOREM ProgrammingKept == Spec => []ProgrammingHolds
<1>1. IInv => ProgrammingHolds
  BY DEF IInv, SwitchesOK, SwitchOK, PortsOK, InOK, OutOK, PortHolds, IfaceOK, ProgrammingHolds
<1> QED BY <1>1, InvHolds, PTL

(* A running node announces the configuration it has                       *)
(* (artnet_tx_build_art_poll_reply and its callers).                       *)
THEOREM Announced == Spec => []AnnouncedCurrent
<1>1. IInv => AnnouncedCurrent
  BY DEF IInv
<1> QED BY <1>1, InvHolds, PTL
=============================================================================
