------------------------------- MODULE Transmit -------------------------------
(***************************************************************************)
(* What the library puts on the network: for each of its transmitting      *)
(* functions the set of packets one call produces.  The set is empty when  *)
(* the function refuses its arguments.  Whether the node is running is     *)
(* asked by the caller or by artnet_net_send, in the modules that have a   *)
(* node.                                                                   *)
(***************************************************************************)
EXTENDS Packets

CONSTANT Broadcast (* the broadcast address of the interface               *)

Smaller(a, b) == IF a < b THEN a ELSE b
SendIf(allowed, p) == IF allowed THEN {p} ELSE {}

-----------------------------------------------------------------------------
(* Discovery and remote programming.                                       *)

artnet_tx_poll(type, to) == SendIf(type \in {"srv", "raw"}, Packet("poll", to, 0, NoBody))

(* The entry list says how many ports the node has; the index is 1.        *)
tx_address(to, acnPriority) ==
  {Packet("address", to, 0, [bindIndex |-> 1, acnPriority |-> acnPriority])}
tx_input(to, numbports) ==
  {Packet("input", to, 0, [bindIndex |-> 1, numbports |-> numbports])}

artnet_tx_ipprog(to) == {Packet("ipprog", to, 0, NoBody)}
artnet_tx_ipprog_reply(to) == {Packet("ipreply", to, 0, NoBody)}
artnet_tx_poll_reply(to) == {Packet("reply", to, 0, NoBody)}

artnet_tx_data_request(to, code) == {Packet("datarequest", to, 0, [code |-> code])}

(* A longer payload is cut at 512 bytes, and its final zero with it.       *)
artnet_tx_data_reply(to, code, text) ==
  LET len == Smaller(text.len, 512)
  IN {Packet("datareply", to, 512,
             [code |-> code, len |-> len, nul |-> text.nul /\ text.len <= 512])}

-----------------------------------------------------------------------------
(* Remote device management.                                               *)

(* One request for every network that has an enabled output port.          *)
artnet_tx_tod_request(portsOfNet) ==
  {Packet("todrequest", Broadcast, ARTNET_MAX_RDM_ADCOUNT,
          [command |-> 0, adCount |-> portsOfNet[net], net |-> net]) : net \in DOMAIN portsOfNet}
artnet_tx_tod_control(action) == {Packet("todcontrol", Broadcast, 0, [cmd |-> action])}

artnet_tx_rdm(to, length) ==
  {Packet("rdm", to, Smaller(length, 512), [rdmVer |-> 1, cmd |-> 0])}
artnet_tx_rdmsub(to, subCount, length) ==
  SendIf(subCount # 0,
         Packet("rdmsub", to, Smaller(length, 512), [rdmVer |-> 1, subCount |-> subCount]))

-----------------------------------------------------------------------------
(* Show data.                                                              *)

(* The text is cut to leave room for its final zero.                       *)
artnet_tx_diagdata(to, priority, chars) ==
  LET len == Smaller(chars, ARTNET_DMX_LENGTH - 1) + 1
  IN {Packet("diagdata", to, len, [priority |-> priority, len |-> len, nul |-> TRUE])}

artnet_tx_sync == {Packet("sync", Broadcast, 0, NoBody)}

tx_dmx(subscribers, len) ==
  IF len \in 2..ARTNET_DMX_LENGTH /\ len % 2 = 0
  THEN {Packet("dmx", to, len, [len |-> len]) : to \in subscribers}
  ELSE {}

NzsPackets(subscribers, startCode, data) ==
  IF startCode \notin {0, 204} /\ data.len \in 1..ARTNET_DMX_LENGTH
  THEN {Packet("nzs", to, data.len,
               [startCode |-> startCode, len |-> data.len, vlc |-> data.vlc]) : to \in subscribers}
  ELSE {}

(* A VLC payload is checked, then sent as an ArtNzs of its start code.     *)
VlcPackets(subscribers, data) ==
  IF data.len >= ARTNET_VLC_MIN_LENGTH /\ data.vlc
  THEN NzsPackets(subscribers, ARTNET_VLC_START_CODE, data)
  ELSE {}

(* Mutant: one byte too many is let through.                               *)
Mutartnet_tx_command(to, text) ==
  SendIf(text.len \in 0..(ARTNET_DMX_LENGTH + 1),
         Packet("command", to, text.len, [len |-> text.len, nul |-> text.nul]))
artnet_tx_command(to, text) ==
  SendIf(text.len \in 0..ARTNET_DMX_LENGTH,
         Packet("command", to, text.len, [len |-> text.len, nul |-> text.nul]))

artnet_tx_timecode(t) == SendIf(TimecodeInRange(t), Packet("timecode", Broadcast, 0, t))
artnet_tx_timesync(t) == SendIf(TimesyncInRange(t), Packet("timesync", Broadcast, 0, t))
artnet_tx_trigger(key, length) ==
  SendIf(key <= 3 /\ length \in 0..ARTNET_DMX_LENGTH,
         Packet("trigger", Broadcast, 512, [key |-> key]))

-----------------------------------------------------------------------------
(* Directories, files, media servers.                                      *)

artnet_tx_directory(known) == {Packet("directory", to, 0, NoBody) : to \in known}
artnet_tx_directory_reply(to) == {Packet("directoryreply", to, 2048, [len |-> 0])}
(* The application's own answer, cut to what a datagram holds.             *)
tx_directory_entries(to, count) ==
  LET len == Smaller(count, 2048) IN {Packet("directoryreply", to, len, [len |-> len])}

artnet_tx_file_tn_master(to, words) ==
  {Packet("filetnmaster", to, 2 * Smaller(words, 512), NoBody)}
artnet_tx_file_fn_master(to, chars) ==
  SendIf(chars > 0,
         Packet("filefnmaster", to, 256, [len |-> Smaller(chars, 255), nul |-> TRUE]))
artnet_tx_file_fn_reply(to, total, length) ==
  {Packet("filefnreply", to, Smaller(length, 1024), [total |-> total])}

artnet_tx_media_patch(to, length) ==
  SendIf(length \in 1..ARTNET_DMX_LENGTH, Packet("mediapatch", to, length, [len |-> length]))
artnet_tx_media_control(type, to, length) ==
  SendIf(length \in 0..ARTNET_DMX_LENGTH, Packet(type, to, length, NoBody))

artnet_tx_firmware_reply(to, code) == {Packet("firmwarereply", to, 0, [code |-> code])}

-----------------------------------------------------------------------------
(* What no transmitting function looks at, and a receiver does: the caller *)
(* answers for these arguments.                                            *)
LeftToTheCaller(p) ==
  LET b == p.body
  IN \/ p.type \in {"datarequest", "datareply"} /\ ReservedCode(b.code)
     \/ p.type \in {"datareply", "command"} /\ ~LastIsNul(b)
     \/ p.type = "diagdata" /\ b.priority \notin DiagPriorities
     \/ p.type = "todcontrol" /\ b.cmd > 4
     \/ p.type = "address" /\ b.acnPriority \in 201..254
     \/ p.type = "nzs" /\ b.startCode = ARTNET_VLC_START_CODE /\ ~b.vlc
     \/ p.type = "filefnreply" /\ (p.length % 2 = 1 \/ p.length - Format[p.type].header > b.total)
=============================================================================
