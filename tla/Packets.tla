------------------------------- MODULE Packets -------------------------------
(***************************************************************************)
(* The packets of Art-Net 4 as the library lays them out, and the two      *)
(* tests every packet received from the network has to pass before a       *)
(* handler sees it.                                                        *)
(*                                                                         *)
(* A packet is a record: its type, where it goes, its version and length,  *)
(* and a body that holds only the fields some test looks at.  Text and     *)
(* payload bytes are reduced to what a test asks of them: "nul", the last  *)
(* byte counted is zero; "vlc", the payload starts with the magic number   *)
(* and counts itself right.                                                *)
(***************************************************************************)
EXTENDS Naturals

ARTNET_VERSION == 14
MIN_PACKET_SIZE == 10
ARTNET_DMX_LENGTH == 512
ARTNET_VLC_START_CODE == 145
ARTNET_VLC_MIN_LENGTH == 22
ARTNET_MAX_RDM_ADCOUNT == 32
ARTNET_MAX_UID_COUNT == 200
ARTNET_RDM_UID_WIDTH == 6

(***************************************************************************)
(* Every packet has a part of fixed size, "header", and room for "data"    *)
(* bytes at its end.  The structures are packed: these are their sizes.    *)
(***************************************************************************)
Fixed(n) == [header |-> n, data |-> 0]
Variable(n, m) == [header |-> n, data |-> m]

DiscoveryFormats ==
  [poll |-> Fixed(22), reply |-> Fixed(239), ipprog |-> Fixed(34), ipreply |-> Fixed(34)]

DataFormats ==
  [datarequest |-> Fixed(40), datareply |-> Variable(20, ARTNET_DMX_LENGTH),
   address |-> Fixed(107), dmx |-> Variable(18, ARTNET_DMX_LENGTH), input |-> Fixed(20),
   todrequest |-> Variable(24, ARTNET_MAX_RDM_ADCOUNT),
   toddata |-> Variable(28, ARTNET_MAX_UID_COUNT * ARTNET_RDM_UID_WIDTH)]

RdmFormats ==
  [firmware |-> Variable(40, 1024), todcontrol |-> Fixed(24), rdm |-> Variable(24, 512),
   rdmsub |-> Variable(32, 512), diagdata |-> Variable(18, ARTNET_DMX_LENGTH),
   firmwarereply |-> Fixed(36)]

ShowFormats ==
  [sync |-> Fixed(14), nzs |-> Variable(18, ARTNET_DMX_LENGTH),
   command |-> Variable(16, ARTNET_DMX_LENGTH), timecode |-> Fixed(19),
   timesync |-> Fixed(24), trigger |-> Variable(18, ARTNET_DMX_LENGTH)]

FileFormats ==
  [directory |-> Fixed(25), directoryreply |-> Variable(20, 2048),
   filetnmaster |-> Variable(40, 1024), filefnmaster |-> Variable(27, 256),
   filefnreply |-> Variable(28, 1024), mediapatch |-> Variable(17, ARTNET_DMX_LENGTH),
   mediacontrol |-> Variable(26, ARTNET_DMX_LENGTH),
   mediacontrolreply |-> Variable(26, ARTNET_DMX_LENGTH)]

MergedFormats(f, g) ==
  [t \in DOMAIN f \cup DOMAIN g |-> IF t \in DOMAIN f THEN f[t] ELSE g[t]]

Format == MergedFormats(DiscoveryFormats, MergedFormats(DataFormats,
            MergedFormats(RdmFormats, MergedFormats(ShowFormats, FileFormats))))

(* The operation codes the dispatcher knows; ArtMedia has no layout, the   *)
(* video and MAC codes are logged and nothing else.                        *)
Types == DOMAIN Format \cup {"media", "videosetup", "videopalette", "videodata",
                             "macmaster", "macslave"}
UnknownType == "unknown"

NoBody == [none |-> TRUE]

(* A packet built by the library, with "data" bytes after its header.      *)
Packet(type, to, data, body) ==
  [type |-> type, to |-> to, ver |-> ARTNET_VERSION,
   length |-> Format[type].header + data, body |-> body]

-----------------------------------------------------------------------------
(* ArtPoll and ArtPollReply are accepted in their older, shorter forms.    *)
MinLength(type) ==
  CASE type = "poll" -> 14
    [] type = "reply" -> 207
    [] type \in DOMAIN Format \ {"poll", "reply"} -> Format[type].header
    [] OTHER -> MIN_PACKET_SIZE

packet_length_is_valid(p) == p.length >= MinLength(p.type)

Fits(p, count) == p.length >= Format[p.type].header + count
LastIsNul(b) == b.len > 0 => b.nul

ReservedCode(code) == code \in 6..32767
DiagPriorities == {16, 64, 128, 224, 240}
TimecodeInRange(t) ==
  t.kind <= 3 /\ t.frames <= 29 /\ t.seconds <= 59 /\ t.minutes <= 59 /\ t.hours <= 23
TimesyncInRange(t) ==
  t.sec <= 59 /\ t.min <= 59 /\ t.hour <= 23 /\ t.mday \in 1..31 /\ t.mon <= 11

(* The count a packet gives is in range and was received.                  *)
Sized(p, low, high) == p.body.len \in low..high /\ Fits(p, p.body.len)

DataInRange(p) ==
  LET b == p.body
  IN CASE p.type = "dmx" -> Sized(p, 2, ARTNET_DMX_LENGTH) /\ b.len % 2 = 0
       [] p.type = "nzs" ->
            /\ Sized(p, 1, ARTNET_DMX_LENGTH)
            /\ b.startCode \notin {0, 204}
            /\ b.startCode = ARTNET_VLC_START_CODE =>
                 b.len >= ARTNET_VLC_MIN_LENGTH /\ b.vlc
       [] p.type = "datareply" -> ~ReservedCode(b.code) /\ Sized(p, 0, 512) /\ LastIsNul(b)
       [] p.type = "datarequest" -> ~ReservedCode(b.code)
       [] p.type = "diagdata" ->
            \/ b.len = 0
            \/ b.priority \in DiagPriorities /\ Sized(p, 1, ARTNET_DMX_LENGTH) /\ b.nul
       [] p.type = "command" -> Sized(p, 0, ARTNET_DMX_LENGTH) /\ LastIsNul(b)
       [] p.type = "address" -> b.bindIndex # 0 /\ (b.acnPriority = 255 \/ b.acnPriority <= 200)
       [] p.type = "input" -> b.bindIndex # 0 /\ b.numbports < 256
       [] OTHER -> TRUE

RdmInRange(p) ==
  LET b == p.body
  IN CASE p.type = "todrequest" -> b.command = 0 /\ b.adCount <= ARTNET_MAX_RDM_ADCOUNT
       [] p.type = "toddata" ->
            /\ b.rdmVer = 1 /\ b.port \in 1..4 /\ b.bindIndex # 0 /\ b.cmdRes \in {0, 255}
            /\ b.uidCount <= ARTNET_MAX_UID_COUNT
            /\ Fits(p, b.uidCount * ARTNET_RDM_UID_WIDTH)
       [] p.type = "todcontrol" -> b.cmd <= 4
       [] p.type = "rdm" -> b.rdmVer = 1 /\ b.cmd = 0
       [] p.type = "rdmsub" -> b.rdmVer = 1 /\ b.subCount # 0
       [] OTHER -> TRUE

ShowInRange(p) ==
  LET b == p.body
  IN CASE p.type = "timecode" -> TimecodeInRange(b)
       [] p.type = "timesync" -> TimesyncInRange(b)
       [] p.type = "trigger" -> b.key <= 3
       [] p.type = "directoryreply" -> Sized(p, 0, 2048)
       [] p.type = "filefnmaster" -> b.len \in 1..255 /\ Fits(p, b.len + 1) /\ b.nul
       [] p.type = "filefnreply" ->
            LET payload == p.length - Format[p.type].header
            IN payload <= 1024 /\ payload % 2 = 0 /\ payload <= b.total
       [] p.type = "mediapatch" -> Sized(p, 1, ARTNET_DMX_LENGTH)
       [] OTHER -> TRUE

FieldsInRange(p) == DataInRange(p) /\ RdmInRange(p) /\ ShowInRange(p)

(* ArtPollReply carries no version to compare.                             *)
packet_fields_are_valid(p) ==
  p.type = "reply" \/ (p.ver >= ARTNET_VERSION /\ FieldsInRange(p))

Accepted(p) == packet_length_is_valid(p) /\ packet_fields_are_valid(p)
=============================================================================
