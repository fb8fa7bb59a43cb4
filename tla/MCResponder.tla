------------------------------ MODULE MCResponder ------------------------------
(* Model values for checking Responder with TLC: the packets the other     *)
(* machines send, with those that are too short, too old or out of range.  *)
EXTENDS Responder

To(type, data, body) == Packet(type, Self, data, body)

Quiet == [on_change |-> FALSE, vlc_disabled |-> FALSE, target |-> FALSE, top |-> 0,
          bottom |-> 0, diag |-> FALSE, unicast |-> FALSE, priority |-> 0]
PollBodies ==
  {Quiet,
   [Quiet EXCEPT !.diag = TRUE, !.unicast = TRUE, !.priority = 64, !.vlc_disabled = TRUE],
   [Quiet EXCEPT !.diag = TRUE, !.priority = 128, !.on_change = TRUE],
   [Quiet EXCEPT !.target = TRUE, !.top = 4, !.bottom = 2],
   [Quiet EXCEPT !.target = TRUE, !.top = 9, !.bottom = 4]}

Unnamed == [bindIndex |-> 1, acnPriority |-> 255, shortName |-> FALSE, longName |-> FALSE]

Requests ==
  {To("poll", 0, b) : b \in PollBodies} \cup
  {To("address", 0, [Unnamed EXCEPT !.bindIndex = i]) : i \in {0, 1, 2}} \cup
  {To("address", 0, [Unnamed EXCEPT !.shortName = TRUE, !.longName = l]) : l \in BOOLEAN} \cup
  {To("input", 0, [bindIndex |-> 1, numbports |-> 4]),
   To("ipprog", 0, [enabled |-> FALSE, programs |-> TRUE]),
   To("ipprog", 0, [enabled |-> TRUE, programs |-> FALSE]),
   To("ipprog", 0, [enabled |-> TRUE, programs |-> TRUE]),
   To("directory", 0, NoBody),
   To("filefnmaster", 256, [len |-> 255, nul |-> TRUE]),
   To("rdm", 0, [rdmVer |-> 1, cmd |-> 0]),
   To("rdmsub", 0, [rdmVer |-> 1, subCount |-> 1])} \cup
  {To("filetnmaster", n, [words |-> 1]) : n \in {0, 2, 3, 4}}

Others ==
  {To("dmx", 2, [len |-> 2]), To("dmx", 2, [len |-> 3]), To("sync", 0, NoBody),
   To("timecode", 0, [kind |-> 3, frames |-> 29, seconds |-> 59, minutes |-> 59, hours |-> 23]),
   [To("poll", 0, Quiet) EXCEPT !.length = 13], [To("poll", 0, Quiet) EXCEPT !.ver = 13],
   [type |-> UnknownType, to |-> Self, ver |-> ARTNET_VERSION, length |-> 10, body |-> NoBody]}

AllPackets == Requests \cup Others
=============================================================================
