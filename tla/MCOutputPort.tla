---------------------------- MODULE MCOutputPort ----------------------------
(* Model values for checking OutputPort with TLC, and the traffic of the   *)
(* run under fairness: two ports on two universes, a controller of one of  *)
(* them, and one that sends to both and so merges with the first.  Whether *)
(* a frame waits and whether data are missed does not depend on its level, *)
(* so all frames have one.                                                 *)
EXTENDS OutputPort

CONSTANTS h1, h2

OwnUniverse == [p \in Ports |-> p]

From(h) == [src |-> h, physical |-> 0, level |-> MaxLevel]
Traffic == {<<0, From(h1)>>, <<0, From(h2)>>, <<1, From(h2)>>}

LiveReceive ==
  \/ \E t \in Traffic : HandleDmx(t[1], t[2])
  \/ \E h \in Hosts : HandleSync(h)
  \/ \E u \in NzsUniverses : HandleNzs(u, MaxLevel)
  \/ NoOutputPacket

LiveNext == LiveReceive \/ CheckTimeouts \/ Tick

(* The application calls artnet_read over and over (README.md: "event      *)
(* loop") and select() returns at the latest after its timeout, so the     *)
(* loop keeps turning; time passes.  Nothing makes a controller send.      *)
LiveSpec ==
  /\ Init /\ [][LiveNext]_vars
  /\ WF_vars(CheckTimeouts) /\ WF_vars(LiveReceive) /\ WF_vars(Tick)
=============================================================================
