----------------------------- MODULE MCNodeConfig -----------------------------
(* Model values for checking NodeConfig with TLC.  Every byte of ArtAddress *)
(* takes the value that programs, the one that resets, and one that does   *)
(* neither.                                                                *)
EXTENDS NodeConfig

CONSTANT NumPorts
AllPorts == 0 .. NumPorts - 1

Kept == [i \in AllPorts |-> 127]
Quiet == [bindIndex |-> 1, shortName |-> None, longName |-> None, netSwitch |-> 127,
          subSwitch |-> 127, swIn |-> Kept, swOut |-> Kept, acnPriority |-> 255]

SomeNames == {<<"a">>, <<"b", "c">>}

Bytes == {0, 5, 131}
AddressPackets ==
  {[Quiet EXCEPT !.netSwitch = n] : n \in Bytes} \cup
  {[Quiet EXCEPT !.subSwitch = s] : s \in Bytes} \cup
  {[Quiet EXCEPT !.netSwitch = n, !.subSwitch = n] : n \in Bytes} \cup
  {[Quiet EXCEPT !.swIn[0] = b] : b \in Bytes} \cup
  {[Quiet EXCEPT !.swOut[0] = b] : b \in Bytes} \cup
  {[Quiet EXCEPT !.subSwitch = 0, !.swIn[0] = 131, !.swOut[0] = 0],
   [Quiet EXCEPT !.bindIndex = 2, !.netSwitch = 131],
   [Quiet EXCEPT !.shortName = <<"a">>, !.acnPriority = 100],
   [Quiet EXCEPT !.longName = <<"b", "c">>]}

NoIp == [enable |-> TRUE, dhcp |-> FALSE, reset |-> FALSE, ip |-> None, mask |-> None,
         gateway |-> None]
IpPackets ==
  {[NoIp EXCEPT !.ip = "a2"], [NoIp EXCEPT !.mask = "m2"],
   [NoIp EXCEPT !.ip = "a2", !.mask = "m2", !.gateway = "g2"],
   [NoIp EXCEPT !.dhcp = TRUE, !.ip = "a2"], [NoIp EXCEPT !.reset = TRUE, !.ip = "a2"],
   [NoIp EXCEPT !.enable = FALSE, !.ip = "a2"]}
=============================================================================
