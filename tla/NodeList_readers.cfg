\* artnet_nl_foreach in another thread, artnet_send_dmx in this one, under fairness.
SPECIFICATION FairSpec
CONSTANTS
  a = a
  b = b
  c = c
  Nodes = {a, b}
  Cells = {p1, p2}
  IpOf <- OwnIps
  MatchingPorts <- OnePortEach
  BcastLimit = 0
  Nil = Nil
  Garbage = Garbage
  NodeTimeout = 0
  MallocFails = FALSE
  Calls = {"artnet_nl_foreach", "artnet_send_dmx"}
  SeqWrap = 6
INVARIANTS ConsistentSnapshot FreedIsRetried
PROPERTY SilentNodeDropped
CHECK_DEADLOCK FALSE
