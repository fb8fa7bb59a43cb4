\* The thread of artnet_read alone; malloc fails, entries are pruned and re-added.
SPECIFICATION Spec
CONSTANTS
  a = a
  b = b
  c = c
  Nodes = {a, b, c}
  Cells = {p1, p2, p3}
  IpOf <- JoinedIps
  MatchingPorts <- TwoOfA
  BcastLimit = 0
  Nil = Nil
  Garbage = Garbage
  NodeTimeout = 1
  MallocFails = TRUE
  Calls = {"artnet_nl_first", "artnet_nl_next", "artnet_send_dmx"}
  SeqWrap = 2
INVARIANTS ListSound HeardIsListed
PROPERTY SendsToSubscribers
SYMMETRY CellSymmetry
CHECK_DEADLOCK FALSE
